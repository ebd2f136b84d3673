-------------------------- MODULE PartitionProofs --------------------------
(***************************************************************************)
(* Proofs about a shared partition, for every number of processes, every   *)
(* bound on generations and coordinates, and every suffix bound.           *)
(*                                                                         *)
(* A coordinate is reached once a Seal covers it or an object occupies it; *)
(* it stays reached.  Everything rests on what may still land where: a RUN *)
(* lands only on a coordinate that was never reached, and only while no    *)
(* newer FENCE is in the store; a stale FENCE may land again behind the    *)
(* cut, but only below the newest FENCE.                                   *)
(*                                                                         *)
(* The first part states the invariant and what a landing does to the      *)
(* store; the second takes the steps one by one.  A step of a process      *)
(* leaves the store alone but for its tables, and moves that process and   *)
(* its own creates; the store changes when a create lands or a collector   *)
(* deletes.                                                                *)
(***************************************************************************)
EXTENDS Partition, WellFoundedInduction, TLAPS

-----------------------------------------------------------------------------
(* The inductive invariant. *)

NewestCut == IF Newest = 0 THEN 0 ELSE seals[Newest].cut
Reached(b) == b <= NewestCut \/ wal[b] # None
ReachedTo(b) == \A x \in Batches : x <= b => Reached(x)

Holds(b, kind, c) == b \in Batches /\ wal[b] # None /\ wal[b].kind = kind /\ wal[b].owner = c
IsFence(b, c) == Holds(b, "fence", c)
IsRun(b, c) == Holds(b, "run", c)

\* A FENCE of a newer owner is in the store; the newest FENCE.
Superseded(c) == \E b \in Batches, d \in Owners : d > c /\ IsFence(b, d)
Top(f, c) == IsFence(f, c) /\ ~Superseded(c) /\ \A b \in Batches : IsFence(b, c) => b <= f

\* A Seal that repeats its predecessor is a claim; a checkpoint moves the cut.
IsClaim(g) == g \in Generations /\ g > 1 /\ seals[g] # None /\ seals[g] = seals[g - 1]
Authors(c, g) ==
    \A h \in Generations : c < h /\ h <= g => seals[h] # None /\ seals[h].cut > seals[h - 1].cut

LandedTo(b) == {run \in landed : run.batch <= b}

\* The coordinate that the owner writes next: another FENCE has closed it, or it
\* was never reached and the owner is the newest.
Slot(k, c) ==
    IF wal[k] # None THEN \E d \in Owners : d > c /\ IsFence(k, d)
    ELSE k > NewestCut /\ ~Superseded(c)

\* The owner in force before a coordinate of the newest suffix.
OwnerBefore(b) == IF b - 1 > NewestCut THEN wal[b - 1].owner ELSE seals[Newest].owner

SealCreates ==
    [by : Procs \cup {None}, kind : {"seal"}, key : Generations, object : SealObjects,
     status : {"sent", "won", "lost"}]
WalCreates ==
    [by : Procs \cup {None}, kind : {"wal"}, key : Batches, object : WalObjects,
     status : {"sent", "won", "lost"}]

(* Types of the states of a process. *)
StateType(s) ==
    /\ s.at \in {"DiscoveringHead", "EstablishingGenesis", "ReadingSeal", "PublishingClaim",
                 "ReadingTable", "ObservingWalTail", "ReadingWalTail", "EstablishingFence",
                 "Replaying", "RefreshingAnomaly", "RefreshingFinal", "Ready", "Exited"}
    /\ s.at = "ReadingSeal" => s \in [at : {"ReadingSeal"}, generation : Generations]
    /\ s.at = "PublishingClaim" =>
         s \in [at : {"PublishingClaim"}, claim : Generations, seal : SealObjects]
    /\ s.at = "ReadingTable" =>
         s \in [at : {"ReadingTable"}, claim : Generations, seal : SealObjects,
                remaining : SUBSET Tables]
    /\ s.at = "ObservingWalTail" =>
         s \in [at : {"ObservingWalTail"}, claim : Generations, seal : SealObjects,
                occupied : Cuts]
    /\ s.at = "ReadingWalTail" =>
         s \in [at : {"ReadingWalTail"}, claim : Generations, seal : SealObjects,
                fence : Batches, tail : Batches]
    /\ s.at = "EstablishingFence" =>
         s \in [at : {"EstablishingFence"}, claim : Generations, seal : SealObjects,
                fence : Batches]
    /\ s.at = "Replaying" =>
         s \in [at : {"Replaying"}, claim : Generations, seal : SealObjects, fence : Batches,
                next : Batches, owner : Owners \cup {0}, durable : SUBSET Runs]
    /\ s.at = "RefreshingAnomaly" => s \in [at : {"RefreshingAnomaly"}, claim : Generations]
    /\ s.at = "RefreshingFinal" =>
         s \in [at : {"RefreshingFinal"}, claim : Generations, seal : SealObjects,
                durable : SUBSET Runs, durable_batch : Batches]
    /\ s.at = "Ready" =>
         s \in [at : {"Ready"}, claim : Generations, generation : Generations,
                seal : SealObjects, durable : SUBSET Runs, durable_batch : Batches,
                flight : BOOLEAN, checkpoint : SealObjects \cup {None},
                collector : Collections \cup {None}]

Type ==
    /\ TypeOK
    /\ net \subseteq SealCreates \cup WalCreates
    /\ DOMAIN proc = Procs
    /\ \A p \in Procs : StateType(proc[p])

(* The store. *)

SealsInv ==
    /\ \A g, h \in Generations : g < h /\ seals[h] # None =>
         seals[g] # None /\ seals[g].cut <= seals[h].cut
    /\ \A g, h \in Generations : IsClaim(g) /\ g < h /\ seals[h] # None =>
         seals[h].cut = seals[g].cut \/ seals[h].owner >= g

\* What a Seal selects is what landed up to its cut.
SealContent(g) ==
    /\ Content(seals[g].tables) = LandedTo(seals[g].cut)
    /\ seals[g].owner # 0 => \E b \in Batches : IsFence(b, seals[g].owner)
    /\ \A t \in seals[g].tables :
         /\ t.birth <= g
         /\ \A h \in Generations : h < g => t \in seals[h].tables \/ t.birth > h

ContentInv == \A g \in Generations : seals[g] # None => SealContent(g)

HeadInv == Newest # 0 => seals[Newest].tables \subseteq tables

\* The suffix after the newest cut has no hole, and its owners rise at FENCEs.
SuffixInv ==
    /\ \A b \in Batches : wal[b] # None => ReachedTo(b)
    /\ \A b \in Batches : b > NewestCut /\ wal[b] # None =>
         IF wal[b].kind = "fence" THEN wal[b].owner > OwnerBefore(b)
         ELSE wal[b].owner = OwnerBefore(b)

OwnersInv ==
    \A b \in Batches : wal[b] # None =>
        /\ IsClaim(wal[b].owner) /\ b > seals[wal[b].owner].cut
        /\ wal[b].kind = "run" => \E f \in Batches : IsFence(f, wal[b].owner)

\* After the newest FENCE there are only RUNs of its owner.
TopInv ==
    \A f \in Batches, c \in Owners : Top(f, c) =>
        \A b \in Batches : b > f /\ wal[b] # None => IsRun(b, c)

LandedInv ==
    /\ \A run \in landed : run.batch <= NewestCut \/ IsRun(run.batch, run.owner)
    /\ \A r, s \in landed : r.batch = s.batch => r = s
    /\ \A b \in Batches : wal[b] # None /\ wal[b].kind = "run" =>
         [batch |-> b, owner |-> wal[b].owner] \in landed

StoreInv ==
    /\ SealsInv /\ ContentInv /\ HeadInv
    /\ SuffixInv /\ OwnersInv /\ TopInv /\ LandedInv

(* Creates on their way, or answered and not yet handled. *)

\* A Seal is created after its predecessor: as its copy, or as the checkpoint of
\* the author of every Seal since its claim.
SuccessorOk(key, object) ==
    \/ key = 1 /\ object = Genesis
    \/ key > 1 /\ seals[key - 1] # None /\ object = seals[key - 1]
    \/ /\ key > 1 /\ seals[key - 1] # None
       /\ IsClaim(object.owner) /\ object.owner < key /\ Authors(object.owner, key - 1)
       /\ object.cut > seals[key - 1].cut
       /\ \E b \in Batches : IsFence(b, object.owner)
       /\ \A t \in object.tables : t \in seals[key - 1].tables \/ t.birth = key
       /\ object.cut > NewestCut => wal[object.cut] # None /\ wal[object.cut].owner = object.owner

SealCreateOk(c) ==
    /\ SuccessorOk(c.key, c.object)
    /\ ReachedTo(c.object.cut)
    /\ Content(c.object.tables) = LandedTo(c.object.cut)
    /\ seals[c.key] = None => c.status = "sent" /\ c.object.tables \subseteq tables
    /\ c.status = "won" => seals[c.key] = c.object

WalCreateOk(c) ==
    /\ IsClaim(c.object.owner) /\ c.key > seals[c.object.owner].cut
    /\ c.key < CoordinateMax
    /\ ReachedTo(c.key - 1)
    /\ c.object.kind = "fence" /\ c.status = "sent" =>
         \A f \in Batches, d \in Owners : Top(f, d) /\ d >= c.object.owner => c.key <= f
    /\ c.object.kind = "fence" /\ c.status = "won" =>
         wal[c.key] = c.object /\ (Superseded(c.object.owner) \/ Top(c.key, c.object.owner))
    /\ c.object.kind = "run" =>
         /\ \E f \in Batches : IsFence(f, c.object.owner)
         /\ c.status # "won" => Slot(c.key, c.object.owner)
         /\ c.status = "won" =>
              /\ [batch |-> c.key, owner |-> c.object.owner] \in landed
              /\ ReachedTo(c.key)
              /\ c.key > NewestCut => wal[c.key] = c.object
              /\ Slot(c.key + 1, c.object.owner)

\* A create that is listened to is the one its process waits for.
Awaited(c) ==
    LET s == proc[c.by]
    IN  IF c.kind = "seal"
        THEN \/ s.at = "EstablishingGenesis" /\ c.key = 1
             \/ s.at = "PublishingClaim" /\ c.key = s.claim /\ c.object = s.seal
             \/ /\ s.at = "Ready" /\ s.checkpoint # None
                /\ c.key = s.generation + 1 /\ c.object = s.checkpoint
        ELSE \/ /\ s.at = "EstablishingFence"
                /\ c.key = s.fence /\ c.object = Wal("fence", s.claim)
             \/ /\ s.at = "Ready" /\ s.flight
                /\ c.key = s.durable_batch + 1 /\ c.object = Wal("run", s.claim)

NetInv ==
    /\ \A c \in net : c.by = None => c.status = "sent"
    /\ \A c \in net : c.by # None => Awaited(c)
    /\ \A c, d \in net : c.by # None /\ c.by = d.by /\ c.kind = d.kind => c = d
    /\ \A c \in net : c.kind = "seal" => SealCreateOk(c)
    /\ \A c \in net : c.kind = "wal" => WalCreateOk(c)

(* One author per claim. *)

\* No object in the store or on its way names the owner.
NoObjectOf(c) ==
    /\ \A b \in Batches : wal[b] # None => wal[b].owner # c
    /\ \A d \in net : d.kind = "wal" => d.object.owner # c

SendsRun(c) == c.kind = "wal" /\ c.object.kind = "run"

UniqueInv ==
    /\ ClaimsAreUnique
    /\ \A c \in net : c.kind = "seal" /\ c.status = "won" =>
         /\ \A d \in net : d.kind = "seal" /\ d.status = "won" /\ d.key = c.key => d = c
         /\ \A q \in Procs : HoldsClaim(q) => proc[q].claim # c.key
         /\ NoObjectOf(c.key)
    /\ \A c, d \in net :
         SendsRun(c) /\ SendsRun(d) /\ c.object.owner = d.object.owner => c = d

(* What a process knows at each of its states. *)

PreFence(p) ==
    proc[p].at \in {"ReadingTable", "ObservingWalTail", "ReadingWalTail", "EstablishingFence"}
PreReady(p) == PreFence(p) \/ proc[p].at \in {"Replaying", "RefreshingFinal"}

LocalBoot(p) ==
    LET s == proc[p]
    IN  /\ s.at = "ReadingSeal" => seals[s.generation] # None
        /\ s.at = "PublishingClaim" =>
             s.claim > 1 /\ seals[s.claim - 1] # None /\ s.seal = seals[s.claim - 1]
        /\ HoldsClaim(p) => IsClaim(s.claim)
        /\ PreReady(p) => s.seal = seals[s.claim]
        /\ s.at = "ReadingTable" => s.remaining # {} /\ s.remaining \subseteq s.seal.tables
        /\ s.at = "ObservingWalTail" =>
             s.occupied = 0 \/ (s.occupied > s.seal.cut /\ Reached(s.occupied))
        /\ s.at = "ReadingWalTail" =>
             /\ s.tail > s.seal.cut /\ s.fence = s.tail + 1 /\ s.fence < CoordinateMax
             /\ ReachedTo(s.tail)
        /\ s.at = "EstablishingFence" => s.fence > s.seal.cut /\ s.fence < CoordinateMax
        /\ s.at = "Replaying" =>
             /\ IsFence(s.fence, s.claim) /\ s.fence < CoordinateMax
             /\ Superseded(s.claim) \/ Top(s.fence, s.claim)
             /\ s.seal.cut < s.next /\ s.next <= s.fence
             /\ Newest = s.claim =>
                  s.durable = LandedTo(s.next - 1) /\ s.owner = OwnerBefore(s.next)
        /\ s.at = "RefreshingAnomaly" => Newest > s.claim
        /\ s.at = "RefreshingFinal" =>
             /\ IsFence(s.durable_batch, s.claim) /\ s.durable_batch < CoordinateMax
             /\ Superseded(s.claim) \/ Top(s.durable_batch, s.claim)
             /\ s.seal.cut < s.durable_batch
             /\ Newest = s.claim => s.durable = LandedTo(s.durable_batch)

LocalReady(p) ==
    LET s == proc[p]
    IN  s.at = "Ready" =>
        /\ s.claim <= s.generation /\ seals[s.generation] # None
        /\ s.seal = seals[s.generation] /\ Authors(s.claim, s.generation)
        /\ s.durable_batch < CoordinateMax /\ s.seal.cut <= s.durable_batch
        /\ \E b \in Batches : b <= s.durable_batch /\ IsFence(b, s.claim)
        /\ ReachedTo(s.durable_batch)
        /\ s.durable_batch > NewestCut =>
             wal[s.durable_batch] # None /\ wal[s.durable_batch].owner = s.claim
        /\ s.durable = LandedTo(s.durable_batch)
        /\ \A run \in landed : run.owner < s.claim => run.batch <= s.durable_batch
        /\ s.checkpoint # None =>
             s.seal.cut < s.checkpoint.cut /\ s.checkpoint.cut <= s.durable_batch
        /\ ~s.flight => Slot(s.durable_batch + 1, s.claim)

\* What of the process is on its way: no RUN before it is Ready or between two
\* flights, and before its FENCE has won only creates that come too late.
LocalNet(p) ==
    LET claim == proc[p].claim
    IN  /\ PreReady(p) => \A b \in Batches : ~IsRun(b, claim)
        /\ PreReady(p) \/ (proc[p].at = "Ready" /\ ~proc[p].flight) =>
             \A d \in net : SendsRun(d) => d.object.owner # claim
        /\ PreFence(p) =>
             /\ \A d \in net : d.kind = "wal" /\ d.object.owner = claim /\ d.by # p =>
                  Reached(d.key)
             /\ \A b \in Batches : IsFence(b, claim) =>
                  Superseded(claim) \/ \E c \in net : c.by = p /\ c.kind = "wal" /\ c.status = "won"

LocalCollector(p) ==
    LET s == proc[p]
        c == proc[p].collector
    IN  s.at = "Ready" /\ c # None =>
        /\ seals[s.claim].cut < c.next /\ c.cut <= s.seal.cut /\ c.cut < CoordinateMax
        /\ c.proof => c.next <= c.cut /\ wal[c.next] # None /\ wal[c.next].kind = "run"
        /\ \A t \in c.tables :
             /\ t.birth <= s.generation
             /\ \A g \in Generations : g >= s.generation /\ seals[g] # None => t \notin seals[g].tables

Local(p) == LocalBoot(p) /\ LocalReady(p) /\ LocalCollector(p) /\ LocalNet(p)

PartitionInv ==
    /\ Type
    /\ StoreInv
    /\ NetInv
    /\ UniqueInv
    /\ \A p \in Procs : Local(p)
    /\ acked \subseteq landed

-----------------------------------------------------------------------------
(* Largest elements of bounded sets of numbers. *)

Less == {pair \in Nat \X Nat : pair[1] < pair[2]}

\* The order of the naturals, as a relation, is well-founded.
LEMMA LessIsWellFounded == IsWellFoundedOn(Less, Nat)
<1>1. OpToRel(<, Nat) = Less
  BY DEF OpToRel, Less
<1> QED BY <1>1, NatLessThanWellFounded

\* A set of naturals has a least element: the oldest table is one.
LEMMA Least ==
  ASSUME NEW S, S \subseteq Nat, S # {}
  PROVE  \E x \in S : \A y \in S : x <= y
<1>1. \E x \in S : \A y \in S : ~(<<y, x>> \in Less)
  BY WFMin, LessIsWellFounded
<1>2. PICK x \in S : \A y \in S : ~(<<y, x>> \in Less)
  BY <1>1
<1>3. ASSUME NEW y \in S PROVE x <= y
  <2>1. x \in Nat /\ y \in Nat
    OBVIOUS
  <2>2. ~(<<y, x>> \in Less)
    BY <1>2
  <2> QED BY <2>1, <2>2 DEF Less
<1> QED BY <1>3

\* A bounded set of naturals has a greatest element, which Max chooses.
LEMMA Greatest ==
  ASSUME NEW n \in Nat, NEW S, S \subseteq 0 .. n, S # {}
  PROVE  /\ Max(S) \in S
         /\ \A y \in S : y <= Max(S)
<1> DEFINE T == {k \in 0 .. n : n - k \in S}
<1>0. T \subseteq Nat /\ T \subseteq 0 .. n
  OBVIOUS
<1>1. T # {}
  <2>1. PICK s \in S : TRUE
    OBVIOUS
  <2>2. n - s \in 0 .. n /\ n - (n - s) = s
    OBVIOUS
  <2> QED BY <2>2
<1>2. \A k : k \in T <=> k \in 0 .. n /\ n - k \in S
  OBVIOUS
<1> HIDE DEF T
<1>3. PICK m \in T : \A y \in T : m <= y
  BY <1>0, <1>1, Least
<1>4. m \in 0 .. n /\ n - m \in S
  BY <1>0, <1>2
<1>5. ASSUME NEW y \in S PROVE y <= n - m
  <2>1. y \in 0 .. n /\ n - y \in 0 .. n /\ n - (n - y) = y
    OBVIOUS
  <2>2. n - y \in T
    BY <1>2, <2>1
  <2>3. m <= n - y
    BY <1>3, <2>2
  <2> QED BY <2>1, <2>3, <1>4
<1>6. \A y \in S : n - m >= y
  BY <1>5, <1>4
<1>7. \E x \in S : \A y \in S : x >= y
  BY <1>4, <1>6
<1>8. Max(S) \in S /\ \A y \in S : Max(S) >= y
  BY <1>7 DEF Max
<1> QED BY <1>8

\* The last index at which an array holds something, 0 when it is empty: how
\* Newest and Tail read a listing.
LEMMA LastIndex ==
  ASSUME NEW n \in Nat, NEW a
  PROVE  LET m == Max({0} \cup {i \in 1 .. n : a[i] # None})
         IN  /\ m \in 0 .. n
             /\ m # 0 => m \in 1 .. n /\ a[m] # None
             /\ \A i \in 1 .. n : a[i] # None => i <= m
<1> DEFINE S == {0} \cup {i \in 1 .. n : a[i] # None}
<1>1. S \subseteq 0 .. n /\ S # {}
  OBVIOUS
<1>2. Max(S) \in S /\ \A y \in S : y <= Max(S)
  <2> HIDE DEF S
  <2> QED BY <1>1, Greatest
<1>3. \A i \in 1 .. n : a[i] # None => i \in S
  OBVIOUS
<1>4. \A x \in S : x # 0 => x \in 1 .. n /\ a[x] # None
  OBVIOUS
<1> HIDE DEF S
<1>5. Max(S) \in 0 .. n /\ (Max(S) # 0 => Max(S) \in 1 .. n /\ a[Max(S)] # None)
  BY <1>1, <1>2, <1>4
<1>6. \A i \in 1 .. n : a[i] # None => i <= Max(S)
  BY <1>2, <1>3
<1> QED BY <1>5, <1>6 DEF S

\* The bounds are natural numbers.
LEMMA Bounds == GenerationMax \in Nat /\ CoordinateMax \in Nat
BY PartitionAssumption, SuffixAssumption

USE Bounds DEF Generations, Owners, Batches, Cuts

\* Newest is the newest generation that holds a Seal.
LEMMA NewestFacts ==
  /\ Newest \in 0 .. GenerationMax
  /\ Newest # 0 => Newest \in Generations /\ seals[Newest] # None
  /\ \A g \in Generations : seals[g] # None => g <= Newest
BY LastIndex, PartitionAssumption DEF Newest

\* The same after a step.
LEMMA NewestFactsNext ==
  /\ Newest' \in 0 .. GenerationMax
  /\ Newest' # 0 => Newest' \in Generations /\ seals'[Newest'] # None
  /\ \A g \in Generations : seals'[g] # None => g <= Newest'
BY LastIndex, PartitionAssumption DEF Newest

\* Tail is the last coordinate that holds a WAL object.
LEMMA TailFacts ==
  /\ Tail \in 0 .. CoordinateMax
  /\ Tail # 0 => Tail \in Batches /\ wal[Tail] # None
  /\ \A b \in Batches : wal[b] # None => b <= Tail
BY LastIndex, SuffixAssumption DEF Tail

\* Where there is a FENCE there is a newest one.
LEMMA TopExists ==
  ASSUME NEW b \in Batches, NEW c \in Owners, IsFence(b, c)
  PROVE  \E f \in Batches, d \in Owners : Top(f, d) /\ d >= c
<1> DEFINE D == {d \in Owners : \E f \in Batches : IsFence(f, d)}
           e == Max(D)
           F == {f \in Batches : IsFence(f, e)}
<1>1. D \subseteq 0 .. GenerationMax /\ c \in D
  BY PartitionAssumption
<1>2. e \in D /\ \A d \in D : d <= e
  <2> HIDE DEF D
  <2> QED BY <1>1, Greatest, PartitionAssumption
<1>3. e \in Owners /\ e >= c /\ ~Superseded(e)
  <2>1. \A d \in Owners, f \in Batches : IsFence(f, d) => d \in D
    OBVIOUS
  <2> HIDE DEF D, e
  <2>2. e \in Owners /\ e >= c
    <3>1. D \subseteq Owners
      BY DEF D
    <3> QED BY <1>1, <1>2, <3>1
  <2> QED BY <1>2, <2>1, <2>2 DEF Superseded
<1> HIDE DEF e
<1>4. F \subseteq 0 .. CoordinateMax /\ F # {}
  BY <1>2, SuffixAssumption
<1>5. Max(F) \in F /\ \A f \in F : f <= Max(F)
  <2> HIDE DEF F
  <2> QED BY <1>4, Greatest, SuffixAssumption
<1>6. Max(F) \in Batches /\ Top(Max(F), e)
  BY <1>3, <1>5 DEF Top
<1> QED BY <1>3, <1>6

-----------------------------------------------------------------------------
(* Consequences of the invariant in one state. *)

\* The Seals are those of the generations up to the newest, and none has a
\* larger cut than the newest.
LEMMA HeadFacts ==
  ASSUME TypeOK, SealsInv
  PROVE  /\ NewestCut \in Cuts
         /\ \A g \in Generations : seals[g] # None => g <= Newest /\ seals[g].cut <= NewestCut
         /\ \A g \in Generations : g <= Newest => seals[g] # None
         /\ \A g \in Generations : seals[g] # None => seals[g] \in SealObjects
<1>1. \A g \in Generations : seals[g] # None => seals[g] \in SealObjects
  BY DEF TypeOK
<1>2. \A g \in Generations : seals[g] # None => seals[g].cut \in Cuts
  BY <1>1 DEF SealObjects
<1>3. ASSUME NEW g \in Generations, seals[g] # None
      PROVE  g <= Newest /\ seals[g].cut <= NewestCut
  <2>1. g <= Newest /\ Newest \in Generations /\ seals[Newest] # None
    BY <1>3, NewestFacts
  <2>2. CASE g = Newest
    BY <2>1, <2>2, <1>2 DEF NewestCut
  <2>3. CASE g < Newest
    BY <2>1, <2>3 DEF SealsInv, NewestCut
  <2> QED BY <2>1, <2>2, <2>3, NewestFacts
<1>4. ASSUME NEW g \in Generations, g <= Newest PROVE seals[g] # None
  <2>1. Newest \in Generations /\ seals[Newest] # None
    BY <1>4, NewestFacts
  <2> QED BY <1>4, <2>1 DEF SealsInv
<1>5. NewestCut \in Cuts
  BY <1>2, NewestFacts, SuffixAssumption DEF NewestCut
<1> QED BY <1>1, <1>3, <1>4, <1>5

\* Above a coordinate that was never reached there is nothing.
LEMMA NothingAbove ==
  ASSUME SuffixInv, NEW k \in Batches, ~Reached(k), NEW b \in Batches, b > k
  PROVE  wal[b] = None
BY DEF SuffixInv, ReachedTo

\* A claim whose cut the newest Seal has passed is followed by the FENCE of its
\* owner or of a newer one.
LEMMA BehindCut ==
  ASSUME TypeOK, SealsInv, ContentInv, NEW c, IsClaim(c), NewestCut > seals[c].cut
  PROVE  /\ seals[Newest].owner >= c /\ Newest \in Generations
         /\ \E f \in Batches : IsFence(f, seals[Newest].owner)
<1>1. c \in Generations /\ seals[c] # None
  BY DEF IsClaim
<1>2. c <= Newest /\ Newest \in Generations /\ seals[Newest] # None /\ seals[c] \in SealObjects
  BY <1>1, HeadFacts, NewestFacts
<1>3. NewestCut = seals[Newest].cut
  BY <1>2 DEF NewestCut
<1>4. c < Newest
  BY <1>1, <1>2, <1>3 DEF SealObjects
<1>5. seals[Newest].owner >= c
  BY <1>1, <1>2, <1>3, <1>4, HeadFacts DEF SealsInv, SealObjects
<1>6. seals[Newest].owner # 0
  BY <1>1, <1>5
<1>7. \E f \in Batches : IsFence(f, seals[Newest].owner)
  BY <1>2, <1>6 DEF ContentInv, SealContent
<1> QED BY <1>2, <1>5, <1>7

\* There is one newest FENCE.
LEMMA TopUnique ==
  ASSUME NEW f \in Batches, NEW c \in Owners, Top(f, c),
         NEW g \in Batches, NEW d \in Owners, Top(g, d)
  PROVE  c = d /\ f = g
<1>1. c = d
  BY DEF Top, Superseded
<1> QED BY <1>1 DEF Top

\* A FENCE of an owner that is not superseded: the newest FENCE is that owner's.
LEMMA TopOf ==
  ASSUME NEW b \in Batches, NEW c \in Owners, IsFence(b, c), ~Superseded(c)
  PROVE  \E f \in Batches : Top(f, c) /\ b <= f
<1>1. PICK f \in Batches, d \in Owners : Top(f, d) /\ d >= c
  BY TopExists
<1>2. d = c
  BY <1>1 DEF Top, Superseded
<1> QED BY <1>1, <1>2 DEF Top

-----------------------------------------------------------------------------
(* Stability: what no step undoes, and what may land. *)

Stable ==
    /\ \A g \in Generations : seals[g] # None => seals'[g] = seals[g]
    /\ Newest \in Nat /\ Newest' \in Nat /\ Newest <= Newest'
    /\ NewestCut \in Cuts /\ NewestCut' \in Cuts /\ NewestCut <= NewestCut'
    /\ \A b \in Batches : Reached(b) => Reached(b)'
    /\ \A b \in Batches, c \in Owners : IsFence(b, c) => IsFence(b, c)'
    /\ \A b \in Batches : b > NewestCut' /\ wal[b] # None => wal'[b] = wal[b]
    /\ \A b \in Batches : wal[b] # None /\ wal[b].kind = "fence" => wal'[b] = wal[b]
    /\ landed \subseteq landed'
    /\ \A run \in landed' :
         run \in landed \/ (run \in Runs /\ ~Reached(run.batch) /\ ~Superseded(run.owner))
    /\ \A f \in Batches, c \in Owners : Top(f, c) => Superseded(c)' \/ Top(f, c)'
    /\ \A f \in Batches, c \in Owners : Top(f, c)' => Top(f, c) \/ ~Reached(f)
    /\ \A k \in Batches, c \in Owners :
         /\ Slot(k, c) /\ ReachedTo(k - 1)
         /\ \E f \in Batches : IsFence(f, c)
         /\ [batch |-> k, owner |-> c] \in landed' => [batch |-> k, owner |-> c] \in landed
         => Slot(k, c)'

\* A step that leaves Seals, WAL and history alone.
LEMMA StoreUnchanged ==
  ASSUME TypeOK, SealsInv, seals' = seals, wal' = wal, landed' = landed
  PROVE  Stable /\ Newest' = Newest /\ NewestCut' = NewestCut
<1>1. Newest' = Newest
  BY DEF Newest
<1>2. NewestCut' = NewestCut
  BY <1>1 DEF NewestCut
<1>3. \A b \in Batches : Reached(b)' <=> Reached(b)
  BY <1>2 DEF Reached
<1>4. \A b, c : IsFence(b, c)' <=> IsFence(b, c)
  BY DEF IsFence, Holds
<1>5. \A c : Superseded(c)' <=> Superseded(c)
  BY <1>4 DEF Superseded
<1>6. \A f, c : Top(f, c)' <=> Top(f, c)
  BY <1>4, <1>5 DEF Top
<1>7. \A k, c : Slot(k, c)' <=> Slot(k, c)
  BY <1>2, <1>4, <1>5 DEF Slot
<1>8. Newest \in Nat /\ NewestCut \in Cuts /\ Newest <= Newest /\ NewestCut <= NewestCut
  BY NewestFacts, HeadFacts
<1> QED
  BY <1>1, <1>2, <1>3, <1>4, <1>5, <1>6, <1>7, <1>8 DEF Stable

\* A Seal lands after the newest one.
LEMMA LandSealNewest ==
  ASSUME Type, StoreInv, NEW c \in SealCreates, SealCreateOk(c), seals[c.key] = None,
         seals' = [seals EXCEPT ![c.key] = c.object]
  PROVE  /\ c.key = Newest + 1 /\ Newest' = c.key /\ NewestCut' = c.object.cut
         /\ NewestCut <= NewestCut' /\ c.object.cut \in Cuts
         /\ TypeOK' => \A g \in Generations : seals'[g] = IF g = c.key THEN c.object ELSE seals[g]
<1>1. c.key \in Generations /\ c.object \in SealObjects /\ c.object # None /\ c.object.cut \in Cuts
  BY PartitionAssumption DEF SealCreates, SealObjects
<1>2. \A g \in Generations : seals'[g] = IF g = c.key THEN c.object ELSE seals[g]
  BY <1>1 DEF Type, TypeOK
<1>3. SuccessorOk(c.key, c.object)
  BY DEF SealCreateOk
<1>4. \A g \in Generations : seals[g] # None => g < c.key
  BY <1>1 DEF StoreInv, SealsInv
<1>5. \/ c.key = 1 /\ Newest = 0 /\ c.object = Genesis
      \/ c.key > 1 /\ Newest = c.key - 1
  <2>1. CASE c.key = 1 /\ c.object = Genesis
    BY <2>1, <1>4, NewestFacts
  <2>2. CASE c.key > 1 /\ seals[c.key - 1] # None
    BY <2>2, <1>1, <1>4, NewestFacts
  <2> QED BY <1>3, <2>1, <2>2 DEF SuccessorOk
<1>6. Newest' = c.key
  BY <1>1, <1>2, <1>4, NewestFactsNext
<1>7. NewestCut' = c.object.cut
  BY <1>1, <1>2, <1>6 DEF NewestCut
<1>8. NewestCut <= c.object.cut
  <2>1. CASE Newest = 0
    BY <2>1, <1>1, SuffixAssumption DEF NewestCut
  <2>2. CASE c.key > 1 /\ Newest = c.key - 1 /\ Newest # 0
    BY <2>2, <1>1, <1>3, HeadFacts
       DEF SuccessorOk, NewestCut, StoreInv, Type
  <2> QED BY <1>1, <1>5, <2>1, <2>2
<1> QED BY <1>1, <1>2, <1>5, <1>6, <1>7, <1>8

\* A Seal that lands undoes nothing.
LEMMA LandSealStable ==
  ASSUME Type, StoreInv, NEW c \in SealCreates, SealCreateOk(c), seals[c.key] = None,
         seals' = [seals EXCEPT ![c.key] = c.object], wal' = wal, landed' = landed
  PROVE  Stable
<1>1. /\ c.key = Newest + 1 /\ Newest' = c.key /\ NewestCut' = c.object.cut
      /\ NewestCut <= NewestCut' /\ c.object.cut \in Cuts
  BY LandSealNewest
<1>2. \A g \in Generations : seals[g] # None => seals'[g] = seals[g]
  BY DEF Type, TypeOK
<1>3. NewestCut \in Cuts /\ Newest \in 0 .. GenerationMax
  BY HeadFacts, NewestFacts DEF StoreInv, Type
<1>4. \A b \in Batches : Reached(b) => Reached(b)'
  BY <1>1, <1>3 DEF Reached
<1>5. \A b, d : IsFence(b, d)' <=> IsFence(b, d)
  BY DEF IsFence, Holds
<1>6. \A d : Superseded(d)' <=> Superseded(d)
  BY <1>5 DEF Superseded
<1>7. \A f, d : Top(f, d)' <=> Top(f, d)
  BY <1>5, <1>6 DEF Top
<1>8. \A k \in Batches, d \in Owners : Slot(k, d) => Slot(k, d)'
  <2> SUFFICES ASSUME NEW k \in Batches, NEW d \in Owners, Slot(k, d) PROVE Slot(k, d)'
    OBVIOUS
  <2>1. CASE wal[k] # None
    BY <2>1, <1>5 DEF Slot
  <2>2. CASE wal[k] = None
    <3>1. k > NewestCut /\ ~Superseded(d)
      BY <2>2 DEF Slot
    <3>2. ~Reached(k)
      BY <2>2, <3>1, <1>3 DEF Reached
    <3>3. ~(k <= c.object.cut)
      BY <3>2 DEF SealCreateOk, ReachedTo
    <3> QED BY <2>2, <3>1, <3>3, <1>1, <1>6 DEF Slot
  <2> QED BY <2>1, <2>2
<1>9. Newest \in Nat /\ Newest' \in Nat /\ Newest <= Newest'
  BY <1>1, <1>3
<1> QED BY <1>1, <1>2, <1>3, <1>4, <1>5, <1>6, <1>7, <1>8, <1>9 DEF Stable

\* The Seals after one has landed: dense, with rising cuts, and after a claim
\* only its owner or a newer one moves the cut.
LEMMA LandSealSeals ==
  ASSUME Type, StoreInv, NEW c \in SealCreates, SealCreateOk(c), seals[c.key] = None,
         seals' = [seals EXCEPT ![c.key] = c.object], wal' = wal, landed' = landed
  PROVE  SealsInv'
<1>1. /\ c.key = Newest + 1 /\ Newest' = c.key /\ NewestCut' = c.object.cut
      /\ NewestCut <= NewestCut' /\ c.object.cut \in Cuts
  BY LandSealNewest
<1>2. c.key \in Generations /\ c.object \in SealObjects
  BY DEF SealCreates
<1>3. \A g \in Generations : seals'[g] = IF g = c.key THEN c.object ELSE seals[g]
  BY <1>2 DEF Type, TypeOK
<1>4. /\ \A g \in Generations : seals[g] # None => g <= Newest /\ seals[g].cut <= NewestCut
      /\ \A g \in Generations : g <= Newest => seals[g] # None
      /\ \A g \in Generations : seals[g] # None => seals[g] \in SealObjects
      /\ NewestCut \in Cuts
  BY HeadFacts DEF StoreInv, Type
<1>5. ASSUME NEW g \in Generations, NEW h \in Generations, g < h, seals'[h] # None
      PROVE  seals'[g] # None /\ seals'[g].cut <= seals'[h].cut
  <2>1. CASE h = c.key
    <3>1. g <= Newest /\ seals'[g] = seals[g] /\ seals'[h] = c.object
      BY <1>1, <1>3, <1>5, <2>1, NewestFacts
    <3>2. seals[g] # None /\ seals[g].cut <= NewestCut /\ seals[g].cut \in Cuts
      BY <3>1, <1>4 DEF SealObjects
    <3> QED BY <3>1, <3>2, <1>1, <1>4
  <2>2. CASE h # c.key
    BY <2>2, <1>1, <1>3, <1>4, <1>5 DEF StoreInv, SealsInv
  <2> QED BY <2>1, <2>2
<1>6. ASSUME NEW g \in Generations, NEW h \in Generations, IsClaim(g)', g < h, seals'[h] # None
      PROVE  seals'[h].cut = seals'[g].cut \/ seals'[h].owner >= g
  <2>1. h <= Newest + 1
    BY <1>1, <1>3, <1>4, <1>6, NewestFacts
  <2>2. g # c.key /\ g - 1 \in Generations /\ g - 1 # c.key
    BY <1>1, <1>6, <2>1, NewestFacts DEF IsClaim
  <2>3. seals'[g] = seals[g] /\ seals'[g - 1] = seals[g - 1] /\ IsClaim(g)
    BY <2>2, <1>3, <1>6 DEF IsClaim
  <2>4. CASE h # c.key
    BY <2>4, <1>3, <1>6, <2>3 DEF StoreInv, SealsInv
  <2>5. CASE h = c.key
    <3>1. seals'[h] = c.object /\ c.key > 1 /\ g <= c.key - 1 /\ c.key - 1 \in Generations
      BY <2>5, <1>2, <1>3, <1>6
    <3>2. CASE seals[c.key - 1] # None /\ c.object = seals[c.key - 1]
      <4>1. CASE g = c.key - 1
        BY <4>1, <3>1, <3>2, <2>3
      <4>2. CASE g < c.key - 1
        BY <4>2, <3>1, <3>2, <2>3 DEF StoreInv, SealsInv
      <4> QED BY <3>1, <4>1, <4>2
    <3>3. CASE c.object.owner < c.key /\ Authors(c.object.owner, c.key - 1)
      <4>1. c.object.owner \in 0 .. GenerationMax
        BY <1>2, PartitionAssumption DEF SealObjects
      <4>2. ~(c.object.owner < g)
        <5>1. ASSUME c.object.owner < g PROVE FALSE
          <6>1. seals[g].cut > seals[g - 1].cut
            BY <5>1, <3>1, <3>3 DEF Authors
          <6>2. seals[g] = seals[g - 1] /\ seals[g].cut \in Cuts
            BY <2>3, <1>4 DEF IsClaim, SealObjects
          <6> QED BY <6>1, <6>2
        <5> QED BY <5>1
      <4> QED BY <4>1, <4>2, <3>1
    <3> QED BY <3>1, <3>2, <3>3 DEF SealCreateOk, SuccessorOk
  <2> QED BY <2>4, <2>5
<1> QED BY <1>5, <1>6 DEF SealsInv

\* What the Seals select, after one has landed.
LEMMA LandSealContent ==
  ASSUME Type, StoreInv, NEW c \in SealCreates, SealCreateOk(c), seals[c.key] = None,
         c.status = "sent",
         seals' = [seals EXCEPT ![c.key] = c.object], wal' = wal, landed' = landed,
         tables' = tables
  PROVE  ContentInv' /\ HeadInv'
<1>1. c.key = Newest + 1 /\ Newest' = c.key
  BY LandSealNewest
<1>2. c.key \in Generations /\ c.object \in SealObjects /\ c.object.tables \subseteq Tables
  BY DEF SealCreates, SealObjects
<1>3. \A g \in Generations : seals'[g] = IF g = c.key THEN c.object ELSE seals[g]
  BY <1>2 DEF Type, TypeOK
<1>6. ASSUME NEW g \in Generations, seals'[g] # None, g # c.key PROVE SealContent(g)'
  <2>1. seals'[g] = seals[g] /\ SealContent(g)
    BY <1>3, <1>6 DEF StoreInv, ContentInv
  <2>2. \A h \in Generations : h < g => seals'[h] = seals[h]
    <3>1. g <= Newest
      BY <2>1, <1>6, NewestFacts
    <3>2. \A h \in Generations : h < g => h # c.key
      BY <3>1, <1>1, NewestFacts
    <3> QED BY <3>2, <1>3
  <2> QED BY <2>1, <2>2 DEF SealContent, LandedTo, Content, IsFence, Holds
<1>7. Content(c.object.tables) = LandedTo(c.object.cut)
  BY DEF SealCreateOk
<1>8. /\ c.object.owner # 0 => \E b \in Batches : IsFence(b, c.object.owner)
      /\ \A t \in c.object.tables :
           /\ t.birth <= c.key
           /\ \A h \in Generations : h < c.key => t \in seals[h].tables \/ t.birth > h
  <2>0. SuccessorOk(c.key, c.object)
    BY DEF SealCreateOk
  <2>1. CASE c.object = Genesis
    BY <2>1 DEF Genesis, Seal
  <2>2. ASSUME c.key > 1, seals[c.key - 1] # None
        PROVE  /\ seals[c.key - 1].owner # 0 =>
                    \E b \in Batches : IsFence(b, seals[c.key - 1].owner)
               /\ \A t \in seals[c.key - 1].tables :
                    /\ t.birth <= c.key - 1 /\ t.birth \in Generations
                    /\ \A h \in Generations : h < c.key => t \in seals[h].tables \/ t.birth > h
    <3>1. c.key - 1 \in Generations /\ seals[c.key - 1] \in SealObjects
      BY <1>2, <2>2 DEF Type, TypeOK
    <3>2. SealContent(c.key - 1)
      BY <3>1, <2>2 DEF StoreInv, ContentInv
    <3>3. ASSUME NEW t \in seals[c.key - 1].tables, NEW h \in Generations, h < c.key
          PROVE  t \in seals[h].tables \/ t.birth > h
      <4>1. h = c.key - 1 \/ h < c.key - 1
        BY <1>2, <3>3
      <4> QED BY <4>1, <3>2, <3>3 DEF SealContent
    <3> QED BY <3>1, <3>2, <3>3 DEF SealContent, SealObjects, Tables
  <2>3. CASE c.key > 1 /\ seals[c.key - 1] # None /\ c.object = seals[c.key - 1]
    BY <1>2, <2>2, <2>3
  <2>4. CASE /\ c.key > 1 /\ seals[c.key - 1] # None
             /\ \E b \in Batches : IsFence(b, c.object.owner)
             /\ \A t \in c.object.tables : t \in seals[c.key - 1].tables \/ t.birth = c.key
    BY <1>2, <2>2, <2>4
  <2> QED BY <2>0, <2>1, <2>3, <2>4 DEF SuccessorOk
<1>9. ContentInv'
  <2>1. SealContent(c.key)'
    <3>1. seals'[c.key] = c.object
      BY <1>2, <1>3
    <3>2. \A h \in Generations : h < c.key => seals'[h] = seals[h]
      BY <1>2, <1>3
    <3> QED BY <3>1, <3>2, <1>7, <1>8 DEF SealContent, LandedTo, Content, IsFence, Holds
  <2> QED BY <2>1, <1>6 DEF ContentInv
<1>10. HeadInv'
  <2>1. seals'[Newest'] = c.object
    BY <1>1, <1>2, <1>3
  <2> QED BY <2>1 DEF HeadInv, SealCreateOk
<1> QED BY <1>9, <1>10

\* The WAL has not moved: what is said of it stays so.
LEMMA WalFrame ==
  ASSUME TypeOK, OwnersInv, TopInv, LandedInv, Stable, wal' = wal, landed' = landed
  PROVE  OwnersInv' /\ TopInv' /\ LandedInv'
<1>1. \A b, d : (IsFence(b, d)' <=> IsFence(b, d)) /\ (IsRun(b, d)' <=> IsRun(b, d))
  BY DEF IsFence, IsRun, Holds
<1>2. \A f, d : Top(f, d)' <=> Top(f, d)
  BY <1>1 DEF Top, Superseded
<1>3. \A g : IsClaim(g) => IsClaim(g)' /\ seals'[g] = seals[g]
  <2> SUFFICES ASSUME NEW g, IsClaim(g) PROVE IsClaim(g)' /\ seals'[g] = seals[g]
    OBVIOUS
  <2>1. g \in Generations /\ g - 1 \in Generations /\ seals[g] # None /\ seals[g - 1] # None
    BY DEF IsClaim
  <2> QED BY <2>1 DEF IsClaim, Stable
<1>4. OwnersInv'
  BY <1>1, <1>3 DEF OwnersInv
<1>5. TopInv'
  BY <1>1, <1>2 DEF TopInv
<1>6. LandedInv'
  <2>1. \A run \in landed : run.batch <= NewestCut => run.batch <= NewestCut'
    <3> SUFFICES ASSUME NEW run \in landed, run.batch <= NewestCut PROVE run.batch <= NewestCut'
      OBVIOUS
    <3>1. run.batch \in Batches
      BY DEF TypeOK, Runs
    <3>2. NewestCut \in Cuts /\ NewestCut' \in Cuts /\ NewestCut <= NewestCut'
      BY DEF Stable
    <3> QED BY <3>1, <3>2
  <2> QED BY <1>1, <2>1 DEF LandedInv
<1> QED BY <1>4, <1>5, <1>6

\* The suffix after a Seal has landed: a checkpoint hands on the owner in force
\* at its cut.
LEMMA LandSealSuffix ==
  ASSUME Type, StoreInv, NEW c \in SealCreates, SealCreateOk(c), seals[c.key] = None,
         seals' = [seals EXCEPT ![c.key] = c.object], wal' = wal, landed' = landed
  PROVE  SuffixInv'
<1>1. /\ c.key = Newest + 1 /\ Newest' = c.key /\ NewestCut' = c.object.cut
      /\ NewestCut <= NewestCut' /\ c.object.cut \in Cuts
  BY LandSealNewest
<1>2. c.key \in Generations /\ c.object \in SealObjects
  BY DEF SealCreates
<1>3. seals'[Newest'] = c.object
  BY <1>1, <1>2 DEF Type, TypeOK
<1>4. Stable
  BY LandSealStable
<1>5. NewestCut \in Cuts
  BY <1>4 DEF Stable
<1>6. \A b \in Batches : wal'[b] # None => ReachedTo(b)'
  BY <1>4 DEF StoreInv, SuffixInv, ReachedTo, Stable
<1>7. ASSUME NEW b \in Batches, b > NewestCut', wal[b] # None
      PROVE  OwnerBefore(b)' = OwnerBefore(b)
  <2>0. SuccessorOk(c.key, c.object)
    BY DEF SealCreateOk
  <2>1. IsClaim(wal[b].owner)
    BY <1>7 DEF StoreInv, OwnersInv
  <2>2. c.key # 1
    <3>1. wal[b].owner <= Newest /\ wal[b].owner > 1 /\ wal[b].owner \in Generations
      BY <2>1, NewestFacts DEF IsClaim
    <3> QED BY <3>1, <1>1, NewestFacts
  <2>3. NewestCut = seals[Newest].cut /\ c.key - 1 = Newest
    BY <2>2, <1>1, NewestFacts DEF NewestCut
  <2>4. CASE c.object = seals[c.key - 1]
    BY <2>3, <2>4, <1>1, <1>3 DEF OwnerBefore
  <2>5. CASE /\ c.object.cut > seals[c.key - 1].cut
             /\ c.object.cut > NewestCut =>
                  wal[c.object.cut] # None /\ wal[c.object.cut].owner = c.object.owner
    <3>1. c.object.cut > NewestCut /\ wal[c.object.cut].owner = c.object.owner
      BY <2>3, <2>5
    <3>2. CASE b - 1 > c.object.cut
      BY <3>1, <3>2, <1>1, <1>5 DEF OwnerBefore
    <3>3. CASE b - 1 = c.object.cut
      BY <3>1, <3>3, <1>1, <1>3, <1>5 DEF OwnerBefore
    <3> QED BY <3>2, <3>3, <1>1, <1>7
  <2> QED BY <2>0, <2>2, <2>4, <2>5 DEF SuccessorOk
<1>8. \A b \in Batches : b > NewestCut' => b > NewestCut
  BY <1>1, <1>5
<1> QED BY <1>6, <1>7, <1>8 DEF SuffixInv, StoreInv

\* A Seal that takes effect preserves the invariant of the store.
LEMMA LandSealStore ==
  ASSUME Type, StoreInv, NEW c \in SealCreates, SealCreateOk(c), seals[c.key] = None,
         c.status = "sent",
         seals' = [seals EXCEPT ![c.key] = c.object], wal' = wal, landed' = landed,
         tables' = tables
  PROVE  Stable /\ StoreInv'
<1>1. Stable /\ SealsInv' /\ ContentInv' /\ HeadInv' /\ SuffixInv'
  BY LandSealStable, LandSealSeals, LandSealContent, LandSealSuffix
<1>2. OwnersInv' /\ TopInv' /\ LandedInv'
  BY <1>1, WalFrame DEF StoreInv, Type
<1> QED BY <1>1, <1>2 DEF StoreInv

\* What is known when a WAL object lands: its coordinate was vacant, everything
\* before it was reached.
LEMMA LandWalFacts ==
  ASSUME Type, StoreInv, NEW c \in WalCreates, WalCreateOk(c), wal[c.key] = None,
         seals' = seals, wal' = [wal EXCEPT ![c.key] = c.object]
  PROVE  /\ c.key \in Batches /\ c.object.owner \in Owners /\ c.object # None
         /\ \A b \in Batches : wal'[b] = IF b = c.key THEN c.object ELSE wal[b]
         /\ Newest' = Newest /\ NewestCut' = NewestCut /\ NewestCut \in Cuts /\ Newest \in Nat
         /\ Reached(c.key) <=> c.key <= NewestCut
         /\ \A b \in Batches : Reached(b) => Reached(b)'
         /\ Reached(c.key)'
         /\ Newest \in Generations
<1>1. c.key \in Batches /\ c.object.owner \in Owners /\ c.object # None
  BY PartitionAssumption DEF WalCreates, WalObjects
<1>2. \A b \in Batches : wal'[b] = IF b = c.key THEN c.object ELSE wal[b]
  BY <1>1 DEF Type, TypeOK
<1>3. Newest' = Newest
  BY DEF Newest
<1>4. NewestCut' = NewestCut
  BY <1>3 DEF NewestCut
<1>5. NewestCut \in Cuts /\ Newest \in Nat
  BY HeadFacts, NewestFacts DEF Type, StoreInv
<1>6. Reached(c.key) <=> c.key <= NewestCut
  BY DEF Reached
<1>7. \A b \in Batches : Reached(b) => Reached(b)'
  BY <1>1, <1>2, <1>4 DEF Reached
<1>8. Reached(c.key)'
  BY <1>1, <1>2 DEF Reached
<1>9. Newest \in Generations
  BY NewestFacts DEF WalCreateOk, IsClaim
<1> QED BY <1>1, <1>2, <1>3, <1>4, <1>5, <1>6, <1>7, <1>8, <1>9

\* A RUN lands only on a coordinate that was never reached, while its owner is
\* the newest: the owner in force before it is its own.
LEMMA RunIsInForce ==
  ASSUME Type, StoreInv, NEW c \in WalCreates, WalCreateOk(c), c.object.kind = "run",
         c.status = "sent", wal[c.key] = None
  PROVE  /\ ~Reached(c.key) /\ ~Superseded(c.object.owner)
         /\ \A f \in Batches, d \in Owners : Top(f, d) => d = c.object.owner /\ f < c.key
         /\ \A d \in Owners : ~Superseded(d) /\ (\E f \in Batches : IsFence(f, d)) =>
              d = c.object.owner
         /\ c.object.owner = OwnerBefore(c.key)
<1> DEFINE k == c.key
           o == c.object.owner
<1>1. k \in Batches /\ o \in Owners
  BY DEF WalCreates, WalObjects
<1>2. NewestCut \in Cuts
  BY HeadFacts DEF Type, StoreInv
<1>3. Slot(k, o) /\ ReachedTo(k - 1) /\ IsClaim(o)
  BY DEF WalCreateOk
<1>4. k > NewestCut /\ ~Superseded(o) /\ ~Reached(k)
  BY <1>1, <1>2, <1>3 DEF Slot, Reached
<1>5. PICK b \in Batches : IsFence(b, o)
  BY DEF WalCreateOk
<1>6. \A d \in Owners : ~Superseded(d) /\ (\E f \in Batches : IsFence(f, d)) => d = o
  BY <1>1, <1>4, <1>5 DEF Superseded
<1>7. \A b1 \in Batches : b1 > k => wal[b1] = None
  BY <1>1, <1>4, NothingAbove DEF StoreInv
<1>8. \A f \in Batches, d \in Owners : Top(f, d) => d = o /\ f < k
  <2> SUFFICES ASSUME NEW f \in Batches, NEW d \in Owners, Top(f, d) PROVE d = o /\ f < k
    OBVIOUS
  <2>1. IsFence(f, d) /\ ~Superseded(d)
    BY DEF Top
  <2>2. d = o
    BY <1>6, <2>1
  <2>3. wal[f] # None
    BY <2>1 DEF IsFence, Holds
  <2> QED BY <2>2, <2>3, <1>1, <1>7
<1>9. PICK f \in Batches : Top(f, o)
  BY <1>1, <1>4, <1>5, TopOf
<1>10. f < k /\ IsFence(f, o)
  BY <1>1, <1>8, <1>9 DEF Top
<1>11. o = OwnerBefore(k)
  <2>1. CASE k - 1 > NewestCut
    <3>1. k - 1 \in Batches /\ Reached(k - 1)
      BY <1>1, <1>2, <1>3, <2>1 DEF ReachedTo
    <3>2. wal[k - 1] # None
      BY <3>1, <2>1, <1>1, <1>2 DEF Reached
    <3>3. CASE f = k - 1
      BY <3>3, <1>10, <2>1 DEF OwnerBefore, IsFence, Holds
    <3>4. CASE f < k - 1
      <4>1. IsRun(k - 1, o)
        BY <1>1, <1>9, <3>1, <3>2, <3>4 DEF StoreInv, TopInv
      <4> QED BY <4>1, <2>1 DEF OwnerBefore, IsRun, Holds
    <3> QED BY <3>3, <3>4, <1>1, <1>10
  <2>2. CASE ~(k - 1 > NewestCut)
    <3>1. f <= NewestCut /\ f > seals[o].cut
      BY <1>1, <1>2, <1>4, <1>10, <2>2 DEF StoreInv, OwnersInv, IsFence, Holds
    <3>2. NewestCut > seals[o].cut
      <4>1. seals[o] \in SealObjects
        BY <1>3, HeadFacts DEF IsClaim, Type, StoreInv
      <4> QED BY <4>1, <3>1, <1>2 DEF SealObjects
    <3>3. /\ seals[Newest].owner >= o /\ Newest \in Generations
          /\ \E b1 \in Batches : IsFence(b1, seals[Newest].owner)
      BY <1>3, <3>2, BehindCut DEF Type, StoreInv
    <3>4. seals[Newest] \in SealObjects
      BY <3>3, HeadFacts, NewestFacts DEF Type, StoreInv
    <3>5. seals[Newest].owner \in Owners
      BY <3>3, <3>4, <1>1 DEF SealObjects
    <3>6. seals[Newest].owner = o
      BY <3>3, <3>5, <1>1, <1>4 DEF Superseded
    <3> QED BY <3>6, <2>2 DEF OwnerBefore
  <2> QED BY <2>1, <2>2
<1> QED BY <1>4, <1>6, <1>8, <1>11

\* A RUN that takes effect preserves the invariant of the store.
LEMMA LandRunStore ==
  ASSUME Type, StoreInv, NEW c \in WalCreates, WalCreateOk(c), c.object.kind = "run",
         c.status = "sent", wal[c.key] = None,
         seals' = seals, tables' = tables, wal' = [wal EXCEPT ![c.key] = c.object],
         landed' = landed \cup {[batch |-> c.key, owner |-> c.object.owner]}
  PROVE  Stable /\ StoreInv'
<1> DEFINE k == c.key
           o == c.object.owner
           new == [batch |-> k, owner |-> o]
<1>1. /\ k \in Batches /\ o \in Owners /\ c.object # None
      /\ \A b \in Batches : wal'[b] = IF b = k THEN c.object ELSE wal[b]
      /\ Newest' = Newest /\ NewestCut' = NewestCut /\ NewestCut \in Cuts /\ Newest \in Nat
      /\ Reached(k) <=> k <= NewestCut
      /\ \A b \in Batches : Reached(b) => Reached(b)'
      /\ Reached(k)' /\ Newest \in Generations
  BY LandWalFacts
<1>2. /\ ~Reached(k) /\ ~Superseded(o)
      /\ \A f \in Batches, d \in Owners : Top(f, d) => d = o /\ f < k
      /\ \A d \in Owners : ~Superseded(d) /\ (\E f \in Batches : IsFence(f, d)) => d = o
      /\ o = OwnerBefore(k)
  BY RunIsInForce
<1>3. k > NewestCut
  BY <1>1, <1>2
<1>4. \A b, d : IsFence(b, d)' <=> IsFence(b, d)
  BY <1>1 DEF IsFence, Holds
<1>5. \A b, d : IsRun(b, d)' <=> IsRun(b, d) \/ (b = k /\ d = o)
  BY <1>1 DEF IsRun, Holds
<1>6. \A d : Superseded(d)' <=> Superseded(d)
  BY <1>4 DEF Superseded
<1>7. \A f, d : Top(f, d)' <=> Top(f, d)
  BY <1>4, <1>6 DEF Top
<1>8. new \in Runs /\ new.batch = k /\ new.owner = o
  BY <1>1 DEF Runs
<1>9. new \notin landed
  BY <1>3, <1>8, <1>1 DEF StoreInv, LandedInv, IsRun, Holds
<1> HIDE DEF k, o, new
<1>10. landed' = landed \cup {new}
  BY DEF new, k, o
<1>11. \A b \in Batches : b # k => wal'[b] = wal[b]
  BY <1>1
<1>12. wal[k] = None /\ wal'[k] = c.object /\ c.object.owner = o /\ c.object.kind = "run"
  BY <1>1 DEF k, o
<1>13. Stable
  <2>1. ASSUME NEW j \in Batches, NEW d \in Owners, Slot(j, d),
               \E f \in Batches : IsFence(f, d),
               [batch |-> j, owner |-> d] \in landed' => [batch |-> j, owner |-> d] \in landed
        PROVE  Slot(j, d)'
    <3>1. CASE j # k
      BY <2>1, <3>1, <1>1, <1>4, <1>6, <1>11 DEF Slot
    <3>2. CASE j = k
      <4>1. d = o
        BY <2>1, <3>2, <1>2, <1>12 DEF Slot
      <4>2. [batch |-> j, owner |-> d] = new
        BY <3>2, <4>1 DEF new
      <4> QED BY <4>2, <2>1, <1>9, <1>10
    <3> QED BY <3>1, <3>2
  <2>2. \A run \in landed' :
          run \in landed \/ (run \in Runs /\ ~Reached(run.batch) /\ ~Superseded(run.owner))
    BY <1>2, <1>8, <1>10
  <2>3. \A b \in Batches : wal[b] # None => wal'[b] = wal[b]
    BY <1>11, <1>12
  <2> QED BY <2>1, <2>2, <2>3, <1>1, <1>4, <1>7, <1>10 DEF Stable
<1>14. SealsInv' /\ HeadInv'
  BY <1>1 DEF StoreInv, SealsInv, HeadInv, IsClaim
<1>15. ContentInv'
  <2> SUFFICES ASSUME NEW g \in Generations, seals[g] # None PROVE SealContent(g)'
    BY DEF ContentInv
  <2>1. SealContent(g) /\ seals[g].cut \in Cuts /\ seals[g].cut < k
    BY <1>1, <1>3, HeadFacts DEF StoreInv, ContentInv, Type, SealObjects
  <2>2. LandedTo(seals[g].cut)' = LandedTo(seals[g].cut)
    BY <2>1, <1>1, <1>8, <1>10 DEF LandedTo
  <2> QED BY <2>1, <2>2, <1>4 DEF SealContent, Content
<1>16. SuffixInv'
  <2>1. \A b \in Batches : wal[b] # None => b < k
    <3> SUFFICES ASSUME NEW b \in Batches, wal[b] # None PROVE b < k
      OBVIOUS
    <3> QED BY <1>1, <1>2, <1>12, NothingAbove DEF StoreInv
  <2>2. ASSUME NEW b \in Batches, wal'[b] # None PROVE ReachedTo(b)'
    <3>1. CASE b = k
      <4>1. ReachedTo(k - 1)
        BY DEF WalCreateOk, k
      <4> QED BY <4>1, <3>1, <1>1 DEF ReachedTo
    <3>2. CASE b # k
      <4>1. ReachedTo(b)
        BY <2>2, <3>2, <1>11 DEF StoreInv, SuffixInv
      <4> QED BY <4>1, <1>1 DEF ReachedTo
    <3> QED BY <3>1, <3>2
  <2>3. ASSUME NEW b \in Batches, b > NewestCut', wal'[b] # None
        PROVE  /\ b <= k
               /\ OwnerBefore(b)' = OwnerBefore(b)
    <3>1. b <= k
      BY <2>1, <2>3, <1>1, <1>11
    <3>2. b - 1 > NewestCut => wal'[b - 1] = wal[b - 1]
      BY <3>1, <2>3, <1>1, <1>11
    <3> QED BY <3>1, <3>2, <1>1 DEF OwnerBefore
  <2>4. ASSUME NEW b \in Batches, b > NewestCut', wal'[b] # None
        PROVE  IF wal'[b].kind = "fence" THEN wal'[b].owner > OwnerBefore(b)'
               ELSE wal'[b].owner = OwnerBefore(b)'
    <3>1. CASE b = k
      BY <2>3, <2>4, <3>1, <1>2, <1>12
    <3>2. CASE b # k
      BY <2>3, <2>4, <3>2, <1>1, <1>11 DEF StoreInv, SuffixInv
    <3> QED BY <3>1, <3>2
  <2> QED BY <2>2, <2>4 DEF SuffixInv
<1>17. OwnersInv'
  <2>1. \A g : IsClaim(g)' <=> IsClaim(g)
    BY DEF IsClaim
  <2>2. IsClaim(o) /\ k > seals[o].cut /\ \E f \in Batches : IsFence(f, o)
    BY DEF WalCreateOk, k, o
  <2> QED BY <2>1, <2>2, <1>4, <1>11, <1>12 DEF StoreInv, OwnersInv
<1>18. TopInv'
  <2>1. \A b \in Batches : wal'[b] # None => b = k \/ wal[b] # None
    BY <1>11
  <2> QED BY <2>1, <1>2, <1>5, <1>7 DEF StoreInv, TopInv
<1>19. LandedInv'
  <2>1. \A run \in landed : run.batch # k
    BY <1>1, <1>3, <1>12 DEF StoreInv, LandedInv, IsRun, Holds
  <2>2. \A run \in landed' : run.batch <= NewestCut' \/ IsRun(run.batch, run.owner)'
    BY <1>1, <1>5, <1>8, <1>10 DEF StoreInv, LandedInv
  <2>3. \A r, s \in landed' : r.batch = s.batch => r = s
    BY <2>1, <1>8, <1>10 DEF StoreInv, LandedInv
  <2>4. \A b \in Batches : wal'[b] # None /\ wal'[b].kind = "run" =>
          [batch |-> b, owner |-> wal'[b].owner] \in landed'
    BY <1>10, <1>11, <1>12 DEF StoreInv, LandedInv, new
  <2> QED BY <2>2, <2>3, <2>4 DEF LandedInv
<1> QED BY <1>13, <1>14, <1>15, <1>16, <1>17, <1>18, <1>19 DEF StoreInv

\* A FENCE lands on a coordinate that was never reached, above all that is in
\* the store, or behind the cut and below the newest FENCE.
LEMMA FenceLandsWhere ==
  ASSUME Type, StoreInv, NEW c \in WalCreates, WalCreateOk(c), c.object.kind = "fence",
         c.status = "sent", wal[c.key] = None
  PROVE  /\ \A f \in Batches, d \in Owners : IsFence(f, d) /\ d >= c.object.owner =>
              /\ Reached(c.key)
              /\ \E g \in Batches, e \in Owners : Top(g, e) /\ e >= d /\ c.key < g
         /\ Reached(c.key) =>
              \E f \in Batches, d \in Owners : IsFence(f, d) /\ d >= c.object.owner
<1> DEFINE k == c.key
           o == c.object.owner
<1>1. k \in Batches /\ o \in Owners
  BY DEF WalCreates, WalObjects
<1>2. \A f \in Batches, d \in Owners : Top(f, d) /\ d >= o => k <= f
  BY DEF WalCreateOk
<1>3. IsClaim(o) /\ k > seals[o].cut
  BY DEF WalCreateOk
<1>4. ASSUME NEW f \in Batches, NEW d \in Owners, IsFence(f, d), d >= o
      PROVE  /\ Reached(k)
             /\ \E g \in Batches, e \in Owners : Top(g, e) /\ e >= d /\ k < g
  <2>1. PICK g \in Batches, e \in Owners : Top(g, e) /\ e >= d
    BY <1>4, TopExists
  <2>2. wal[g] # None
    BY <2>1 DEF Top, IsFence, Holds
  <2>3. k <= g /\ k # g
    BY <1>1, <1>2, <1>4, <2>1, <2>2
  <2>4. Reached(k)
    BY <1>1, <2>2, <2>3, NothingAbove DEF StoreInv
  <2> QED BY <1>1, <2>1, <2>3, <2>4
<1>5. ASSUME Reached(k)
      PROVE  \E f \in Batches, d \in Owners : IsFence(f, d) /\ d >= o
  <2>1. k <= NewestCut /\ NewestCut \in Cuts
    BY <1>5, HeadFacts DEF Reached, Type, StoreInv
  <2>2. seals[o] \in SealObjects
    BY <1>3, HeadFacts DEF IsClaim, Type, StoreInv
  <2>3. NewestCut > seals[o].cut
    BY <1>1, <1>3, <2>1, <2>2 DEF SealObjects
  <2>4. /\ seals[Newest].owner >= o /\ Newest \in Generations
        /\ \E f \in Batches : IsFence(f, seals[Newest].owner)
    BY <1>3, <2>3, BehindCut DEF Type, StoreInv
  <2>5. seals[Newest] \in SealObjects
    BY <2>4, HeadFacts, NewestFacts DEF Type, StoreInv
  <2>6. seals[Newest].owner \in Owners
    BY <1>1, <2>4, <2>5 DEF SealObjects
  <2> QED BY <2>4, <2>6
<1> QED BY <1>4, <1>5

\* A FENCE that takes effect undoes nothing, and becomes the newest only where
\* nothing was reached.
LEMMA LandFenceStable ==
  ASSUME Type, StoreInv, NEW c \in WalCreates, WalCreateOk(c), c.object.kind = "fence",
         c.status = "sent", wal[c.key] = None,
         seals' = seals, wal' = [wal EXCEPT ![c.key] = c.object], landed' = landed
  PROVE  Stable
<1> DEFINE k == c.key
           o == c.object.owner
<1>1. /\ k \in Batches /\ o \in Owners /\ c.object # None
      /\ \A b \in Batches : wal'[b] = IF b = k THEN c.object ELSE wal[b]
      /\ Newest' = Newest /\ NewestCut' = NewestCut /\ NewestCut \in Cuts /\ Newest \in Nat
      /\ Reached(k) <=> k <= NewestCut
      /\ \A b \in Batches : Reached(b) => Reached(b)'
  BY LandWalFacts
<1>2. /\ \A f \in Batches, d \in Owners : IsFence(f, d) /\ d >= o =>
           /\ Reached(k)
           /\ \E g \in Batches, e \in Owners : Top(g, e) /\ e >= d /\ k < g
      /\ Reached(k) => \E f \in Batches, d \in Owners : IsFence(f, d) /\ d >= o
  BY FenceLandsWhere
<1>3. \A f \in Batches, d \in Owners : Top(f, d) /\ d >= o => k <= f
  BY DEF WalCreateOk
<1>4. ReachedTo(k - 1)
  BY DEF WalCreateOk
<1>5. wal[k] = None /\ wal'[k] = c.object /\ c.object.owner = o /\ c.object.kind = "fence"
  BY <1>1
<1> HIDE DEF k, o
<1>6. \A b \in Batches : b # k => wal'[b] = wal[b]
  BY <1>1
<1>7. \A b, d : IsFence(b, d)' <=> IsFence(b, d) \/ (b = k /\ d = o)
  BY <1>1, <1>5, <1>6 DEF IsFence, Holds
<1>8. \A d \in Owners : Superseded(d)' <=> Superseded(d) \/ o > d
  BY <1>1, <1>7 DEF Superseded
<1>9. ASSUME NEW f \in Batches, NEW d \in Owners, Top(f, d)
      PROVE  Superseded(d)' \/ Top(f, d)'
  <2>1. CASE o > d
    BY <2>1, <1>8
  <2>2. CASE o <= d
    <3>1. k <= f
      BY <1>1, <1>3, <1>9, <2>2
    <3> QED BY <3>1, <1>1, <1>7, <1>8, <1>9, <2>2 DEF Top
  <2> QED BY <2>1, <2>2, <1>1
<1>10. ASSUME NEW f \in Batches, NEW d \in Owners, Top(f, d)'
       PROVE  Top(f, d) \/ ~Reached(f)
  <2>1. CASE IsFence(f, d)
    BY <2>1, <1>7, <1>8, <1>10 DEF Top
  <2>2. CASE ~IsFence(f, d)
    <3>1. f = k /\ d = o
      BY <2>2, <1>7, <1>10 DEF Top
    <3>2. ASSUME Reached(k) PROVE FALSE
      <4>1. PICK f1 \in Batches, d1 \in Owners : IsFence(f1, d1) /\ d1 >= o
        BY <3>2, <1>2
      <4>2. PICK g \in Batches, e \in Owners : Top(g, e) /\ e >= d1 /\ k < g
        BY <4>1, <1>2
      <4>3. IsFence(g, e)' /\ e >= o
        BY <1>1, <1>7, <4>1, <4>2 DEF Top
      <4>4. e = o
        BY <1>1, <1>10, <3>1, <4>3 DEF Top, Superseded
      <4> QED BY <1>1, <1>10, <3>1, <4>2, <4>3, <4>4 DEF Top
    <3> QED BY <3>1, <3>2
  <2> QED BY <2>1, <2>2
<1>11. ASSUME NEW j \in Batches, NEW d \in Owners, Slot(j, d), ReachedTo(j - 1),
              \E f \in Batches : IsFence(f, d)
       PROVE  Slot(j, d)'
  <2>1. CASE j = k
    <3>1. ~Reached(k)
      BY <1>1, <1>5, <1>11, <2>1 DEF Slot
    <3>2. o > d
      BY <3>1, <1>1, <1>2, <1>11
    <3> QED BY <2>1, <3>2, <1>1, <1>5, <1>7 DEF Slot
  <2>2. CASE j # k /\ wal[j] # None
    BY <2>2, <1>6, <1>7, <1>11 DEF Slot
  <2>3. CASE j # k /\ wal[j] = None
    <3>1. j > NewestCut /\ ~Superseded(d) /\ ~Reached(j)
      BY <2>3, <1>1, <1>11 DEF Slot, Reached
    <3>2. ~(o > d)
      <4>1. SUFFICES ASSUME o > d PROVE FALSE
        OBVIOUS
      <4>2. k < j
        BY <1>1, <1>4, <2>3, <3>1 DEF ReachedTo
      <4>3. Reached(k)
        BY <1>1, <1>11, <4>2 DEF ReachedTo
      <4>4. PICK f \in Batches, e \in Owners : IsFence(f, e) /\ e >= o
        BY <1>2, <4>3
      <4> QED BY <1>1, <3>1, <4>1, <4>4 DEF Superseded
    <3> QED BY <2>3, <3>1, <3>2, <1>1, <1>6, <1>8 DEF Slot
  <2> QED BY <2>1, <2>2, <2>3
<1>12. \A b \in Batches : wal[b] # None => wal'[b] = wal[b]
  BY <1>5, <1>6
<1> QED BY <1>1, <1>7, <1>9, <1>10, <1>11, <1>12 DEF Stable

\* A FENCE that takes effect preserves the invariant of the store.
LEMMA LandFenceStore ==
  ASSUME Type, StoreInv, NEW c \in WalCreates, WalCreateOk(c), c.object.kind = "fence",
         c.status = "sent", wal[c.key] = None, seals' = seals, tables' = tables,
         wal' = [wal EXCEPT ![c.key] = c.object], landed' = landed
  PROVE  Stable /\ StoreInv'
<1> DEFINE k == c.key
           o == c.object.owner
<1>1. /\ k \in Batches /\ o \in Owners /\ c.object # None
      /\ \A b \in Batches : wal'[b] = IF b = k THEN c.object ELSE wal[b]
      /\ Newest' = Newest /\ NewestCut' = NewestCut /\ NewestCut \in Cuts /\ Newest \in Nat
      /\ Reached(k) <=> k <= NewestCut
      /\ \A b \in Batches : Reached(b) => Reached(b)'
      /\ Reached(k)' /\ Newest \in Generations
  BY LandWalFacts
<1>2. \A f \in Batches, d \in Owners : IsFence(f, d) /\ d >= o => Reached(k)
  BY FenceLandsWhere
<1>3. \A f \in Batches, d \in Owners : Top(f, d) /\ d >= o => k <= f
  BY DEF WalCreateOk
<1>4. Stable
  BY LandFenceStable
<1>5. wal[k] = None /\ wal'[k] = c.object /\ c.object.owner = o /\ c.object.kind = "fence"
  BY <1>1
<1>6. ReachedTo(k - 1) /\ IsClaim(o) /\ k > seals[o].cut
  BY DEF WalCreateOk
<1> HIDE DEF k, o
<1>7. \A b \in Batches : b # k => wal'[b] = wal[b]
  BY <1>1
<1>8. \A b, d : IsFence(b, d)' <=> IsFence(b, d) \/ (b = k /\ d = o)
  BY <1>1, <1>5, <1>7 DEF IsFence, Holds
<1>9. \A b, d : IsRun(b, d)' <=> IsRun(b, d)
  BY <1>1, <1>5, <1>7 DEF IsRun, Holds
<1>10. SealsInv' /\ HeadInv'
  BY <1>1 DEF StoreInv, SealsInv, HeadInv, IsClaim
<1>11. ContentInv'
  BY <1>8 DEF StoreInv, ContentInv, SealContent, Content, LandedTo
<1>12. ~Reached(k) => \A b \in Batches : wal[b] # None => b < k
  <2> SUFFICES ASSUME ~Reached(k), NEW b \in Batches, wal[b] # None PROVE b < k
    OBVIOUS
  <2> QED BY <1>1, <1>5, NothingAbove DEF StoreInv
<1>13. SuffixInv'
  <2>2. ASSUME NEW b \in Batches, wal'[b] # None PROVE ReachedTo(b)'
    <3>1. CASE b = k
      BY <3>1, <1>1, <1>6 DEF ReachedTo
    <3>2. CASE b # k
      <4>1. ReachedTo(b)
        BY <2>2, <3>2, <1>7 DEF StoreInv, SuffixInv
      <4> QED BY <4>1, <1>1 DEF ReachedTo
    <3> QED BY <3>1, <3>2
  <2>3. ASSUME NEW b \in Batches, b > NewestCut', wal'[b] # None
        PROVE  OwnerBefore(b)' = OwnerBefore(b)
    <3>1. b - 1 > NewestCut => b - 1 # k
      <4>1. SUFFICES ASSUME b - 1 = k, k > NewestCut PROVE FALSE
        BY <1>1
      <4>2. wal[b] # None /\ ~Reached(k)
        BY <4>1, <2>3, <1>1, <1>7
      <4> QED BY <4>1, <4>2, <1>1, <1>12
    <3> QED BY <3>1, <1>1, <1>7 DEF OwnerBefore
  <2>4. ASSUME k > NewestCut PROVE o > OwnerBefore(k)
    <3>1. ~Reached(k)
      BY <2>4, <1>1
    <3>2. ASSUME NEW f \in Batches, NEW d \in Owners, IsFence(f, d) PROVE o > d
      BY <1>1, <1>2, <3>1, <3>2
    <3>3. CASE k - 1 > NewestCut
      <4>1. k - 1 \in Batches /\ wal[k - 1] # None
        BY <3>3, <1>1, <1>6 DEF ReachedTo, Reached
      <4>2. wal[k - 1].owner \in Owners /\ wal[k - 1].kind \in {"run", "fence"}
        BY <4>1 DEF Type, TypeOK, WalObjects
      <4>3. \E f \in Batches : IsFence(f, wal[k - 1].owner)
        BY <4>1, <4>2 DEF StoreInv, OwnersInv, IsFence, Holds
      <4> QED BY <4>2, <4>3, <3>2, <3>3 DEF OwnerBefore
    <3>4. CASE ~(k - 1 > NewestCut)
      <4>1. seals[Newest] # None /\ seals[Newest] \in SealObjects
        BY <1>1, NewestFacts, HeadFacts DEF Type, StoreInv
      <4>2. CASE seals[Newest].owner = 0
        BY <4>2, <3>4, <1>1 DEF OwnerBefore
      <4>3. CASE seals[Newest].owner # 0
        <5>1. seals[Newest].owner \in Owners
          BY <4>1, <4>3 DEF SealObjects
        <5>2. \E f \in Batches : IsFence(f, seals[Newest].owner)
          BY <1>1, <4>1, <4>3 DEF StoreInv, ContentInv, SealContent
        <5> QED BY <5>1, <5>2, <3>2, <3>4 DEF OwnerBefore
      <4> QED BY <4>2, <4>3
    <3> QED BY <3>3, <3>4
  <2>5. ASSUME NEW b \in Batches, b > NewestCut', wal'[b] # None
        PROVE  IF wal'[b].kind = "fence" THEN wal'[b].owner > OwnerBefore(b)'
               ELSE wal'[b].owner = OwnerBefore(b)'
    <3>1. CASE b = k
      BY <2>3, <2>4, <2>5, <3>1, <1>1, <1>5
    <3>2. CASE b # k
      BY <2>3, <2>5, <3>2, <1>1, <1>7 DEF StoreInv, SuffixInv
    <3> QED BY <3>1, <3>2
  <2> QED BY <2>2, <2>5 DEF SuffixInv
<1>14. OwnersInv'
  <2>1. \A g : IsClaim(g)' <=> IsClaim(g)
    BY DEF IsClaim
  <2> QED BY <2>1, <1>5, <1>6, <1>7, <1>8 DEF StoreInv, OwnersInv
<1>15. TopInv'
  <2> SUFFICES ASSUME NEW f \in Batches, NEW d \in Owners, Top(f, d)',
                      NEW b \in Batches, b > f, wal'[b] # None
               PROVE  IsRun(b, d)'
    BY DEF TopInv
  <2>1. CASE Top(f, d)
    <3>1. b # k
      <4>1. SUFFICES ASSUME b = k PROVE FALSE
        OBVIOUS
      <4>2. ~(o > d)
        BY <1>1, <1>8 DEF Top, Superseded
      <4> QED BY <4>1, <4>2, <2>1, <1>1, <1>3
    <3> QED BY <2>1, <3>1, <1>7, <1>9 DEF StoreInv, TopInv
  <2>2. CASE ~Top(f, d)
    <3>1. ~Reached(f)
      BY <2>2, <1>4 DEF Stable
    <3>2. f = k
      BY <2>2, <3>1, <1>8 DEF Top, IsFence, Holds, Reached
    <3> QED BY <3>1, <3>2, <1>1, <1>7, <1>12
  <2> QED BY <2>1, <2>2
<1>16. LandedInv'
  <2>1. \A b \in Batches : wal'[b] # None /\ wal'[b].kind = "run" => wal'[b] = wal[b]
    BY <1>5, <1>7
  <2> QED BY <2>1, <1>1, <1>9 DEF StoreInv, LandedInv
<1> QED BY <1>4, <1>10, <1>11, <1>13, <1>14, <1>15, <1>16 DEF StoreInv

\* Deleting a covered RUN preserves the invariant of the store.
LEMMA DeleteRunStore ==
  ASSUME Type, StoreInv, NEW n \in Batches, n <= NewestCut, wal[n] # None,
         wal[n].kind = "run", seals' = seals, tables' = tables, landed' = landed,
         wal' = [wal EXCEPT ![n] = None]
  PROVE  Stable /\ StoreInv'
<1>1. \A b \in Batches : wal'[b] = IF b = n THEN None ELSE wal[b]
  BY DEF Type, TypeOK
<1>2. Newest' = Newest
  BY DEF Newest
<1>3. NewestCut' = NewestCut
  BY <1>2 DEF NewestCut
<1>4. NewestCut \in Cuts /\ Newest \in Nat
  BY HeadFacts, NewestFacts DEF Type, StoreInv
<1>5. \A b \in Batches : Reached(b)' <=> Reached(b)
  BY <1>1, <1>3 DEF Reached
<1>6. \A b, d : IsFence(b, d)' <=> IsFence(b, d)
  BY <1>1 DEF IsFence, Holds
<1>7. \A b, d : IsRun(b, d)' <=> IsRun(b, d) /\ b # n
  BY <1>1 DEF IsRun, Holds
<1>8. \A d : Superseded(d)' <=> Superseded(d)
  BY <1>6 DEF Superseded
<1>9. \A f, d : Top(f, d)' <=> Top(f, d)
  BY <1>6, <1>8 DEF Top
<1>10. \A b \in Batches : b > NewestCut => wal'[b] = wal[b]
  BY <1>1, <1>4
<1>11. \A b \in Batches : wal'[b] # None => wal'[b] = wal[b] /\ b # n
  BY <1>1
<1>12. \A k \in Batches, d \in Owners : Slot(k, d) => Slot(k, d)'
  <2> SUFFICES ASSUME NEW k \in Batches, NEW d \in Owners, Slot(k, d) PROVE Slot(k, d)'
    OBVIOUS
  <2>1. k # n
    BY DEF Slot, IsFence, Holds
  <2> QED BY <2>1, <1>1, <1>3, <1>6, <1>8 DEF Slot
<1>13. Stable
  BY <1>1, <1>2, <1>3, <1>4, <1>5, <1>6, <1>9, <1>10, <1>12 DEF Stable
<1>14. SealsInv' /\ HeadInv'
  BY <1>2 DEF StoreInv, SealsInv, HeadInv, IsClaim
<1>15. ContentInv'
  BY <1>6 DEF StoreInv, ContentInv, SealContent, Content, LandedTo
<1>16. SuffixInv'
  <2>1. \A b \in Batches : b > NewestCut => OwnerBefore(b)' = OwnerBefore(b)
    BY <1>2, <1>3, <1>4, <1>10 DEF OwnerBefore
  <2>2. \A b \in Batches : wal'[b] # None => ReachedTo(b)'
    BY <1>5, <1>11 DEF StoreInv, SuffixInv, ReachedTo
  <2> QED BY <2>1, <2>2, <1>3, <1>10 DEF StoreInv, SuffixInv
<1>17. OwnersInv'
  BY <1>6, <1>11 DEF StoreInv, OwnersInv, IsClaim
<1>18. TopInv'
  BY <1>7, <1>9, <1>11 DEF StoreInv, TopInv
<1>19. LandedInv'
  BY <1>3, <1>7, <1>11 DEF StoreInv, LandedInv
<1> QED BY <1>13, <1>14, <1>15, <1>16, <1>17, <1>18, <1>19 DEF StoreInv

-----------------------------------------------------------------------------
(* What stability carries from one state to the next. *)

\* Facts about the store that no step takes back.
LEMMA Permanent ==
  ASSUME TypeOK, SealsInv, Stable
  PROVE  /\ \A g : IsClaim(g) => IsClaim(g)' /\ seals'[g] = seals[g]
         /\ \A c \in Owners : \A g : Authors(c, g) => Authors(c, g)'
         /\ \A b \in Batches, c \in Owners : IsFence(b, c) => IsFence(b, c)'
         /\ \A c \in Owners : Superseded(c) => Superseded(c)'
         /\ \A b : ReachedTo(b) => ReachedTo(b)'
         /\ \A b \in Cuts : ReachedTo(b) => LandedTo(b)' = LandedTo(b)
<1>1. \A g \in Generations : seals[g] # None => seals'[g] = seals[g]
  BY DEF Stable
<1>2. ASSUME NEW g, IsClaim(g) PROVE IsClaim(g)' /\ seals'[g] = seals[g]
  BY <1>1, <1>2 DEF IsClaim
<1>3. ASSUME NEW c \in Owners, NEW g, Authors(c, g) PROVE Authors(c, g)'
  <2> SUFFICES ASSUME NEW h \in Generations, c < h, h <= g
               PROVE  seals'[h] # None /\ seals'[h].cut > seals'[h - 1].cut
    BY DEF Authors
  <2>1. seals[h] # None /\ seals[h].cut > seals[h - 1].cut
    BY <1>3 DEF Authors
  <2>2. seals'[h] = seals[h] /\ seals'[h - 1] = seals[h - 1]
    BY <1>1, <2>1 DEF SealsInv
  <2> QED BY <2>1, <2>2
<1>4. \A b \in Batches, c \in Owners : IsFence(b, c) => IsFence(b, c)'
  BY DEF Stable
<1>5. \A c \in Owners : Superseded(c) => Superseded(c)'
  BY <1>4 DEF Superseded
<1>6. \A b : ReachedTo(b) => ReachedTo(b)'
  BY DEF Stable, ReachedTo
<1>7. ASSUME NEW b \in Cuts, ReachedTo(b) PROVE LandedTo(b)' = LandedTo(b)
  <2>1. \A run \in landed' : run \in landed \/ ~(run.batch <= b)
    <3> SUFFICES ASSUME NEW run \in landed', run \notin landed, run.batch <= b PROVE FALSE
      OBVIOUS
    <3>1. run.batch \in Batches /\ ~Reached(run.batch)
      BY DEF Stable, Runs
    <3> QED BY <3>1, <1>7 DEF ReachedTo
  <2>2. landed \subseteq landed'
    BY DEF Stable
  <2> QED BY <2>1, <2>2 DEF LandedTo
<1> QED BY <1>2, <1>3, <1>4, <1>5, <1>6, <1>7

\* A Seal create stays what it was while others act.
LEMMA SealCreateStable ==
  ASSUME Type, StoreInv, Stable, NEW c \in SealCreates, SealCreateOk(c),
         seals'[c.key] = None => c.object.tables \subseteq tables'
  PROVE  SealCreateOk(c)'
<1>1. c.key \in Generations /\ c.object \in SealObjects /\ c.object.cut \in Cuts
  BY DEF SealCreates, SealObjects
<1>2. /\ \A g : IsClaim(g) => IsClaim(g)' /\ seals'[g] = seals[g]
      /\ \A d \in Owners : \A g : Authors(d, g) => Authors(d, g)'
      /\ \A b \in Batches, d \in Owners : IsFence(b, d) => IsFence(b, d)'
      /\ \A b : ReachedTo(b) => ReachedTo(b)'
      /\ \A b \in Cuts : ReachedTo(b) => LandedTo(b)' = LandedTo(b)
  BY Permanent DEF Type, StoreInv
<1>3. \A g \in Generations : seals[g] # None => seals'[g] = seals[g]
  BY DEF Stable
<1>4. SuccessorOk(c.key, c.object)'
  <2>1. CASE c.key = 1 /\ c.object = Genesis
    BY <2>1 DEF SuccessorOk
  <2>2. CASE c.key > 1 /\ seals[c.key - 1] # None /\ c.object = seals[c.key - 1]
    BY <2>2, <1>1, <1>3 DEF SuccessorOk
  <2>3. CASE /\ c.key > 1 /\ seals[c.key - 1] # None
             /\ IsClaim(c.object.owner) /\ c.object.owner < c.key
             /\ Authors(c.object.owner, c.key - 1)
             /\ c.object.cut > seals[c.key - 1].cut
             /\ \E b \in Batches : IsFence(b, c.object.owner)
             /\ \A t \in c.object.tables : t \in seals[c.key - 1].tables \/ t.birth = c.key
             /\ c.object.cut > NewestCut =>
                  wal[c.object.cut] # None /\ wal[c.object.cut].owner = c.object.owner
    <3>1. c.object.owner \in Owners /\ seals'[c.key - 1] = seals[c.key - 1]
      BY <2>3, <1>1, <1>3 DEF IsClaim
    <3>2. c.object.cut > NewestCut' =>
            wal'[c.object.cut] # None /\ wal'[c.object.cut].owner = c.object.owner
      <4> SUFFICES ASSUME c.object.cut > NewestCut'
                   PROVE  wal'[c.object.cut] # None /\ wal'[c.object.cut].owner = c.object.owner
        OBVIOUS
      <4>1. c.object.cut > NewestCut /\ c.object.cut \in Batches
        BY <1>1 DEF Stable
      <4>2. wal'[c.object.cut] = wal[c.object.cut]
        BY <4>1, <2>3 DEF Stable
      <4> QED BY <4>1, <4>2, <2>3
    <3> QED BY <2>3, <3>1, <3>2, <1>2 DEF SuccessorOk
  <2> QED BY <2>1, <2>2, <2>3 DEF SealCreateOk, SuccessorOk
<1>5. ReachedTo(c.object.cut)' /\ LandedTo(c.object.cut)' = LandedTo(c.object.cut)
  BY <1>1, <1>2 DEF SealCreateOk
<1>6. seals'[c.key] = None => seals[c.key] = None
  BY <1>1, <1>3
<1>7. c.status = "won" => seals'[c.key] = c.object
  BY <1>1, <1>3, PartitionAssumption DEF SealCreateOk
<1> QED BY <1>4, <1>5, <1>6, <1>7 DEF SealCreateOk, Content

\* A WAL create stays what it was while others act, unless its own RUN lands.
LEMMA WalCreateStable ==
  ASSUME Type, StoreInv, Stable, NEW c \in WalCreates, WalCreateOk(c),
         c.object.kind = "run" =>
           \A k \in {c.key, c.key + 1} :
              [batch |-> k, owner |-> c.object.owner] \in landed' =>
              [batch |-> k, owner |-> c.object.owner] \in landed
  PROVE  WalCreateOk(c)'
<1> DEFINE k == c.key
           o == c.object.owner
<1>1. k \in Batches /\ o \in Owners /\ k < CoordinateMax /\ k + 1 \in Batches
  BY DEF WalCreates, WalObjects, WalCreateOk
<1>2. /\ \A g : IsClaim(g) => IsClaim(g)' /\ seals'[g] = seals[g]
      /\ \A b \in Batches, d \in Owners : IsFence(b, d) => IsFence(b, d)'
      /\ \A d \in Owners : Superseded(d) => Superseded(d)'
      /\ \A b : ReachedTo(b) => ReachedTo(b)'
  BY Permanent DEF Type, StoreInv
<1>3. IsClaim(o)' /\ k > seals'[o].cut /\ ReachedTo(k - 1)'
  BY <1>2 DEF WalCreateOk
<1>4. c.object.kind = "fence" /\ c.status = "sent" =>
        \A f \in Batches, d \in Owners : Top(f, d)' /\ d >= o => k <= f
  <2> SUFFICES ASSUME c.object.kind = "fence", c.status = "sent",
                      NEW f \in Batches, NEW d \in Owners, Top(f, d)', d >= o
               PROVE  k <= f
    OBVIOUS
  <2>1. CASE Top(f, d)
    BY <2>1 DEF WalCreateOk
  <2>2. CASE ~Reached(f)
    BY <2>2, <1>1 DEF WalCreateOk, ReachedTo
  <2> QED BY <2>1, <2>2 DEF Stable
<1>5. c.object.kind = "fence" /\ c.status = "won" =>
        wal'[k] = c.object /\ (Superseded(o)' \/ Top(k, o)')
  <2> SUFFICES ASSUME c.object.kind = "fence", c.status = "won"
               PROVE  wal'[k] = c.object /\ (Superseded(o)' \/ Top(k, o)')
    OBVIOUS
  <2>1. wal[k] = c.object /\ (Superseded(o) \/ Top(k, o))
    BY DEF WalCreateOk
  <2>2. c.object # None
    BY PartitionAssumption DEF WalCreates
  <2>3. wal'[k] = wal[k]
    BY <1>1, <2>1, <2>2 DEF Stable
  <2>4. Top(k, o) => Superseded(o)' \/ Top(k, o)'
    BY <1>1 DEF Stable
  <2> QED BY <1>1, <1>2, <2>1, <2>3, <2>4
<1>6. ASSUME c.object.kind = "run"
      PROVE  /\ \E f \in Batches : IsFence(f, o)'
             /\ c.status # "won" => Slot(k, o)'
             /\ c.status = "won" =>
                  /\ [batch |-> k, owner |-> o] \in landed'
                  /\ ReachedTo(k)'
                  /\ k > NewestCut' => wal'[k] = c.object
                  /\ Slot(k + 1, o)'
  <2>1. PICK f \in Batches : IsFence(f, o)
    BY <1>6 DEF WalCreateOk
  <2>2. IsFence(f, o)'
    BY <2>1, <1>1, <1>2
  <2>3. ASSUME c.status # "won" PROVE Slot(k, o)'
    <3>1. Slot(k, o) /\ ReachedTo(k - 1)
      BY <2>3, <1>6 DEF WalCreateOk
    <3> QED BY <3>1, <2>1, <1>1, <1>6 DEF Stable
  <2>4. ASSUME c.status = "won"
        PROVE  /\ [batch |-> k, owner |-> o] \in landed'
               /\ ReachedTo(k)'
               /\ k > NewestCut' => wal'[k] = c.object
               /\ Slot(k + 1, o)'
    <3>1. /\ [batch |-> k, owner |-> o] \in landed
          /\ ReachedTo(k)
          /\ k > NewestCut => wal[k] = c.object
          /\ Slot(k + 1, o)
      BY <2>4, <1>6 DEF WalCreateOk
    <3>2. ReachedTo((k + 1) - 1)
      BY <3>1, <1>1
    <3>3. Slot(k + 1, o)'
      BY <3>1, <3>2, <2>1, <1>1, <1>6 DEF Stable
    <3>4. k > NewestCut' => wal'[k] = c.object
      <4>1. k > NewestCut' => k > NewestCut
        BY <1>1 DEF Stable
      <4>2. c.object # None
        BY PartitionAssumption DEF WalCreates
      <4> QED BY <4>1, <4>2, <3>1, <1>1 DEF Stable
    <3> QED BY <3>1, <3>3, <3>4, <1>2 DEF Stable
  <2> QED BY <2>2, <2>3, <2>4
<1> QED BY <1>1, <1>3, <1>4, <1>5, <1>6 DEF WalCreateOk

\* What a booting process knows stays so while others act.
LEMMA LocalBootStable ==
  ASSUME Type, StoreInv, Stable, NEW p \in Procs, LocalBoot(p), proc'[p] = proc[p]
  PROVE  LocalBoot(p)'
<1> DEFINE s == proc[p]
<1>1. /\ \A g : IsClaim(g) => IsClaim(g)' /\ seals'[g] = seals[g]
      /\ \A b \in Batches, d \in Owners : IsFence(b, d) => IsFence(b, d)'
      /\ \A d \in Owners : Superseded(d) => Superseded(d)'
      /\ \A b : ReachedTo(b) => ReachedTo(b)'
      /\ \A b \in Cuts : ReachedTo(b) => LandedTo(b)' = LandedTo(b)
  BY Permanent DEF Type, StoreInv
<1>2. /\ \A g \in Generations : seals[g] # None => seals'[g] = seals[g]
      /\ Newest \in Nat /\ Newest' \in Nat /\ Newest <= Newest'
      /\ NewestCut \in Cuts /\ NewestCut' \in Cuts /\ NewestCut <= NewestCut'
  BY DEF Stable
<1>3. StateType(s)
  BY DEF Type
<1>4. s.at = "ReadingSeal" => seals'[s.generation] # None
  BY <1>2, <1>3 DEF StateType, LocalBoot
<1>5. s.at = "PublishingClaim" =>
        s.claim > 1 /\ seals'[s.claim - 1] # None /\ s.seal = seals'[s.claim - 1]
  <2>1. s.at = "PublishingClaim" => s.claim \in Generations
    BY <1>3 DEF StateType
  <2> QED BY <2>1, <1>2 DEF LocalBoot
<1>6. HoldsClaim(p) => IsClaim(s.claim)' /\ IsClaim(s.claim) /\ s.claim \in Generations
  BY <1>1 DEF LocalBoot, IsClaim
<1>7. PreReady(p) => s.seal = seals'[s.claim]
  BY <1>1, <1>6 DEF LocalBoot, PreReady, PreFence, HoldsClaim
<1>8. s.at = "ReadingTable" => s.remaining # {} /\ s.remaining \subseteq s.seal.tables
  BY DEF LocalBoot
<1>9. s.at = "ObservingWalTail" =>
        s.occupied = 0 \/ (s.occupied > s.seal.cut /\ Reached(s.occupied)')
  <2>1. s.at = "ObservingWalTail" => s.occupied \in Cuts
    BY <1>3 DEF StateType
  <2> QED BY <2>1 DEF LocalBoot, Stable
<1>10. s.at = "ReadingWalTail" =>
        /\ s.tail > s.seal.cut /\ s.fence = s.tail + 1 /\ s.fence < CoordinateMax
        /\ ReachedTo(s.tail)'
  BY <1>1 DEF LocalBoot
<1>11. ASSUME NEW f \in Batches, IsFence(f, s.claim), NEW b \in Nat, b <= f,
              s.claim \in Generations
       PROVE  LandedTo(b)' = LandedTo(b) /\ ReachedTo(b)
  <2>1. ReachedTo(f)
    BY <1>11 DEF StoreInv, SuffixInv, IsFence, Holds
  <2>2. ReachedTo(b)
    BY <2>1, <1>11 DEF ReachedTo
  <2> QED BY <2>2, <1>1, <1>11
<1>12. ASSUME s.at = "Replaying"
       PROVE  /\ IsFence(s.fence, s.claim)' /\ s.fence < CoordinateMax
              /\ Superseded(s.claim)' \/ Top(s.fence, s.claim)'
              /\ s.seal.cut < s.next /\ s.next <= s.fence
              /\ Newest' = s.claim =>
                   s.durable = LandedTo(s.next - 1)' /\ s.owner = OwnerBefore(s.next)'
  <2>1. s.claim \in Generations /\ s.fence \in Batches /\ s.next \in Batches /\ IsClaim(s.claim)
    BY <1>3, <1>6, <1>12 DEF StateType, HoldsClaim
  <2>2. /\ IsFence(s.fence, s.claim) /\ s.fence < CoordinateMax
        /\ Superseded(s.claim) \/ Top(s.fence, s.claim)
        /\ s.seal.cut < s.next /\ s.next <= s.fence
        /\ Newest = s.claim => s.durable = LandedTo(s.next - 1) /\ s.owner = OwnerBefore(s.next)
    BY <1>12 DEF LocalBoot
  <2>3. Superseded(s.claim)' \/ Top(s.fence, s.claim)'
    BY <2>1, <2>2, <1>1 DEF Stable
  <2>4. ASSUME Newest' = s.claim
        PROVE  s.durable = LandedTo(s.next - 1)' /\ s.owner = OwnerBefore(s.next)'
    <3>1. Newest = s.claim
      BY <2>1, <2>4, <1>2, NewestFacts DEF IsClaim
    <3>2. NewestCut' = NewestCut /\ seals'[Newest'] = seals[Newest]
      BY <3>1, <2>1, <2>4, <1>1 DEF NewestCut
    <3>3. LandedTo(s.next - 1)' = LandedTo(s.next - 1) /\ ReachedTo(s.next - 1)
      <4>1. s.next - 1 \in Nat /\ s.next - 1 <= s.fence
        BY <2>1, <2>2
      <4> QED BY <4>1, <2>1, <2>2, <1>11
    <3>4. s.next - 1 > NewestCut => wal'[s.next - 1] = wal[s.next - 1]
      <4> SUFFICES ASSUME s.next - 1 > NewestCut PROVE wal'[s.next - 1] = wal[s.next - 1]
        OBVIOUS
      <4>1. s.next - 1 \in Batches
        BY <2>1, <1>2
      <4>2. wal[s.next - 1] # None
        BY <4>1, <3>3, <2>1, <1>2 DEF ReachedTo, Reached
      <4> QED BY <4>1, <4>2, <3>2 DEF Stable
    <3>5. OwnerBefore(s.next)' = OwnerBefore(s.next)
      BY <3>2, <3>4 DEF OwnerBefore
    <3> QED BY <3>1, <3>3, <3>5, <2>2
  <2> QED BY <2>1, <2>2, <2>3, <2>4, <1>1
<1>13. s.at = "RefreshingAnomaly" => Newest' > s.claim
  BY <1>2, <1>6 DEF LocalBoot, HoldsClaim
<1>14. ASSUME s.at = "RefreshingFinal"
       PROVE  /\ IsFence(s.durable_batch, s.claim)' /\ s.durable_batch < CoordinateMax
              /\ Superseded(s.claim)' \/ Top(s.durable_batch, s.claim)'
              /\ s.seal.cut < s.durable_batch
              /\ Newest' = s.claim => s.durable = LandedTo(s.durable_batch)'
  <2>1. s.claim \in Generations /\ s.durable_batch \in Batches /\ IsClaim(s.claim)
    BY <1>3, <1>6, <1>14 DEF StateType, HoldsClaim
  <2>2. /\ IsFence(s.durable_batch, s.claim) /\ s.durable_batch < CoordinateMax
        /\ Superseded(s.claim) \/ Top(s.durable_batch, s.claim)
        /\ s.seal.cut < s.durable_batch
        /\ Newest = s.claim => s.durable = LandedTo(s.durable_batch)
    BY <1>14 DEF LocalBoot
  <2>3. Superseded(s.claim)' \/ Top(s.durable_batch, s.claim)'
    BY <2>1, <2>2, <1>1 DEF Stable
  <2>4. LandedTo(s.durable_batch)' = LandedTo(s.durable_batch)
    BY <2>1, <2>2, <1>11
  <2>5. Newest' = s.claim => Newest = s.claim
    BY <2>1, <1>2, NewestFacts DEF IsClaim
  <2> QED BY <2>1, <2>2, <2>3, <2>4, <2>5, <1>1
<1>15. proc'[p] = s /\ (HoldsClaim(p)' <=> HoldsClaim(p)) /\ (PreReady(p)' <=> PreReady(p))
  BY DEF HoldsClaim, PreReady, PreFence
<1> QED
  BY <1>4, <1>5, <1>6, <1>7, <1>8, <1>9, <1>10, <1>12, <1>13, <1>14, <1>15 DEF LocalBoot

\* The process moves at most its collector.
SameButCollector(p) ==
    /\ proc'[p].at = proc[p].at
    /\ proc[p].at = "Ready" =>
         /\ proc'[p].claim = proc[p].claim /\ proc'[p].generation = proc[p].generation
         /\ proc'[p].seal = proc[p].seal /\ proc'[p].durable = proc[p].durable
         /\ proc'[p].durable_batch = proc[p].durable_batch
         /\ proc'[p].flight = proc[p].flight /\ proc'[p].checkpoint = proc[p].checkpoint

\* What a Ready process knows stays so while others act, or its collector.
LEMMA LocalReadyStable ==
  ASSUME Type, StoreInv, Stable, NEW p \in Procs, LocalBoot(p), LocalReady(p),
         SameButCollector(p),
         proc[p].at = "Ready" /\ ~proc[p].flight =>
           ([batch |-> proc[p].durable_batch + 1, owner |-> proc[p].claim] \in landed' =>
            [batch |-> proc[p].durable_batch + 1, owner |-> proc[p].claim] \in landed)
  PROVE  LocalReady(p)'
<1> DEFINE s == proc[p]
<1> SUFFICES ASSUME s.at = "Ready" PROVE LocalReady(p)'
  BY DEF LocalReady, SameButCollector
<1>0. /\ proc'[p].at = "Ready"
      /\ proc'[p].claim = s.claim /\ proc'[p].generation = s.generation
      /\ proc'[p].seal = s.seal /\ proc'[p].durable = s.durable
      /\ proc'[p].durable_batch = s.durable_batch
      /\ proc'[p].flight = s.flight /\ proc'[p].checkpoint = s.checkpoint
  BY DEF SameButCollector
<1>1. /\ \A d \in Owners : \A g : Authors(d, g) => Authors(d, g)'
      /\ \A b \in Batches, d \in Owners : IsFence(b, d) => IsFence(b, d)'
      /\ \A b : ReachedTo(b) => ReachedTo(b)'
      /\ \A b \in Cuts : ReachedTo(b) => LandedTo(b)' = LandedTo(b)
  BY Permanent DEF Type, StoreInv
<1>2. /\ s.claim \in Owners /\ s.generation \in Generations /\ s.durable_batch \in Batches
      /\ s.flight \in BOOLEAN
  BY DEF Type, StateType
<1>3. /\ s.claim <= s.generation /\ seals[s.generation] # None
      /\ s.seal = seals[s.generation] /\ Authors(s.claim, s.generation)
      /\ s.durable_batch < CoordinateMax /\ s.seal.cut <= s.durable_batch
      /\ \E b \in Batches : b <= s.durable_batch /\ IsFence(b, s.claim)
      /\ ReachedTo(s.durable_batch)
      /\ s.durable_batch > NewestCut =>
           wal[s.durable_batch] # None /\ wal[s.durable_batch].owner = s.claim
      /\ s.durable = LandedTo(s.durable_batch)
      /\ \A run \in landed : run.owner < s.claim => run.batch <= s.durable_batch
      /\ s.checkpoint # None =>
           s.seal.cut < s.checkpoint.cut /\ s.checkpoint.cut <= s.durable_batch
      /\ ~s.flight => Slot(s.durable_batch + 1, s.claim)
  BY DEF LocalReady
<1>4. seals'[s.generation] = seals[s.generation]
  BY <1>2, <1>3 DEF Stable
<1>5. s.durable_batch > NewestCut' =>
        wal'[s.durable_batch] # None /\ wal'[s.durable_batch].owner = s.claim
  <2> SUFFICES ASSUME s.durable_batch > NewestCut'
               PROVE  wal'[s.durable_batch] # None /\ wal'[s.durable_batch].owner = s.claim
    OBVIOUS
  <2>1. s.durable_batch > NewestCut
    BY <1>2 DEF Stable
  <2>2. wal'[s.durable_batch] = wal[s.durable_batch]
    BY <2>1, <1>2, <1>3 DEF Stable
  <2> QED BY <2>1, <2>2, <1>3
<1>6. \A run \in landed' : run.owner < s.claim => run.batch <= s.durable_batch
  <2> SUFFICES ASSUME NEW run \in landed', run.owner < s.claim
               PROVE  run.batch <= s.durable_batch
    OBVIOUS
  <2>1. CASE run \in landed
    BY <2>1, <1>3
  <2>2. CASE run \notin landed
    <3>1. ~Superseded(run.owner) /\ run.owner \in Owners
      BY <2>2 DEF Stable, Runs
    <3> QED BY <3>1, <1>2, <1>3 DEF Superseded
  <2> QED BY <2>1, <2>2
<1>7. ~s.flight => Slot(s.durable_batch + 1, s.claim)'
  <2> SUFFICES ASSUME ~s.flight PROVE Slot(s.durable_batch + 1, s.claim)'
    OBVIOUS
  <2>1. s.durable_batch + 1 \in Batches /\ (s.durable_batch + 1) - 1 = s.durable_batch
    BY <1>2, <1>3
  <2>2. Slot(s.durable_batch + 1, s.claim) /\ ReachedTo((s.durable_batch + 1) - 1)
    BY <1>3, <2>1
  <2>3. \E b \in Batches : IsFence(b, s.claim)
    BY <1>3
  <2> QED BY <2>1, <2>2, <2>3, <1>0, <1>2 DEF Stable
<1>8. \E b \in Batches : b <= s.durable_batch /\ IsFence(b, s.claim)'
  BY <1>0, <1>1, <1>2, <1>3
<1>9. ReachedTo(s.durable_batch)' /\ s.durable = LandedTo(s.durable_batch)'
  BY <1>0, <1>1, <1>2, <1>3
<1>10. Authors(s.claim, s.generation)'
  BY <1>0, <1>1, <1>2, <1>3
<1> QED BY <1>3, <1>4, <1>5, <1>6, <1>7, <1>8, <1>9, <1>10, <1>0 DEF LocalReady

\* What a collector knows stays so while others act.
LEMMA LocalCollectorStable ==
  ASSUME Type, StoreInv, Stable, NEW p \in Procs, LocalBoot(p), LocalReady(p),
         LocalCollector(p), proc'[p] = proc[p],
         proc[p].at = "Ready" /\ proc[p].collector # None =>
           /\ proc[p].collector.proof => wal'[proc[p].collector.next] = wal[proc[p].collector.next]
           /\ \A t \in proc[p].collector.tables, g \in Generations :
                g > proc[p].generation /\ seals[g] = None /\ seals'[g] # None =>
                t \notin seals'[g].tables
  PROVE  LocalCollector(p)'
<1> DEFINE s == proc[p]
           c == proc[p].collector
<1> SUFFICES ASSUME s.at = "Ready", c # None PROVE LocalCollector(p)'
  BY DEF LocalCollector
<1>1. s.claim \in Generations /\ s.generation \in Generations /\ c \in Collections
  BY DEF Type, StateType
<1>2. \A g \in Generations : seals[g] # None => seals'[g] = seals[g]
  BY DEF Stable
<1>3. /\ seals[s.claim].cut < c.next /\ c.cut <= s.seal.cut /\ c.cut < CoordinateMax
      /\ c.proof => c.next <= c.cut /\ wal[c.next] # None /\ wal[c.next].kind = "run"
      /\ \A t \in c.tables :
           /\ t.birth <= s.generation
           /\ \A g \in Generations : g >= s.generation /\ seals[g] # None => t \notin seals[g].tables
  BY DEF LocalCollector
<1>4. seals'[s.claim] = seals[s.claim]
  BY <1>1, <1>2 DEF LocalBoot, HoldsClaim, IsClaim
<1>5. c.proof => wal'[c.next] = wal[c.next]
  OBVIOUS
<1>6. \A t \in c.tables : \A g \in Generations :
        g >= s.generation /\ seals'[g] # None => t \notin seals'[g].tables
  <2> SUFFICES ASSUME NEW t \in c.tables, NEW g \in Generations, g >= s.generation,
                      seals'[g] # None
               PROVE  t \notin seals'[g].tables
    OBVIOUS
  <2>1. CASE seals[g] # None
    BY <2>1, <1>2, <1>3
  <2>2. CASE seals[g] = None
    <3>1. seals[s.generation] # None
      BY DEF LocalReady
    <3>2. g > s.generation
      BY <2>2, <3>1, <1>1
    <3> QED BY <2>2, <3>2
  <2> QED BY <2>1, <2>2
<1>7. proc'[p] = s /\ proc'[p].collector = c
  OBVIOUS
<1> QED BY <1>3, <1>4, <1>5, <1>6, <1>7 DEF LocalCollector

-----------------------------------------------------------------------------
(* Steps that leave Seals, WAL and history alone. *)

Quiet == seals' = seals /\ wal' = wal /\ landed' = landed

\* Such a step changes none of the facts about them.
LEMMA QuietFacts ==
  ASSUME Quiet
  PROVE  /\ Newest' = Newest /\ NewestCut' = NewestCut
         /\ \A b : Reached(b)' <=> Reached(b)
         /\ \A b : ReachedTo(b)' <=> ReachedTo(b)
         /\ \A b, c : IsFence(b, c)' <=> IsFence(b, c)
         /\ \A b, c : IsRun(b, c)' <=> IsRun(b, c)
         /\ \A c : Superseded(c)' <=> Superseded(c)
         /\ \A b, c : Top(b, c)' <=> Top(b, c)
         /\ \A g : IsClaim(g)' <=> IsClaim(g)
         /\ \A c, g : Authors(c, g)' <=> Authors(c, g)
         /\ \A b : LandedTo(b)' = LandedTo(b)
         /\ \A b, c : Slot(b, c)' <=> Slot(b, c)
         /\ \A b : OwnerBefore(b)' = OwnerBefore(b)
         /\ \A k, o : SuccessorOk(k, o)' <=> SuccessorOk(k, o)
<1> USE DEF Quiet
<1>1. Newest' = Newest
  BY DEF Newest
<1>2. NewestCut' = NewestCut
  BY <1>1 DEF NewestCut
<1>3. /\ \A b : Reached(b)' <=> Reached(b)
      /\ \A b, c : IsFence(b, c)' <=> IsFence(b, c)
      /\ \A b, c : IsRun(b, c)' <=> IsRun(b, c)
      /\ \A g : IsClaim(g)' <=> IsClaim(g)
      /\ \A c, g : Authors(c, g)' <=> Authors(c, g)
      /\ \A b : LandedTo(b)' = LandedTo(b)
      /\ \A b : OwnerBefore(b)' = OwnerBefore(b)
  BY <1>1, <1>2 DEF Reached, IsFence, IsRun, Holds, IsClaim, Authors, LandedTo, OwnerBefore
<1>4. \A b : ReachedTo(b)' <=> ReachedTo(b)
  BY <1>3 DEF ReachedTo
<1>5. \A c : Superseded(c)' <=> Superseded(c)
  BY <1>3 DEF Superseded
<1>6. \A b, c : Top(b, c)' <=> Top(b, c)
  BY <1>3, <1>5 DEF Top
<1>7. \A b, c : Slot(b, c)' <=> Slot(b, c)
  BY <1>2, <1>3, <1>5 DEF Slot
<1>8. \A k, o : SuccessorOk(k, o)' <=> SuccessorOk(k, o)
  BY <1>2, <1>3 DEF SuccessorOk
<1> QED BY <1>1, <1>2, <1>3, <1>4, <1>5, <1>6, <1>7, <1>8

\* The store keeps its invariant when the newest Seal keeps its tables.
LEMMA QuietStore ==
  ASSUME Type, StoreInv, Quiet, HeadInv'
  PROVE  Stable /\ StoreInv'
<1>1. TypeOK /\ SealsInv
  BY DEF Type, StoreInv
<1>2. Stable
  BY <1>1, StoreUnchanged DEF Quiet
<1>3. OwnersInv' /\ TopInv' /\ LandedInv'
  BY <1>1, <1>2, WalFrame DEF Quiet, StoreInv
<1>4. SealsInv'
  BY QuietFacts DEF Quiet, StoreInv, SealsInv
<1>5. ContentInv'
  BY QuietFacts DEF Quiet, StoreInv, ContentInv, SealContent, Content
<1>6. SuffixInv'
  BY QuietFacts DEF Quiet, StoreInv, SuffixInv
<1> QED BY <1>2, <1>3, <1>4, <1>5, <1>6 DEF StoreInv

-----------------------------------------------------------------------------
(* A step of one process. *)

\* A create that nobody listens to any more.
Orphan(c) == [by |-> None, kind |-> c.kind, key |-> c.key, object |-> c.object, status |-> "sent"]

\* The creates of p stay, go, or are orphaned on their way; new ones are sent.
NetStep(p, new) ==
    /\ \A c \in net : c.by # p => c \in net'
    /\ \A d \in net' :
         \/ d \in net
         \/ d \in new
         \/ \E c \in net : c.by = p /\ c \notin net' /\ c.status = "sent" /\ d = Orphan(c)

\* What p sends: one create, of its own claim, the only one of its kind.
Sendable(p, e) ==
    /\ e.by = p /\ e.status = "sent" /\ e.kind \in {"seal", "wal"}
    /\ e.kind = "seal" => e \in SealCreates /\ SealCreateOk(e)'
    /\ e.kind = "wal" =>
         /\ e \in WalCreates /\ WalCreateOk(e)'
         /\ HoldsClaim(p) /\ e.object.owner = proc[p].claim
         /\ SendsRun(e) => \A d \in net : SendsRun(d) => d.object.owner # proc[p].claim
    /\ \A d \in net : d.by = p => d.kind # e.kind

Sent(p, new) == (\A e, f \in new : e = f) /\ (\A e \in new : Sendable(p, e))

\* p waits for what it listens to.
Waits(p) == \A d \in net' : d.by = p => Awaited(d)'

Moves(p, s) == proc' = [proc EXCEPT ![p] = s] /\ StateType(s)

\* The claim of p is the one it held, or the one that its own create has won.
ClaimKept(p) ==
    HoldsClaim(p)' =>
        \/ HoldsClaim(p) /\ proc'[p].claim = proc[p].claim
        \/ \E c \in net : /\ c.by = p /\ c.kind = "seal" /\ c.status = "won"
                          /\ c.key = proc'[p].claim /\ c \notin net'

ProcStep(p, new) ==
    /\ Quiet
    /\ tables' \subseteq Tables /\ HeadInv'
    /\ \A c \in net : c.kind = "seal" /\ seals[c.key] = None => c.object.tables \subseteq tables'
    /\ acked' \subseteq landed
    /\ \E s : Moves(p, s)
    /\ NetStep(p, new) /\ Sent(p, new) /\ Waits(p)
    /\ ClaimKept(p)
    /\ Local(p)'

\* Giving up on creates of one's own is a step of the net.
LEMMA AbandonNet ==
  ASSUME Type, NEW p \in Procs, NEW X \in SUBSET net, \A c \in X : c.by = p, Abandons(X)
  PROVE  /\ NetStep(p, {})
         /\ \A c \in net : c \notin X => c \in net'
         /\ \A c \in X : c \notin net'
         /\ \A d \in net' : d \in net \/ (d.by = None /\ d.status = "sent" /\ \E c \in X : d = Orphan(c) /\ c.status = "sent")
         /\ \A d \in net' : d.by # None => d \in net /\ d \notin X
<1>1. p # None
  BY PartitionAssumption
<1>2. ASSUME NEW c \in net PROVE [c EXCEPT !.by = None] = [Orphan(c) EXCEPT !.status = c.status]
  <2>1. CASE c \in SealCreates
    BY <2>1 DEF SealCreates, Orphan
  <2>2. CASE c \in WalCreates
    BY <2>2 DEF WalCreates, Orphan
  <2> QED BY <2>1, <2>2 DEF Type
<1>3. ASSUME NEW c \in net, c.status = "sent" PROVE [c EXCEPT !.by = None] = Orphan(c)
  BY <1>2, <1>3 DEF Orphan
<1>4. \A d \in net' : (d \in net /\ d \notin X) \/ \E c \in X : c.status = "sent" /\ d = Orphan(c)
  BY <1>3 DEF Abandons
<1>5. \A c : Orphan(c).by = None /\ Orphan(c).status = "sent"
  BY DEF Orphan
<1>6. \A c \in net : c \notin X => c \in net'
  BY DEF Abandons
<1>7. \A c \in X : c \notin net'
  <2> SUFFICES ASSUME NEW c \in X, c \in net' PROVE FALSE
    OBVIOUS
  <2>1. c.by = None
    BY <1>4, <1>5
  <2> QED BY <2>1, <1>1
<1>8. \A d \in net' : d.by # None => d \in net /\ d \notin X
  BY <1>4, <1>5
<1>9. NetStep(p, {})
  BY <1>4, <1>6, <1>7 DEF NetStep
<1> QED BY <1>4, <1>5, <1>6, <1>7, <1>8, <1>9

\* Sending is a step of the net.
LEMMA SendNet ==
  ASSUME NEW p, NEW kind, NEW key, NEW object, Sends(p, kind, key, object)
  PROVE  /\ NetStep(p, {Create(p, kind, key, object)})
         /\ net' = net \cup {Create(p, kind, key, object)}
BY DEF NetStep, Sends

\* A create of the next state comes from one of this state, or is new.
LEMMA NetHeirs ==
  ASSUME PartitionInv, NEW p \in Procs, NEW new, NetStep(p, new), NEW d \in net', d \notin new
  PROVE  \E c \in net :
           /\ c.kind = d.kind /\ c.key = d.key /\ c.object = d.object /\ c.status = d.status
           /\ \/ c = d
              \/ c.by = p /\ c \notin net' /\ c.status = "sent" /\ d.by = None /\ d = Orphan(c)
<1>1. CASE d \in net
  BY <1>1
<1>2. CASE \E c \in net : c.by = p /\ c \notin net' /\ c.status = "sent" /\ d = Orphan(c)
  BY <1>2 DEF Orphan
<1> QED BY <1>1, <1>2 DEF NetStep

\* A step of one process keeps the types.
LEMMA ProcStepType ==
  ASSUME PartitionInv, NEW p \in Procs, NEW new, ProcStep(p, new)
  PROVE  Type'
<1>1. TypeOK'
  BY DEF PartitionInv, Type, TypeOK, ProcStep, Quiet
<1>2. ASSUME NEW d \in net' PROVE d \in SealCreates \cup WalCreates
  <2>1. CASE d \in new
    BY <2>1 DEF ProcStep, Sent, Sendable
  <2>2. CASE d \in net
    BY <2>2 DEF PartitionInv, Type
  <2>3. ASSUME NEW c \in net, d = Orphan(c) PROVE d \in SealCreates \cup WalCreates
    <3>1. CASE c \in SealCreates
      BY <3>1, <2>3 DEF SealCreates, Orphan
    <3>2. CASE c \in WalCreates
      BY <3>2, <2>3 DEF WalCreates, Orphan
    <3> QED BY <3>1, <3>2 DEF PartitionInv, Type
  <2> QED BY <2>1, <2>2, <2>3 DEF ProcStep, NetStep
<1>3. DOMAIN proc' = Procs /\ \A q \in Procs : StateType(proc'[q])
  BY DEF PartitionInv, Type, ProcStep, Moves
<1> QED BY <1>1, <1>2, <1>3 DEF Type, StateType

\* The other processes do not move.
LEMMA ProcStepOthers ==
  ASSUME PartitionInv, NEW p \in Procs, NEW new, ProcStep(p, new), NEW q \in Procs, q # p
  PROVE  proc'[q] = proc[q]
BY DEF PartitionInv, Type, ProcStep, Moves

\* A step of one process keeps what is known of the creates.
LEMMA ProcStepNet ==
  ASSUME PartitionInv, NEW p \in Procs, NEW new, ProcStep(p, new)
  PROVE  NetInv'
<1>1. Type /\ StoreInv /\ NetInv /\ Stable /\ Quiet /\ NetStep(p, new)
  BY QuietStore DEF PartitionInv, ProcStep
<1>2. p # None
  BY PartitionAssumption
<1>3. \A d \in net' : d.by = None => d.status = "sent"
  <2> SUFFICES ASSUME NEW d \in net', d.by = None PROVE d.status = "sent"
    OBVIOUS
  <2>1. CASE d \in new
    BY <2>1 DEF ProcStep, Sent, Sendable
  <2>2. CASE d \notin new
    BY <1>1, <2>2, NetHeirs DEF NetInv
  <2> QED BY <2>1, <2>2
<1>4. \A d \in net' : d.by # None => Awaited(d)'
  <2> SUFFICES ASSUME NEW d \in net', d.by # None PROVE Awaited(d)'
    OBVIOUS
  <2>1. CASE d.by = p
    BY <2>1 DEF ProcStep, Waits
  <2>2. CASE d.by # p
    <3>1. d \in net
      BY <2>2, <1>1 DEF NetStep, Orphan, ProcStep, Sent, Sendable
    <3>2. d.by \in Procs
      BY <3>1, <1>1 DEF Type, SealCreates, WalCreates
    <3>3. proc'[d.by] = proc[d.by]
      BY <2>2, <3>2, ProcStepOthers
    <3> QED BY <3>1, <3>3, <1>1 DEF NetInv, Awaited
  <2> QED BY <2>1, <2>2
<1>5. \A c, d \in net' : c.by # None /\ c.by = d.by /\ c.kind = d.kind => c = d
  <2> SUFFICES ASSUME NEW c \in net', NEW d \in net', c.by # None, c.by = d.by, c.kind = d.kind
               PROVE  c = d
    OBVIOUS
  <2>1. (c \in net \/ c \in new) /\ (d \in net \/ d \in new)
    BY <1>1 DEF NetStep, Orphan
  <2>2. \A e \in new : e.by = p /\ \A f \in net : f.by = p => f.kind # e.kind
    BY DEF ProcStep, Sent, Sendable
  <2>3. \A e, f \in new : e = f
    BY DEF ProcStep, Sent
  <2> QED BY <1>1, <2>1, <2>2, <2>3 DEF NetInv
<1>6. ASSUME NEW d \in net', d.kind = "seal" PROVE SealCreateOk(d)'
  <2>1. CASE d \in new
    BY <2>1, <1>6 DEF ProcStep, Sent, Sendable
  <2>2. CASE d \notin new
    <3>1. PICK c \in net : c.kind = d.kind /\ c.key = d.key /\ c.object = d.object /\ c.status = d.status
      BY <1>1, <2>2, NetHeirs
    <3>2. SealCreateOk(c)
      BY <3>1, <1>1, <1>6 DEF NetInv
    <3>3. SealCreateOk(d)
      BY <3>1, <3>2 DEF SealCreateOk
    <3>4. d \in SealCreates
      BY <1>6, ProcStepType DEF Type, SealCreates, WalCreates
    <3>5. seals'[d.key] = None => d.object.tables \subseteq tables'
      BY <3>1, <1>6 DEF ProcStep, Quiet
    <3> QED BY <1>1, <3>3, <3>4, <3>5, SealCreateStable
  <2> QED BY <2>1, <2>2
<1>7. ASSUME NEW d \in net', d.kind = "wal" PROVE WalCreateOk(d)'
  <2>1. CASE d \in new
    BY <2>1, <1>7 DEF ProcStep, Sent, Sendable
  <2>2. CASE d \notin new
    <3>1. PICK c \in net : c.kind = d.kind /\ c.key = d.key /\ c.object = d.object /\ c.status = d.status
      BY <1>1, <2>2, NetHeirs
    <3>2. WalCreateOk(c)
      BY <3>1, <1>1, <1>7 DEF NetInv
    <3>3. WalCreateOk(d)
      BY <3>1, <3>2 DEF WalCreateOk
    <3>4. d \in WalCreates
      BY <1>7, ProcStepType DEF Type, SealCreates, WalCreates
    <3>5. landed' = landed
      BY <1>1 DEF Quiet
    <3> QED BY <1>1, <3>3, <3>4, <3>5, WalCreateStable
  <2> QED BY <2>1, <2>2
<1> QED BY <1>3, <1>4, <1>5, <1>6, <1>7 DEF NetInv

\* A step of one process keeps one author per claim.
LEMMA ProcStepUnique ==
  ASSUME PartitionInv, NEW p \in Procs, NEW new, ProcStep(p, new)
  PROVE  UniqueInv'
<1>1. UniqueInv /\ Quiet /\ NetStep(p, new) /\ ClaimKept(p)
  BY DEF PartitionInv, ProcStep
<1>2. \A q \in Procs : q # p => proc'[q] = proc[q] /\ (HoldsClaim(q)' <=> HoldsClaim(q))
  BY ProcStepOthers DEF HoldsClaim
<1>3. ASSUME NEW q \in Procs, q # p, HoldsClaim(p)', HoldsClaim(q)'
      PROVE  proc'[p].claim # proc'[q].claim
  BY <1>1, <1>2, <1>3 DEF ClaimKept, UniqueInv, ClaimsAreUnique
<1>4. ClaimsAreUnique'
  <2> SUFFICES ASSUME NEW q \in Procs, NEW r \in Procs, q # r, HoldsClaim(q)', HoldsClaim(r)'
               PROVE  proc'[q].claim # proc'[r].claim
    BY DEF ClaimsAreUnique
  <2>1. CASE q = p
    BY <2>1, <1>3
  <2>2. CASE r = p
    BY <2>2, <1>3
  <2>3. CASE q # p /\ r # p
    BY <2>3, <1>1, <1>2 DEF UniqueInv, ClaimsAreUnique
  <2> QED BY <2>1, <2>2, <2>3
<1>5. ASSUME NEW c \in net', c.kind = "seal", c.status = "won"
      PROVE  /\ \A d \in net' : d.kind = "seal" /\ d.status = "won" /\ d.key = c.key => d = c
             /\ \A q \in Procs : HoldsClaim(q)' => proc'[q].claim # c.key
             /\ NoObjectOf(c.key)'
  <2>1. \A d \in net' : d.status = "won" => d \in net
    BY <1>1 DEF NetStep, Orphan, ProcStep, Sent, Sendable
  <2>2. /\ c \in net
        /\ \A d \in net : d.kind = "seal" /\ d.status = "won" /\ d.key = c.key => d = c
        /\ \A q \in Procs : HoldsClaim(q) => proc[q].claim # c.key
        /\ NoObjectOf(c.key)
    BY <1>1, <1>5, <2>1 DEF UniqueInv
  <2>3. ASSUME NEW q \in Procs, HoldsClaim(q)' PROVE proc'[q].claim # c.key
    BY <1>1, <1>2, <2>2, <2>3, <1>5 DEF ClaimKept
  <2>4. ASSUME NEW d \in net', d.kind = "wal" PROVE d.object.owner # c.key
    <3>1. CASE d \in new
      BY <3>1, <2>2, <2>4 DEF ProcStep, Sent, Sendable
    <3>2. CASE d \notin new
      BY <1>1, <3>2, <2>2, <2>4, NetHeirs DEF NoObjectOf
    <3> QED BY <3>1, <3>2
  <2>5. NoObjectOf(c.key)'
    BY <1>1, <2>2, <2>4 DEF NoObjectOf, Quiet
  <2> QED BY <2>1, <2>2, <2>3, <2>5
<1>6. ASSUME NEW c \in net', NEW d \in net', SendsRun(c), SendsRun(d),
             c.object.owner = d.object.owner
      PROVE  c = d
  <2>1. ASSUME NEW e \in net', NEW f \in net', e \in new, f \notin new, SendsRun(e), SendsRun(f)
        PROVE  e.object.owner # f.object.owner
    <3>1. PICK g \in net : g.kind = f.kind /\ g.object = f.object
      BY <1>1, <2>1, NetHeirs
    <3> QED BY <2>1, <3>1 DEF ProcStep, Sent, Sendable, SendsRun
  <2>2. CASE c \in new /\ d \in new
    BY <2>2 DEF ProcStep, Sent
  <2>3. CASE c \notin new /\ d \notin new
    <3>1. PICK g \in net : /\ g.kind = c.kind /\ g.object = c.object
                           /\ g = c \/ (g \notin net' /\ c = Orphan(g))
      BY <1>1, <2>3, NetHeirs
    <3>2. PICK h \in net : /\ h.kind = d.kind /\ h.object = d.object
                           /\ h = d \/ (h \notin net' /\ d = Orphan(h))
      BY <1>1, <2>3, NetHeirs
    <3>3. g = h
      BY <1>1, <1>6, <3>1, <3>2 DEF UniqueInv, SendsRun
    <3> QED BY <3>1, <3>2, <3>3
  <2> QED BY <1>6, <2>1, <2>2, <2>3
<1> QED BY <1>4, <1>5, <1>6 DEF UniqueInv

\* A step of one process leaves what the others know.
LEMMA ProcStepLocal ==
  ASSUME PartitionInv, NEW p \in Procs, NEW new, ProcStep(p, new), NEW q \in Procs, q # p
  PROVE  Local(q)'
<1>1. /\ Type /\ StoreInv /\ NetInv /\ UniqueInv /\ Stable /\ Quiet /\ NetStep(p, new)
      /\ Local(q) /\ LocalBoot(q) /\ LocalReady(q) /\ LocalCollector(q) /\ LocalNet(q)
  BY QuietStore DEF PartitionInv, ProcStep, Local
<1>2. proc'[q] = proc[q]
  BY ProcStepOthers
<1>3. LocalBoot(q)'
  BY <1>1, <1>2, LocalBootStable
<1>4. LocalReady(q)'
  <2>1. landed' = landed
    BY <1>1 DEF Quiet
  <2>2. SameButCollector(q)
    BY <1>2 DEF SameButCollector
  <2> QED BY <1>1, <2>1, <2>2, LocalReadyStable
<1>5. LocalCollector(q)'
  <2>1. seals' = seals /\ wal' = wal
    BY <1>1 DEF Quiet
  <2> QED BY <1>1, <1>2, <2>1, LocalCollectorStable
<1>6. (PreReady(q)' <=> PreReady(q)) /\ (PreFence(q)' <=> PreFence(q))
  BY <1>2 DEF PreReady, PreFence
<1>7. PreReady(q) \/ proc[q].at = "Ready" => HoldsClaim(q)
  BY DEF PreReady, PreFence, HoldsClaim
<1>8. HoldsClaim(q) => \A e \in new : e.kind = "wal" => e.object.owner # proc[q].claim
  BY <1>1 DEF ProcStep, Sent, Sendable, UniqueInv, ClaimsAreUnique
<1>9. PreReady(q) => \A b \in Batches : ~IsRun(b, proc[q].claim)'
  BY <1>1, <1>2, QuietFacts DEF LocalNet
<1>10. ASSUME PreReady(q) \/ (proc[q].at = "Ready" /\ ~proc[q].flight), NEW d \in net', SendsRun(d)
       PROVE  d.object.owner # proc[q].claim
  <2>1. CASE d \in new
    BY <2>1, <1>7, <1>8, <1>10 DEF SendsRun
  <2>2. CASE d \notin new
    <3>1. PICK c \in net : c.kind = d.kind /\ c.object = d.object
      BY <1>1, <2>2, NetHeirs
    <3> QED BY <3>1, <1>1, <1>10 DEF LocalNet, SendsRun
  <2> QED BY <2>1, <2>2
<1>11. ASSUME PreFence(q), NEW d \in net', d.kind = "wal", d.object.owner = proc[q].claim, d.by # q
       PROVE  Reached(d.key)'
  <2>1. d \notin new
    BY <1>7, <1>8, <1>11 DEF PreReady
  <2>2. PICK c \in net : c.kind = d.kind /\ c.key = d.key /\ c.object = d.object /\ (c = d \/ c.by = p)
    BY <1>1, <2>1, NetHeirs
  <2>3. Reached(c.key)
    BY <1>1, <1>11, <2>2 DEF LocalNet
  <2> QED BY <2>2, <2>3, <1>1, QuietFacts
<1>12. ASSUME PreFence(q), NEW b \in Batches, IsFence(b, proc[q].claim)'
       PROVE  \/ Superseded(proc[q].claim)'
              \/ \E c \in net' : c.by = q /\ c.kind = "wal" /\ c.status = "won"
  <2>1. \/ Superseded(proc[q].claim)
        \/ \E c \in net : c.by = q /\ c.kind = "wal" /\ c.status = "won"
    BY <1>1, <1>2, <1>12, QuietFacts DEF LocalNet
  <2>2. \A c \in net : c.by = q => c \in net'
    BY <1>1 DEF NetStep
  <2> QED BY <2>1, <2>2, <1>1, <1>2, QuietFacts
<1>13. LocalNet(q)'
  BY <1>2, <1>6, <1>9, <1>10, <1>11, <1>12 DEF LocalNet
<1> QED BY <1>3, <1>4, <1>5, <1>13 DEF Local

\* A step of one process keeps the invariant.
LEMMA ProcStepInv ==
  ASSUME PartitionInv, NEW p \in Procs, NEW new, ProcStep(p, new)
  PROVE  PartitionInv'
<1>1. Type' /\ NetInv' /\ UniqueInv'
  BY ProcStepType, ProcStepNet, ProcStepUnique
<1>2. StoreInv'
  BY QuietStore DEF PartitionInv, ProcStep
<1>3. \A q \in Procs : Local(q)'
  BY ProcStepLocal DEF ProcStep
<1>4. acked' \subseteq landed'
  BY DEF ProcStep, Quiet
<1> QED BY <1>1, <1>2, <1>3, <1>4 DEF PartitionInv

-----------------------------------------------------------------------------
(* The steps of an opening. *)

\* The tables have not moved either: the newest Seal and the creates on their
\* way find theirs.
LEMMA QuietTables ==
  ASSUME PartitionInv, Quiet, tables' = tables
  PROVE  /\ tables' \subseteq Tables /\ HeadInv'
         /\ \A c \in net : c.kind = "seal" /\ seals[c.key] = None => c.object.tables \subseteq tables'
<1>1. tables \subseteq Tables /\ HeadInv
  BY DEF PartitionInv, Type, TypeOK, StoreInv
<1>2. HeadInv'
  BY <1>1, QuietFacts DEF Quiet, HeadInv
<1>3. \A c \in net : c.kind = "seal" => SealCreateOk(c)
  BY DEF PartitionInv, NetInv
<1> QED BY <1>1, <1>2, <1>3 DEF SealCreateOk

\* Which creates a process listens to at each of its states.
LEMMA Listening ==
  ASSUME PartitionInv, NEW p \in Procs, NEW d \in net, d.by = p
  PROVE  /\ d.kind = "seal" =>
              \/ proc[p].at = "EstablishingGenesis" /\ d.key = 1
              \/ proc[p].at = "PublishingClaim" /\ d.key = proc[p].claim /\ d.object = proc[p].seal
              \/ /\ proc[p].at = "Ready" /\ proc[p].checkpoint # None
                 /\ d.key = proc[p].generation + 1 /\ d.object = proc[p].checkpoint
         /\ d.kind # "seal" =>
              \/ /\ proc[p].at = "EstablishingFence"
                 /\ d.key = proc[p].fence /\ d.object = Wal("fence", proc[p].claim)
              \/ /\ proc[p].at = "Ready" /\ proc[p].flight
                 /\ d.key = proc[p].durable_batch + 1 /\ d.object = Wal("run", proc[p].claim)
         /\ d.kind = "seal" => d \in SealCreates /\ SealCreateOk(d)
         /\ d.kind # "seal" => d.kind = "wal" /\ d \in WalCreates /\ WalCreateOk(d)
<1>1. d \in SealCreates \cup WalCreates
  BY DEF PartitionInv, Type
<1>2. d.kind = "seal" \/ d.kind = "wal"
  BY <1>1 DEF SealCreates, WalCreates
<1>3. p # None
  BY PartitionAssumption
<1>4. Awaited(d) /\ (d.kind = "seal" => SealCreateOk(d)) /\ (d.kind = "wal" => WalCreateOk(d))
  BY <1>3 DEF PartitionInv, NetInv
<1> QED BY <1>1, <1>2, <1>4 DEF Awaited, SealCreates, WalCreates

\* The state that a process becomes.
LEMMA Becomes ==
  ASSUME PartitionInv, NEW p \in Procs, NEW s, Become(p, s)
  PROVE  proc' = [proc EXCEPT ![p] = s] /\ proc'[p] = s
BY DEF PartitionInv, Type, Become

\* A net that has not moved.
LEMMA NothingSent ==
  ASSUME NEW p
  PROVE  Sent(p, {}) /\ (net' = net => NetStep(p, {}))
BY DEF Sent, NetStep

\* One create is sent.
LEMMA OneSent ==
  ASSUME NEW p, NEW e, Sendable(p, e)
  PROVE  Sent(p, {e})
BY DEF Sent

\* An exit, for whatever reason, orphans what is on its way.
LEMMA ExitInv ==
  ASSUME PartitionInv, NEW p \in Procs, NEW reason, Exit(p, reason),
         Quiet, tables' = tables, acked' = acked
  PROVE  PartitionInv'
<1> DEFINE X == CreatesOf(p)
<1>1. X \in SUBSET net /\ \A c : c \in X <=> c \in net /\ c.by = p
  BY DEF CreatesOf
<1> HIDE DEF X
<1>2. Type /\ Abandons(X) /\ Become(p, Exited(reason))
  BY DEF PartitionInv, Exit, X
<1>3. NetStep(p, {}) /\ \A d \in net' : d.by # None => d \in net /\ d \notin X
  BY <1>1, <1>2, AbandonNet
<1>4. p # None
  BY PartitionAssumption
<1>5. \A d \in net' : d.by # p
  BY <1>1, <1>3, <1>4
<1>6. proc' = [proc EXCEPT ![p] = Exited(reason)] /\ proc'[p].at = "Exited"
  BY <1>2, Becomes DEF Exited
<1>7. StateType(Exited(reason))
  BY DEF StateType, Exited
<1>8. ~HoldsClaim(p)' /\ ~PreReady(p)' /\ ~PreFence(p)'
  BY <1>6 DEF HoldsClaim, PreReady, PreFence
<1>9. Local(p)'
  BY <1>6, <1>8 DEF Local, LocalBoot, LocalReady, LocalCollector, LocalNet
<1>10. acked' \subseteq landed
  BY DEF PartitionInv
<1>11. ProcStep(p, {})
  BY <1>3, <1>5, <1>6, <1>7, <1>8, <1>9, <1>10, QuietTables, NothingSent
     DEF ProcStep, ClaimKept, Waits, Moves
<1> QED BY <1>11, ProcStepInv

\* Before it holds a claim a process knows only the Seal it succeeds.
LEMMA UnclaimedInv ==
  ASSUME PartitionInv, NEW p \in Procs, NEW s, NEW new, Moves(p, s), proc'[p] = s,
         s.at \in {"DiscoveringHead", "EstablishingGenesis", "ReadingSeal", "PublishingClaim"},
         LocalBoot(p)', Quiet, tables' = tables, acked' = acked,
         NetStep(p, new), Sent(p, new), Waits(p)
  PROVE  PartitionInv'
<1>1. ~HoldsClaim(p)' /\ ~PreReady(p)' /\ ~PreFence(p)' /\ proc'[p].at # "Ready"
  BY DEF HoldsClaim, PreReady, PreFence
<1>2. Local(p)'
  BY <1>1 DEF Local, LocalReady, LocalCollector, LocalNet
<1>3. acked' \subseteq landed
  BY DEF PartitionInv
<1>4. ProcStep(p, new)
  BY <1>1, <1>2, <1>3, QuietTables DEF ProcStep, ClaimKept
<1> QED BY <1>4, ProcStepInv

\* The head is found, or genesis is sent.
LEMMA HeadDiscoveredInv ==
  ASSUME PartitionInv, NEW p \in Procs, HeadDiscovered(p)
  PROVE  PartitionInv'
<1>1. Quiet /\ tables' = tables /\ acked' = acked /\ proc[p].at = "DiscoveringHead"
  BY DEF HeadDiscovered, Quiet, store, history
<1>2. \A d \in net : d.by # p
  BY <1>1, Listening
<1>3. CASE Newest = 0
  <2> DEFINE s == [at |-> "EstablishingGenesis"]
             e == Create(p, "seal", 1, Genesis)
  <2>1. proc' = [proc EXCEPT ![p] = s] /\ proc'[p] = s
    BY <1>3, Becomes DEF HeadDiscovered
  <2>2. NetStep(p, {e}) /\ net' = net \cup {e}
    BY <1>3, SendNet DEF HeadDiscovered
  <2>3. e \in SealCreates
    BY PartitionAssumption DEF SealCreates, Create, Genesis, Seal, SealObjects
  <2>4. /\ e.by = p /\ e.kind = "seal" /\ e.key = 1 /\ e.status = "sent" /\ e.object = Genesis
        /\ e.object.cut = 0 /\ e.object.tables = {}
    BY DEF Create, Genesis, Seal
  <2> HIDE DEF e
  <2>5. SealCreateOk(e)'
    <3>1. SuccessorOk(e.key, e.object)'
      BY <2>4 DEF SuccessorOk
    <3>2. ReachedTo(0)'
      BY DEF ReachedTo
    <3>3. Content({})' = LandedTo(0)'
      <4>1. landed' \subseteq Runs
        BY <1>1 DEF Quiet, PartitionInv, Type, TypeOK
      <4>2. LandedTo(0)' = {}
        BY <4>1 DEF LandedTo, Runs
      <4> QED BY <4>2 DEF Content
    <3> QED BY <2>4, <3>1, <3>2, <3>3 DEF SealCreateOk, Content
  <2>6. Sendable(p, e)
    BY <1>2, <2>3, <2>4, <2>5 DEF Sendable
  <2>7. Waits(p)
    BY <1>2, <2>1, <2>2, <2>4 DEF Awaited, Waits
  <2>8. LocalBoot(p)'
    BY <2>1 DEF LocalBoot, HoldsClaim, PreReady, PreFence
  <2>9. Moves(p, s) /\ s.at = "EstablishingGenesis"
    BY <2>1 DEF StateType, Moves
  <2> HIDE DEF s
  <2> QED BY <1>1, <2>1, <2>2, <2>6, <2>7, <2>8, <2>9, OneSent, UnclaimedInv
<1>4. CASE Newest # 0
  <2> DEFINE s == [at |-> "ReadingSeal", generation |-> Newest]
  <2>1. proc' = [proc EXCEPT ![p] = s] /\ proc'[p] = s /\ net' = net
    BY <1>4, Becomes DEF HeadDiscovered
  <2>2. Newest \in Generations /\ seals[Newest] # None
    BY <1>4, NewestFacts
  <2>3. Moves(p, s) /\ Waits(p)
    BY <1>2, <2>1, <2>2 DEF StateType, Moves, Waits
  <2>4. LocalBoot(p)'
    BY <1>1, <2>1, <2>2 DEF LocalBoot, HoldsClaim, PreReady, PreFence, Quiet
  <2>5. s.at = "ReadingSeal"
    OBVIOUS
  <2> HIDE DEF s
  <2> QED BY <1>1, <2>1, <2>3, <2>4, <2>5, NothingSent, UnclaimedInv
<1> QED BY <1>3, <1>4

\* A handler gives up on its creates of one kind.
LEMMA AbandonKind ==
  ASSUME PartitionInv, NEW p \in Procs, NEW kind, Abandons(At(p, kind))
  PROVE  /\ NetStep(p, {})
         /\ \A d \in net' : d.by = p => d \in net /\ d.kind # kind
         /\ \A c \in net : c.by = p /\ c.kind = kind => c \notin net'
         /\ \A d \in net' : \/ d \in net
                            \/ \E c \in net : /\ c.by = p /\ c.kind = kind /\ c.status = "sent"
                                              /\ d = Orphan(c)
<1> DEFINE X == At(p, kind)
<1>1. X \in SUBSET net /\ \A c : c \in X <=> c \in net /\ c.by = p /\ c.kind = kind
  BY DEF At
<1> HIDE DEF X
<1>2. Type /\ Abandons(X) /\ p # None
  BY PartitionAssumption DEF PartitionInv, X
<1>3. /\ NetStep(p, {})
      /\ \A c \in X : c \notin net'
      /\ \A d \in net' : d.by # None => d \in net /\ d \notin X
      /\ \A d \in net' : d \in net \/ (d.by = None /\ d.status = "sent" /\ \E c \in X : d = Orphan(c) /\ c.status = "sent")
  BY <1>1, <1>2, AbandonNet
<1> QED BY <1>1, <1>2, <1>3

\* Genesis is in place, whoever created it.
LEMMA GenesisEstablishedInv ==
  ASSUME PartitionInv, NEW p \in Procs, GenesisEstablished(p)
  PROVE  PartitionInv'
<1>1. Quiet /\ tables' = tables /\ acked' = acked /\ proc[p].at = "EstablishingGenesis"
  BY DEF GenesisEstablished, Quiet, store, history
<1>2. \A d \in net : d.by = p => d.kind = "seal" /\ d.key = 1 /\ SealCreateOk(d)
  BY <1>1, Listening
<1>3. CASE /\ Stands(p, "seal", "won")
           /\ Become(p, [at |-> "ReadingSeal", generation |-> 1])
           /\ Abandons(At(p, "seal"))
  <2> DEFINE s == [at |-> "ReadingSeal", generation |-> 1]
  <2>1. proc' = [proc EXCEPT ![p] = s] /\ proc'[p] = s
    BY <1>3, Becomes
  <2>2. NetStep(p, {}) /\ \A d \in net' : d.by # p
    BY <1>2, <1>3, AbandonKind
  <2>3. PICK c \in net : c.by = p /\ c.kind = "seal" /\ c.status = "won"
    BY <1>3 DEF Stands, At
  <2>4. seals[1] = c.object /\ c.object # None
    BY <1>2, <2>3, Listening, PartitionAssumption DEF SealCreateOk, SealCreates
  <2>5. LocalBoot(p)'
    BY <1>1, <2>1, <2>4 DEF LocalBoot, HoldsClaim, PreReady, PreFence, Quiet
  <2>6. Moves(p, s) /\ Waits(p) /\ s.at = "ReadingSeal"
    BY <2>1, <2>2, PartitionAssumption DEF Moves, Waits, StateType
  <2> HIDE DEF s
  <2> QED BY <1>1, <2>1, <2>2, <2>5, <2>6, NothingSent, UnclaimedInv
<1>4. CASE /\ Become(p, [at |-> "DiscoveringHead"])
           /\ Abandons(At(p, "seal"))
  <2> DEFINE s == [at |-> "DiscoveringHead"]
  <2>1. proc' = [proc EXCEPT ![p] = s] /\ proc'[p] = s
    BY <1>4, Becomes
  <2>2. NetStep(p, {}) /\ \A d \in net' : d.by # p
    BY <1>2, <1>4, AbandonKind
  <2>3. LocalBoot(p)'
    BY <2>1 DEF LocalBoot, HoldsClaim, PreReady, PreFence
  <2>4. Moves(p, s) /\ Waits(p) /\ s.at = "DiscoveringHead"
    BY <2>1, <2>2 DEF Moves, Waits, StateType
  <2> HIDE DEF s
  <2> QED BY <1>1, <2>1, <2>2, <2>3, <2>4, NothingSent, UnclaimedInv
<1>5. CASE Exit(p, "Stopped")
  BY <1>1, <1>5, ExitInv
<1> QED BY <1>3, <1>4, <1>5 DEF GenesisEstablished

\* The claim is sent.
LEMMA SealReadInv ==
  ASSUME PartitionInv, NEW p \in Procs, SealRead(p)
  PROVE  PartitionInv'
<1>g. PICK g : g = proc[p].generation
  OBVIOUS
<1>h. PICK head : head = seals[g]
  OBVIOUS
<1> DEFINE s == [at |-> "PublishingClaim", claim |-> g + 1, seal |-> head]
           e == Create(p, "seal", g + 1, head)
<1>1. Quiet /\ tables' = tables /\ acked' = acked /\ proc[p].at = "ReadingSeal"
  BY DEF SealRead, Quiet, store, history
<1>2. \A d \in net : d.by # p
  BY <1>1, Listening
<1>3. proc' = [proc EXCEPT ![p] = s] /\ proc'[p] = s
  BY <1>g, <1>h, Becomes DEF SealRead
<1>4. NetStep(p, {e}) /\ net' = net \cup {e}
  BY <1>g, <1>h, SendNet DEF SealRead
<1>5. g \in Generations /\ g + 1 \in Generations
  BY <1>g, <1>1 DEF SealRead, PartitionInv, Type, StateType
<1>6. seals[g] # None /\ seals[g] \in SealObjects /\ seals[g].cut \in Cuts
  <2>1. seals[g] # None
    BY <1>g, <1>1 DEF PartitionInv, Local, LocalBoot
  <2> QED BY <1>5, <2>1, HeadFacts DEF PartitionInv, Type, StoreInv, SealObjects
<1>7. /\ e.by = p /\ e.kind = "seal" /\ e.key = g + 1 /\ e.status = "sent" /\ e.object = head
      /\ e \in SealCreates
  BY <1>h, <1>5, <1>6 DEF Create, SealCreates
<1>8. Moves(p, s) /\ s.at = "PublishingClaim" /\ s.claim = g + 1 /\ s.seal = head
  BY <1>h, <1>3, <1>5, <1>6 DEF Moves, StateType
<1>9. LocalBoot(p)'
  BY <1>h, <1>1, <1>3, <1>5, <1>6 DEF LocalBoot, HoldsClaim, PreReady, PreFence, Quiet
<1> HIDE DEF e, s
<1>10. SealCreateOk(e)'
  <2>1. SuccessorOk(e.key, e.object)
    BY <1>h, <1>5, <1>6, <1>7 DEF SuccessorOk
  <2>2. seals[g].cut <= NewestCut /\ NewestCut \in Cuts
    BY <1>5, <1>6, HeadFacts DEF PartitionInv, Type, StoreInv
  <2>3. ReachedTo(seals[g].cut)
    BY <1>6, <2>2 DEF ReachedTo, Reached
  <2>4. Content(seals[g].tables) = LandedTo(seals[g].cut)
    BY <1>5, <1>6 DEF PartitionInv, StoreInv, ContentInv, SealContent
  <2>5. seals[g + 1] = None => seals[g].tables \subseteq tables
    <3> SUFFICES ASSUME seals[g + 1] = None PROVE seals[g].tables \subseteq tables
      OBVIOUS
    <3>1. g = Newest
      <4>1. \A h \in Generations : seals[h] # None => h <= Newest
        BY NewestFacts
      <4>2. \A h \in Generations : h <= Newest => seals[h] # None
        BY HeadFacts DEF PartitionInv, Type, StoreInv
      <4> QED BY <4>1, <4>2, <1>5, <1>6, NewestFacts
    <3> QED BY <3>1, <1>5 DEF PartitionInv, StoreInv, HeadInv
  <2> QED BY <1>h, <1>1, <1>7, <2>1, <2>3, <2>4, <2>5, QuietFacts DEF SealCreateOk, Quiet, Content
<1>11. Sendable(p, e)
  BY <1>2, <1>7, <1>10 DEF Sendable
<1>12. Waits(p)
  BY <1>2, <1>3, <1>4, <1>7, <1>8 DEF Awaited, Waits
<1> QED BY <1>1, <1>3, <1>4, <1>8, <1>9, <1>11, <1>12, OneSent, UnclaimedInv

\* A claimed process that is not Ready yet.
LEMMA ClaimedInv ==
  ASSUME PartitionInv, NEW p \in Procs, NEW s, NEW new, Moves(p, s), proc'[p] = s,
         s.at # "Ready", LocalBoot(p)', LocalNet(p)', Quiet, tables' = tables, acked' = acked,
         NetStep(p, new), Sent(p, new), Waits(p), ClaimKept(p)
  PROVE  PartitionInv'
<1>1. Local(p)'
  BY DEF Local, LocalReady, LocalCollector
<1>2. acked' \subseteq landed
  BY DEF PartitionInv
<1>3. ProcStep(p, new)
  BY <1>1, <1>2, QuietTables DEF ProcStep
<1> QED BY <1>3, ProcStepInv

\* read_next_table, for the process that holds or has just won its claim.
LEMMA ReadNextTableBoot ==
  ASSUME PartitionInv, NEW p \in Procs, NEW remaining \in SUBSET Tables,
         proc[p].claim \in Generations, proc[p].seal \in SealObjects,
         remaining \subseteq proc[p].seal.tables,
         IsClaim(proc[p].claim), proc[p].seal = seals[proc[p].claim], Quiet,
         Become(p, ReadNextTable(p, remaining))
  PROVE  /\ Moves(p, ReadNextTable(p, remaining)) /\ proc'[p] = ReadNextTable(p, remaining)
         /\ LocalBoot(p)' /\ PreFence(p)' /\ proc'[p].claim = proc[p].claim
         /\ proc'[p].at \in {"ReadingTable", "ObservingWalTail"}
<1> DEFINE s == ReadNextTable(p, remaining)
<1>1. proc' = [proc EXCEPT ![p] = s] /\ proc'[p] = s
  BY Becomes
<1>2. s.claim = proc[p].claim /\ s.seal = proc[p].seal /\ s.at \in {"ReadingTable", "ObservingWalTail"}
  BY DEF ReadNextTable, ObservingWalTail
<1>3. s.at = "ReadingTable" => s.remaining = remaining /\ remaining # {}
  BY DEF ReadNextTable, ObservingWalTail
<1>4. s.at = "ObservingWalTail" => s.occupied = 0
  BY DEF ReadNextTable, ObservingWalTail
<1>5. StateType(s)
  BY DEF StateType, ReadNextTable, ObservingWalTail
<1> HIDE DEF s
<1>6. IsClaim(proc[p].claim)' /\ seals' = seals
  <2>1. \A c : IsClaim(c)' <=> IsClaim(c)
    BY QuietFacts
  <2> QED BY <2>1, <1>1, <1>2 DEF IsClaim, Quiet
<1>7. LocalBoot(p)'
  BY <1>1, <1>2, <1>3, <1>4, <1>6 DEF LocalBoot
<1> QED BY <1>1, <1>2, <1>5, <1>7 DEF Moves, PreFence, s

\* The claimant knows its claim, the Seal it repeats, and that nothing of an
\* owner it supersedes is on its way to a coordinate it will read.
LEMMA Claimant ==
  ASSUME PartitionInv, NEW p \in Procs, HoldsClaim(p)
  PROVE  /\ proc[p].claim \in Generations /\ IsClaim(proc[p].claim)
         /\ seals[proc[p].claim] \in SealObjects /\ seals[proc[p].claim].cut \in Cuts
         /\ seals[proc[p].claim].cut <= NewestCut /\ proc[p].claim <= Newest
         /\ Newest \in Generations /\ NewestCut \in Cuts
         /\ PreReady(p) => proc[p].seal = seals[proc[p].claim]
<1>1. IsClaim(proc[p].claim) /\ (PreReady(p) => proc[p].seal = seals[proc[p].claim])
  BY DEF PartitionInv, Local, LocalBoot
<1>2. proc[p].claim \in Generations /\ seals[proc[p].claim] # None
  BY <1>1 DEF IsClaim
<1>3. TypeOK /\ SealsInv
  BY DEF PartitionInv, Type, StoreInv
<1>4. /\ seals[proc[p].claim] \in SealObjects
      /\ seals[proc[p].claim].cut <= NewestCut /\ proc[p].claim <= Newest /\ NewestCut \in Cuts
  BY <1>2, <1>3, HeadFacts
<1>5. Newest \in Generations
  BY <1>2, <1>4, NewestFacts
<1> QED BY <1>1, <1>2, <1>4, <1>5 DEF SealObjects

\* Whoever is superseded, or meets an owner as new as itself, is not the newest.
LEMMA OwnersAreClaims ==
  ASSUME PartitionInv
  PROVE  /\ \A b \in Batches : wal[b] # None =>
              /\ wal[b] \in WalObjects /\ wal[b].owner \in Owners /\ wal[b].owner <= Newest
              /\ b > seals[wal[b].owner].cut /\ IsClaim(wal[b].owner)
         /\ \A c \in Owners : Superseded(c) => c < Newest
<1>1. ASSUME NEW b \in Batches, wal[b] # None
      PROVE  /\ wal[b] \in WalObjects /\ wal[b].owner \in Owners /\ wal[b].owner <= Newest
             /\ b > seals[wal[b].owner].cut /\ IsClaim(wal[b].owner)
  <2>1. IsClaim(wal[b].owner) /\ b > seals[wal[b].owner].cut
    BY <1>1 DEF PartitionInv, StoreInv, OwnersInv
  <2>2. wal[b].owner \in Generations /\ seals[wal[b].owner] # None
    BY <2>1 DEF IsClaim
  <2>3. wal[b] \in WalObjects
    BY <1>1 DEF PartitionInv, Type, TypeOK
  <2> QED BY <2>1, <2>2, <2>3, NewestFacts
<1>2. ASSUME NEW c \in Owners, Superseded(c) PROVE c < Newest
  <2>1. PICK b \in Batches, d \in Owners : d > c /\ IsFence(b, d)
    BY <1>2 DEF Superseded
  <2>2. d <= Newest
    BY <2>1, <1>1 DEF IsFence, Holds
  <2> QED BY <2>1, <2>2, NewestFacts
<1> QED BY <1>1, <1>2

\* While it waits for its FENCE a process sends only that.
LEMMA PreFenceNet ==
  ASSUME PartitionInv, NEW p \in Procs, PreFence(p), PreFence(p)', proc'[p].claim = proc[p].claim,
         Quiet, net \subseteq net', \A d \in net' : d \in net \/ (d.by = p /\ ~SendsRun(d))
  PROVE  LocalNet(p)' /\ ClaimKept(p)
<1>1. LocalNet(p) /\ PreReady(p) /\ PreReady(p)' /\ HoldsClaim(p) /\ HoldsClaim(p)'
  BY DEF PartitionInv, Local, PreReady, PreFence, HoldsClaim
<1>2. \A b, c : (IsRun(b, c)' <=> IsRun(b, c)) /\ (IsFence(b, c)' <=> IsFence(b, c))
  BY QuietFacts
<1>3. \A b : (Reached(b)' <=> Reached(b)) /\ (Superseded(b)' <=> Superseded(b))
  BY QuietFacts
<1>4. LocalNet(p)'
  BY <1>1, <1>2, <1>3 DEF LocalNet
<1> QED BY <1>1, <1>4 DEF ClaimKept

\* The claim is published: no object names it yet.
LEMMA ClaimPublishedInv ==
  ASSUME PartitionInv, NEW p \in Procs, ClaimPublished(p)
  PROVE  PartitionInv'
<1>1. Quiet /\ tables' = tables /\ acked' = acked /\ proc[p].at = "PublishingClaim"
  BY DEF ClaimPublished, Quiet, store, history
<1>2. \A d \in net : d.by = p =>
        /\ d.kind = "seal" /\ SealCreateOk(d) /\ d \in SealCreates
        /\ d.key = proc[p].claim /\ d.object = proc[p].seal
  BY <1>1, Listening
<1>3. CASE /\ Authored(p)
           /\ Become(p, ReadNextTable(p, proc[p].seal.tables))
           /\ Abandons(At(p, "seal"))
  <2> DEFINE s == ReadNextTable(p, proc[p].seal.tables)
  <2>1. PICK c \in net : c.by = p /\ c.kind = "seal" /\ c.status = "won"
    BY <1>3 DEF Authored, Stands, At
  <2>2. proc[p].claim \in Generations /\ proc[p].seal \in SealObjects
    BY <1>1 DEF PartitionInv, Type, StateType
  <2>3. IsClaim(proc[p].claim) /\ proc[p].seal = seals[proc[p].claim]
    <3>1. seals[proc[p].claim] = proc[p].seal /\ proc[p].seal # None
      BY <1>2, <2>1, <2>2, PartitionAssumption DEF SealCreateOk
    <3>2. proc[p].claim > 1 /\ proc[p].seal = seals[proc[p].claim - 1]
      BY <1>1 DEF PartitionInv, Local, LocalBoot
    <3> QED BY <2>2, <3>1, <3>2 DEF IsClaim
  <2>4. /\ Moves(p, s) /\ proc'[p] = s /\ LocalBoot(p)' /\ PreFence(p)'
        /\ proc'[p].claim = proc[p].claim /\ proc'[p].at \in {"ReadingTable", "ObservingWalTail"}
    <3>1. proc[p].seal.tables \in SUBSET Tables
      BY <2>2 DEF SealObjects
    <3> QED BY <1>1, <1>3, <2>2, <2>3, <3>1, ReadNextTableBoot
  <2>5. NetStep(p, {}) /\ (\A d \in net' : d.by # p) /\ c \notin net'
    BY <1>2, <1>3, <2>1, AbandonKind
  <2>6. ClaimKept(p)
    BY <1>2, <2>1, <2>4, <2>5 DEF ClaimKept
  <2>7. NoObjectOf(c.key)
    BY <2>1 DEF PartitionInv, UniqueInv
  <2>8. \A d \in net' : d.kind = "wal" => d.object.owner # proc'[p].claim
    <3> SUFFICES ASSUME NEW d \in net', d.kind = "wal" PROVE d.object.owner # proc'[p].claim
      OBVIOUS
    <3>1. PICK x \in net : x.kind = d.kind /\ x.object = d.object
      BY <2>5, NetHeirs
    <3> QED BY <3>1, <1>2, <2>1, <2>4, <2>7 DEF NoObjectOf
  <2>9. \A b \in Batches : ~IsRun(b, proc[p].claim)' /\ ~IsFence(b, proc[p].claim)'
    <3>1. \A b \in Batches : wal'[b] # None => wal'[b].owner # proc'[p].claim
      BY <1>1, <1>2, <2>1, <2>4, <2>7 DEF NoObjectOf, Quiet
    <3> QED BY <3>1 DEF IsRun, IsFence, Holds
  <2>10. LocalNet(p)'
    BY <2>8, <2>9 DEF LocalNet, SendsRun
  <2>11. Waits(p) /\ proc'[p].at # "Ready"
    BY <2>4, <2>5 DEF Waits
  <2> HIDE DEF s
  <2> QED BY <1>1, <2>4, <2>5, <2>6, <2>10, <2>11, NothingSent, ClaimedInv
<1>4. CASE Exit(p, "Fenced")
  BY <1>1, <1>4, ExitInv
<1>5. CASE Exit(p, "Stopped")
  BY <1>1, <1>5, ExitInv
<1> QED BY <1>3, <1>4, <1>5 DEF ClaimPublished

\* The next table is read.
LEMMA TableReadInv ==
  ASSUME PartitionInv, NEW p \in Procs, TableRead(p)
  PROVE  PartitionInv'
<1>1. Quiet /\ tables' = tables /\ acked' = acked /\ proc[p].at = "ReadingTable"
  BY DEF TableRead, Quiet, store, history
<1>2. \A d \in net : d.by # p
  BY <1>1, Listening
<1>3. PICK t : \/ Become(p, ReadNextTable(p, proc[p].remaining \ {t})) /\ net' = net
               \/ Exit(p, "Contradiction")
  BY DEF TableRead
<1>4. CASE Become(p, ReadNextTable(p, proc[p].remaining \ {t})) /\ net' = net
  <2> DEFINE rest == proc[p].remaining \ {t}
             s == ReadNextTable(p, rest)
  <2>1. /\ proc[p].claim \in Generations /\ proc[p].seal \in SealObjects
        /\ proc[p].remaining \in SUBSET Tables
    BY <1>1 DEF PartitionInv, Type, StateType
  <2>2. HoldsClaim(p) /\ PreReady(p) /\ PreFence(p)
    BY <1>1 DEF HoldsClaim, PreReady, PreFence
  <2>3. IsClaim(proc[p].claim) /\ proc[p].seal = seals[proc[p].claim]
    BY <2>2, Claimant
  <2>4. rest \in SUBSET Tables /\ rest \subseteq proc[p].seal.tables
    BY <1>1, <2>1 DEF PartitionInv, Local, LocalBoot
  <2>5. Become(p, s) /\ net' = net
    BY <1>4
  <2> HIDE DEF rest
  <2>6. /\ Moves(p, s) /\ proc'[p] = s /\ LocalBoot(p)' /\ PreFence(p)'
        /\ proc'[p].claim = proc[p].claim /\ proc'[p].at \in {"ReadingTable", "ObservingWalTail"}
    BY <1>1, <2>1, <2>3, <2>4, <2>5, ReadNextTableBoot
  <2>7. LocalNet(p)' /\ ClaimKept(p)
    BY <1>1, <2>2, <2>5, <2>6, PreFenceNet
  <2>8. Waits(p) /\ proc'[p].at # "Ready"
    BY <1>2, <2>5, <2>6 DEF Waits
  <2> HIDE DEF s
  <2> QED BY <1>1, <2>5, <2>6, <2>7, <2>8, NothingSent, ClaimedInv
<1>5. CASE Exit(p, "Contradiction")
  BY <1>1, <1>5, ExitInv
<1> QED BY <1>3, <1>4, <1>5

\* A FENCE is sent to the first hole, above every newer owner's newest FENCE or
\* too late.
LEMMA SendsFenceInv ==
  ASSUME PartitionInv, NEW p \in Procs, PreFence(p), proc[p].at # "EstablishingFence",
         NEW fence \in Batches, fence < CoordinateMax, fence > proc[p].seal.cut,
         ReachedTo(fence - 1),
         \A f \in Batches, d \in Owners : Top(f, d) /\ d >= proc[p].claim => fence <= f,
         SendsFence(p, fence), Quiet, tables' = tables, acked' = acked
  PROVE  PartitionInv'
<1>1. PICK claim : claim = proc[p].claim
  OBVIOUS
<1>2. PICK seal : seal = proc[p].seal
  OBVIOUS
<1> DEFINE s == [at |-> "EstablishingFence", claim |-> claim, seal |-> seal, fence |-> fence]
           e == Create(p, "wal", fence, Wal("fence", claim))
<1>3. proc' = [proc EXCEPT ![p] = s] /\ proc'[p] = s
  BY <1>1, <1>2, Becomes DEF SendsFence
<1>4. NetStep(p, {e}) /\ net' = net \cup {e}
  BY <1>1, SendNet DEF SendsFence
<1>5. HoldsClaim(p) /\ PreReady(p) /\ \A d \in net : d.by # p
  BY Listening DEF PreFence, PreReady, HoldsClaim
<1>6. claim \in Generations /\ IsClaim(claim) /\ seal = seals[claim] /\ seal \in SealObjects
  BY <1>1, <1>2, <1>5, Claimant
<1>7. Moves(p, s) /\ s.at = "EstablishingFence" /\ s.claim = claim /\ s.seal = seal /\ s.fence = fence
  BY <1>3, <1>6 DEF Moves, StateType
<1>8. /\ e.by = p /\ e.kind = "wal" /\ e.key = fence /\ e.status = "sent"
      /\ e.object = Wal("fence", claim) /\ e.object.kind = "fence" /\ e.object.owner = claim
      /\ e \in WalCreates
  BY <1>6 DEF Create, WalCreates, Wal, WalObjects
<1> HIDE DEF s, e
<1>9. WalCreateOk(e)'
  <2>1. IsClaim(claim)' /\ ReachedTo(fence - 1)' /\ seals' = seals
    BY <1>6, QuietFacts DEF Quiet
  <2>2. \A f \in Batches, d \in Owners : Top(f, d)' /\ d >= claim => fence <= f
    BY <1>1, QuietFacts
  <2> QED BY <1>2, <1>6, <1>8, <2>1, <2>2 DEF WalCreateOk
<1>10. Sendable(p, e)
  BY <1>1, <1>5, <1>8, <1>9 DEF Sendable, SendsRun
<1>11. Waits(p)
  BY <1>3, <1>4, <1>5, <1>7, <1>8 DEF Awaited, Waits
<1>12. LocalBoot(p)'
  <2>1. IsClaim(claim)' /\ seals' = seals
    BY <1>6, QuietFacts DEF Quiet
  <2>2. proc'[p].claim = claim /\ proc'[p].seal = seal /\ proc'[p].fence = fence /\ proc'[p].at = "EstablishingFence"
    BY <1>3, <1>7
  <2>3. IsClaim(proc[p].claim)'
    BY <2>1, <2>2 DEF IsClaim
  <2> QED BY <1>2, <1>6, <2>1, <2>2, <2>3 DEF LocalBoot
<1>13. LocalNet(p)' /\ ClaimKept(p)
  <2>1. PreFence(p)' /\ proc'[p].claim = proc[p].claim
    BY <1>1, <1>3, <1>7 DEF PreFence
  <2>2. net \subseteq net' /\ \A d \in net' : d \in net \/ (d.by = p /\ ~SendsRun(d))
    BY <1>4, <1>8 DEF SendsRun
  <2> QED BY <2>1, <2>2, PreFenceNet
<1> QED BY <1>3, <1>4, <1>7, <1>10, <1>11, <1>12, <1>13, OneSent, ClaimedInv

\* The first hole after the cut and the tail.
LEMMA FenceCandidateIs ==
  ASSUME NEW cut \in Nat, NEW tail \in Nat
  PROVE  FenceCandidate(cut, tail) = (IF tail > cut THEN tail ELSE cut) + 1
<1>1. Max({cut, tail}) \in {cut, tail} /\ \A y \in {cut, tail} : y <= Max({cut, tail})
  <2> DEFINE S == {cut, tail}
             n == cut + tail
  <2>1. S \subseteq 0 .. n /\ S # {} /\ n \in Nat
    OBVIOUS
  <2> HIDE DEF S, n
  <2>2. Max(S) \in S /\ \A y \in S : y <= Max(S)
    BY <2>1, Greatest
  <2> QED BY <2>2 DEF S
<1> QED BY <1>1 DEF FenceCandidate

\* A FENCE that bounds a suffix leaves a coordinate after it.
LEMMA BoundedFence ==
  ASSUME NEW cut \in Nat, NEW fence \in Nat, BoundTakeoverFence(cut, fence) = "Bounded"
  PROVE  fence < CoordinateMax
<1>1. ~HasSuccessor(fence) => BoundTakeoverFence(cut, fence) = "NoRunCoordinate"
  BY DEF BoundTakeoverFence, SpanThrough, HasSuccessor
<1> QED BY <1>1 DEF HasSuccessor

\* The process goes from one state of an opening to another, and sends nothing.
LEMMA BootStepInv ==
  ASSUME PartitionInv, NEW p \in Procs, NEW s, Become(p, s), StateType(s), s.at # "Ready",
         HoldsClaim(p), proc'[p].claim = proc[p].claim,
         PreReady(p)' => PreReady(p), PreFence(p)' => PreFence(p),
         \A d \in net : d.by # p, LocalBoot(p)',
         Quiet, tables' = tables, acked' = acked, net' = net
  PROVE  PartitionInv'
<1>1. proc' = [proc EXCEPT ![p] = s] /\ proc'[p] = s
  BY Becomes
<1>2. Waits(p) /\ ClaimKept(p) /\ Moves(p, s)
  BY <1>1 DEF Waits, ClaimKept, Moves
<1>3. LocalNet(p)
  BY DEF PartitionInv, Local
<1>4. LocalNet(p)'
  <2>1. \A b, c : (IsRun(b, c)' <=> IsRun(b, c)) /\ (IsFence(b, c)' <=> IsFence(b, c))
    BY QuietFacts
  <2>2. \A b : (Reached(b)' <=> Reached(b)) /\ (Superseded(b)' <=> Superseded(b))
    BY QuietFacts
  <2> QED BY <1>1, <1>3, <2>1, <2>2 DEF LocalNet
<1> QED BY <1>1, <1>2, <1>4, NothingSent, ClaimedInv

\* A process that finds an anomaly is not the newest.
LEMMA AnomalyInv ==
  ASSUME PartitionInv, NEW p \in Procs, HoldsClaim(p), \A d \in net : d.by # p,
         Newest > proc[p].claim,
         Become(p, [at |-> "RefreshingAnomaly", claim |-> proc[p].claim]),
         Quiet, tables' = tables, acked' = acked, net' = net
  PROVE  PartitionInv'
<1>1. PICK claim : claim = proc[p].claim
  OBVIOUS
<1> DEFINE s == [at |-> "RefreshingAnomaly", claim |-> claim]
<1>2. proc' = [proc EXCEPT ![p] = s] /\ proc'[p] = s /\ Become(p, s)
  BY <1>1, Becomes
<1>3. claim \in Generations /\ IsClaim(claim)
  BY <1>1, Claimant
<1>4. StateType(s) /\ s.at = "RefreshingAnomaly" /\ s.claim = claim
  BY <1>3 DEF StateType
<1> HIDE DEF s
<1>5. ~PreReady(p)' /\ ~PreFence(p)'
  BY <1>2, <1>4 DEF PreReady, PreFence
<1>6. LocalBoot(p)'
  <2>1. IsClaim(claim)' /\ Newest' = Newest
    BY <1>3, QuietFacts
  <2>2. IsClaim(proc[p].claim)'
    BY <2>1, <1>2, <1>4 DEF IsClaim
  <2> QED BY <1>1, <1>2, <1>4, <1>5, <2>1, <2>2 DEF LocalBoot
<1> QED BY <1>1, <1>2, <1>4, <1>5, <1>6, BootStepInv

\* The tail is listed: it is read, or the FENCE is sent right after the cut.
LEMMA WalTailObservedInv ==
  ASSUME PartitionInv, NEW p \in Procs, WalTailObserved(p)
  PROVE  PartitionInv'
<1>1. Quiet /\ tables' = tables /\ acked' = acked /\ proc[p].at = "ObservingWalTail"
  BY DEF WalTailObserved, Quiet, store, history
<1>2. HoldsClaim(p) /\ PreReady(p) /\ PreFence(p) /\ \A d \in net : d.by # p
  BY <1>1, Listening DEF HoldsClaim, PreReady, PreFence
<1>3. PICK claim : claim = proc[p].claim
  OBVIOUS
<1>4. PICK seal : seal = proc[p].seal
  OBVIOUS
<1>5. PICK tail : tail = Tail
  OBVIOUS
<1>6. /\ claim \in Generations /\ IsClaim(claim) /\ seal = seals[claim] /\ seal \in SealObjects
      /\ seal.cut \in Cuts /\ seal.cut <= NewestCut /\ NewestCut \in Cuts
  BY <1>2, <1>3, <1>4, Claimant
<1>7. /\ tail \in 0 .. CoordinateMax /\ tail \in Nat
      /\ tail # 0 => tail \in Batches /\ wal[tail] # None
      /\ \A b \in Batches : wal[b] # None => b <= tail
  BY <1>5, TailFacts
<1>8. PICK fence : fence = FenceCandidate(seal.cut, tail)
  OBVIOUS
<1>9. fence = (IF tail > seal.cut THEN tail ELSE seal.cut) + 1
  BY <1>6, <1>7, <1>8, FenceCandidateIs
<1>10. fence \in Nat
  BY <1>6, <1>7, <1>9
<1>11. CASE Exit(p, "Contradiction")
  BY <1>1, <1>11, ExitInv
<1>12. CASE Exit(p, "Retryable")
  BY <1>1, <1>12, ExitInv
<1>13. CASE /\ tail > seal.cut /\ BoundTakeoverFence(seal.cut, fence) = "Bounded" /\ net' = net
            /\ Become(p, [at |-> "ReadingWalTail", claim |-> claim, seal |-> seal,
                          fence |-> fence, tail |-> tail])
  <2> DEFINE s == [at |-> "ReadingWalTail", claim |-> claim, seal |-> seal,
                   fence |-> fence, tail |-> tail]
  <2>1. proc' = [proc EXCEPT ![p] = s] /\ proc'[p] = s /\ Become(p, s)
    BY <1>13, Becomes
  <2>2. fence < CoordinateMax /\ fence = tail + 1 /\ tail \in Batches /\ wal[tail] # None
    BY <1>6, <1>7, <1>9, <1>10, <1>13, BoundedFence
  <2>3. ReachedTo(tail)
    BY <2>2 DEF PartitionInv, StoreInv, SuffixInv
  <2>4. /\ StateType(s) /\ s.at = "ReadingWalTail" /\ s.claim = claim /\ s.seal = seal
        /\ s.fence = fence /\ s.tail = tail
    BY <1>6, <2>2 DEF StateType
  <2> HIDE DEF s
  <2>5. PreFence(p)' /\ PreReady(p)'
    BY <2>1, <2>4 DEF PreReady, PreFence
  <2>6. LocalBoot(p)'
    <3>1. IsClaim(claim)' /\ ReachedTo(tail)' /\ seals' = seals
      BY <1>1, <1>6, <2>3, QuietFacts DEF Quiet
    <3>2. IsClaim(proc[p].claim)' /\ ReachedTo(proc[p].tail)'
      BY <3>1, <2>1, <2>4 DEF IsClaim, ReachedTo
    <3>3. proc'[p].tail > proc'[p].seal.cut /\ proc'[p].fence = proc'[p].tail + 1
      BY <1>13, <2>1, <2>2, <2>4
    <3> QED BY <1>6, <2>1, <2>2, <2>4, <3>1, <3>2, <3>3 DEF LocalBoot
  <2> QED BY <1>1, <1>2, <1>3, <1>13, <2>1, <2>4, <2>5, <2>6, BootStepInv
<1>14. CASE /\ ~(tail > seal.cut) /\ BoundTakeoverFence(seal.cut, fence) = "Bounded"
            /\ SendsFence(p, fence)
  <2>1. fence < CoordinateMax /\ fence = seal.cut + 1 /\ fence \in Batches /\ tail <= seal.cut
    BY <1>6, <1>7, <1>9, <1>10, <1>14, BoundedFence
  <2>2. ReachedTo(fence - 1)
    BY <1>6, <2>1 DEF ReachedTo, Reached
  <2>3. ASSUME NEW f \in Batches, NEW d \in Owners, Top(f, d), d >= claim PROVE FALSE
    <3>1. wal[f] # None /\ wal[f].owner = d
      BY <2>3 DEF Top, IsFence, Holds
    <3>2. f > seals[d].cut /\ IsClaim(d) /\ f <= tail
      BY <3>1, <1>7, OwnersAreClaims
    <3>3. seals[d].cut >= seal.cut
      <4>1. seals[d] # None /\ SealsInv
        BY <3>2 DEF IsClaim, PartitionInv, StoreInv
      <4> QED BY <4>1, <1>6, <2>3 DEF SealsInv
    <3>4. seals[d].cut \in Cuts
      <4>1. seals[d] # None
        BY <3>2 DEF IsClaim
      <4> QED BY <4>1, HeadFacts DEF PartitionInv, Type, StoreInv, SealObjects
    <3> QED BY <3>2, <3>3, <3>4, <2>1, <1>6, <1>7
  <2>4. \A f \in Batches, d \in Owners : Top(f, d) /\ d >= proc[p].claim => fence <= f
    BY <1>3, <2>3
  <2>5. fence > proc[p].seal.cut
    BY <1>4, <1>6, <2>1
  <2> QED BY <1>1, <1>2, <1>14, <2>1, <2>2, <2>4, <2>5, SendsFenceInv
<1> QED
  BY <1>3, <1>4, <1>5, <1>8, <1>11, <1>12, <1>13, <1>14 DEF WalTailObserved

\* The tail is read: it belongs to an older owner, or a newer Seal explains it.
LEMMA TailReadInv ==
  ASSUME PartitionInv, NEW p \in Procs, TailRead(p)
  PROVE  PartitionInv'
<1>1. Quiet /\ tables' = tables /\ acked' = acked /\ proc[p].at = "ReadingWalTail"
  BY DEF TailRead, Quiet, store, history
<1>2. HoldsClaim(p) /\ PreReady(p) /\ PreFence(p) /\ \A d \in net : d.by # p
  BY <1>1, Listening DEF HoldsClaim, PreReady, PreFence
<1>3. PICK claim : claim = proc[p].claim
  OBVIOUS
<1>4. PICK fence : fence = proc[p].fence
  OBVIOUS
<1>5. PICK tail : tail = proc[p].tail
  OBVIOUS
<1>6. claim \in Generations /\ Newest \in Nat /\ claim <= Newest
  BY <1>2, <1>3, Claimant
<1>7. /\ fence \in Batches /\ tail \in Batches /\ tail > proc[p].seal.cut
      /\ fence = tail + 1 /\ fence < CoordinateMax /\ ReachedTo(tail)
      /\ proc[p].seal.cut \in Cuts
  <2>1. fence \in Batches /\ tail \in Batches /\ proc[p].seal \in SealObjects
    BY <1>1, <1>4, <1>5 DEF PartitionInv, Type, StateType
  <2> QED BY <1>1, <1>4, <1>5, <2>1 DEF PartitionInv, Local, LocalBoot, SealObjects
<1>8. CASE wal[tail] = None
  BY <1>1, <1>5, <1>8, ExitInv DEF TailRead
<1>9. CASE wal[tail] # None /\ ~(wal[tail].owner < claim)
  <2>1. wal[tail].owner \in Owners /\ wal[tail].owner <= Newest /\ wal[tail] \in WalObjects
    BY <1>7, <1>9, OwnersAreClaims
  <2>2. Newest > claim
    <3>1. CASE wal[tail].owner > claim
      BY <3>1, <2>1, <1>6
    <3>2. CASE wal[tail].owner = claim
      <4>1. LocalNet(p)
        BY DEF PartitionInv, Local
      <4>2. ~IsRun(tail, claim)
        BY <4>1, <1>2, <1>3, <1>7 DEF LocalNet
      <4>3. IsFence(tail, claim)
        BY <4>2, <3>2, <2>1, <1>7, <1>9 DEF IsRun, IsFence, Holds, WalObjects
      <4>4. Superseded(claim)
        BY <4>1, <4>3, <1>2, <1>3, <1>7 DEF LocalNet
      <4> QED BY <4>4, <1>6, OwnersAreClaims
    <3> QED BY <3>1, <3>2, <2>1, <1>6, <1>9
  <2>3. Become(p, [at |-> "RefreshingAnomaly", claim |-> proc[p].claim]) /\ net' = net
    BY <1>3, <1>5, <1>9 DEF TailRead, IsOlder
  <2> QED BY <1>1, <1>2, <1>3, <2>2, <2>3, AnomalyInv
<1>10. CASE wal[tail] # None /\ wal[tail].owner < claim
  <2>1. SendsFence(p, fence)
    BY <1>3, <1>4, <1>5, <1>10 DEF TailRead, IsOlder
  <2>2. ASSUME NEW f \in Batches, NEW d \in Owners, Top(f, d), d >= claim PROVE fence <= f
    <3>1. wal[f] # None /\ wal[f].owner = d
      BY <2>2 DEF Top, IsFence, Holds
    <3>2. f # tail /\ wal[tail].owner # d
      BY <3>1, <2>2, <1>6, <1>7, <1>10, OwnersAreClaims
    <3>3. ~(tail > f)
      BY <3>2, <2>2, <1>7, <1>10 DEF PartitionInv, StoreInv, TopInv, IsRun, Holds
    <3> QED BY <3>2, <3>3, <1>7
  <2>3. \A f \in Batches, d \in Owners : Top(f, d) /\ d >= proc[p].claim => fence <= f
    BY <1>3, <2>2
  <2>4. fence > proc[p].seal.cut /\ fence - 1 = tail
    BY <1>7
  <2>5. ReachedTo(fence - 1)
    BY <1>7, <2>4
  <2> QED BY <1>1, <1>2, <1>7, <2>1, <2>3, <2>4, <2>5, SendsFenceInv
<1> QED BY <1>8, <1>9, <1>10

\* A process that is current replays a suffix that no Seal has cut since.
LEMMA CurrentCut ==
  ASSUME PartitionInv, NEW p \in Procs, HoldsClaim(p), PreReady(p), Newest = proc[p].claim
  PROVE  NewestCut = proc[p].seal.cut /\ seals[Newest] = proc[p].seal
BY Claimant DEF NewestCut

\* A coordinate of the suffix adds its own RUN, or nothing if it holds a FENCE.
LEMMA LandedNext ==
  ASSUME PartitionInv, NEW b \in Batches, b > NewestCut, wal[b] # None
  PROVE  LandedTo(b) = LandedTo(b - 1) \cup
           (IF wal[b].kind = "run" THEN {[batch |-> b, owner |-> wal[b].owner]} ELSE {})
<1>1. /\ landed \subseteq Runs
      /\ \A run \in landed : run.batch <= NewestCut \/ IsRun(run.batch, run.owner)
      /\ wal[b].kind = "run" => [batch |-> b, owner |-> wal[b].owner] \in landed
      /\ NewestCut \in Cuts
  BY HeadFacts DEF PartitionInv, Type, TypeOK, StoreInv, LandedInv
<1>2. ASSUME NEW run \in landed, run.batch = b
      PROVE  wal[b].kind = "run" /\ run = [batch |-> b, owner |-> wal[b].owner]
  <2>1. IsRun(b, run.owner)
    BY <1>1, <1>2
  <2>2. run = [batch |-> run.batch, owner |-> run.owner]
    BY <1>1 DEF Runs
  <2> QED BY <1>2, <2>1, <2>2 DEF IsRun, Holds
<1>3. \A run \in landed : run.batch \in Batches
  BY <1>1 DEF Runs
<1>4. \A run \in landed : run.batch <= b <=> run.batch <= b - 1 \/ run.batch = b
  BY <1>3
<1>5. CASE wal[b].kind = "run"
  BY <1>1, <1>2, <1>4, <1>5 DEF LandedTo
<1>6. CASE wal[b].kind # "run"
  BY <1>2, <1>4, <1>6 DEF LandedTo
<1> QED BY <1>5, <1>6

\* The FENCE is in place and replay starts, or its coordinate was taken.
LEMMA FenceEstablishedInv ==
  ASSUME PartitionInv, NEW p \in Procs, FenceEstablished(p)
  PROVE  PartitionInv'
<1>1. Quiet /\ tables' = tables /\ acked' = acked /\ proc[p].at = "EstablishingFence"
  BY DEF FenceEstablished, Quiet, store, history
<1>2. HoldsClaim(p) /\ PreReady(p) /\ PreFence(p)
  BY <1>1 DEF HoldsClaim, PreReady, PreFence
<1>3. \A d \in net : d.by = p =>
        /\ d.kind = "wal" /\ WalCreateOk(d) /\ d \in WalCreates
        /\ d.key = proc[p].fence /\ d.object = Wal("fence", proc[p].claim)
  BY <1>1, Listening
<1>4. PICK claim : claim = proc[p].claim
  OBVIOUS
<1>5. PICK seal : seal = proc[p].seal
  OBVIOUS
<1>6. PICK fence : fence = proc[p].fence
  OBVIOUS
<1>7. /\ claim \in Generations /\ IsClaim(claim) /\ seal = seals[claim] /\ seal \in SealObjects
      /\ seal.cut \in Cuts /\ seal.cut <= NewestCut /\ NewestCut \in Cuts
  BY <1>2, <1>4, <1>5, Claimant
<1>8. fence \in Batches /\ fence > seal.cut /\ fence < CoordinateMax
  BY <1>1, <1>5, <1>6 DEF PartitionInv, Type, StateType, Local, LocalBoot
<1>9. LocalNet(p)
  BY DEF PartitionInv, Local
<1>10. \A c, d \in net : c.by = p /\ d.by = p => c = d
  BY <1>3, PartitionAssumption DEF PartitionInv, NetInv
<1>11. CASE /\ WalDurable(p)
            /\ Become(p, [at |-> "Replaying", claim |-> claim, seal |-> seal, fence |-> fence,
                          next |-> seal.cut + 1, owner |-> seal.owner,
                          durable |-> Content(seal.tables)])
            /\ Abandons(At(p, "wal"))
  <2> DEFINE s == [at |-> "Replaying", claim |-> claim, seal |-> seal, fence |-> fence,
                   next |-> seal.cut + 1, owner |-> seal.owner, durable |-> Content(seal.tables)]
  <2>1. PICK c \in net : c.by = p /\ c.kind = "wal" /\ c.status = "won"
    BY <1>11 DEF WalDurable, Stands, At
  <2>2. IsFence(fence, claim) /\ (Superseded(claim) \/ Top(fence, claim))
    <3>1. /\ WalCreateOk(c) /\ c.key = fence /\ c.object = Wal("fence", claim)
          /\ c.object # None /\ c.object.kind = "fence" /\ c.object.owner = claim
      BY <1>3, <1>4, <1>6, <2>1, PartitionAssumption DEF WalCreates, Wal
    <3>2. wal[fence] = c.object /\ (Superseded(claim) \/ Top(fence, claim))
      BY <2>1, <3>1 DEF WalCreateOk
    <3> QED BY <3>1, <3>2, <1>8 DEF IsFence, Holds
  <2>3. proc' = [proc EXCEPT ![p] = s] /\ proc'[p] = s
    BY <1>11, Becomes
  <2>4. NetStep(p, {}) /\ \A d \in net' : d.by # p
    BY <1>3, <1>11, AbandonKind
  <2>5. Content(seal.tables) \subseteq Runs
    BY <1>7 DEF Content, SealObjects, Tables
  <2>6. seal.cut + 1 \in Batches /\ seal.owner \in Owners \cup {0}
    BY <1>7, <1>8 DEF SealObjects
  <2>7. /\ StateType(s) /\ s.at = "Replaying" /\ s.claim = claim /\ s.seal = seal /\ s.fence = fence
        /\ s.next = seal.cut + 1 /\ s.owner = seal.owner /\ s.durable = Content(seal.tables)
    BY <1>7, <1>8, <2>5, <2>6 DEF StateType
  <2> HIDE DEF s
  <2>8. ASSUME Newest = claim
        PROVE  Content(seal.tables) = LandedTo(seal.cut) /\ seal.owner = OwnerBefore(seal.cut + 1)
    <3>1. NewestCut = seal.cut /\ seals[Newest] = seal /\ seal # None
      BY <1>2, <1>4, <1>5, <1>7, <2>8, CurrentCut, PartitionAssumption
    <3>2. Content(seal.tables) = LandedTo(seal.cut)
      BY <3>1, <1>7 DEF PartitionInv, StoreInv, ContentInv, SealContent
    <3> QED BY <3>1, <3>2, <1>7 DEF OwnerBefore
  <2>9. /\ proc'[p].claim = claim /\ proc'[p].seal = seal /\ proc'[p].fence = fence
        /\ proc'[p].next = seal.cut + 1 /\ proc'[p].owner = seal.owner
        /\ proc'[p].durable = Content(seal.tables) /\ proc'[p].at = "Replaying"
    BY <2>3, <2>7
  <2>10. LocalBoot(p)'
    <3>1. /\ IsClaim(claim)' /\ IsFence(fence, claim)' /\ seals' = seals
          /\ Superseded(claim)' \/ Top(fence, claim)'
          /\ Newest' = claim =>
               /\ Content(seal.tables) = LandedTo((seal.cut + 1) - 1)'
               /\ seal.owner = OwnerBefore(seal.cut + 1)'
      <4>1. (seal.cut + 1) - 1 = seal.cut
        BY <1>7
      <4> QED BY <1>1, <1>7, <2>2, <2>8, <4>1, QuietFacts DEF Quiet
    <3>2. /\ IsClaim(proc[p].claim)' /\ IsFence(proc[p].fence, proc[p].claim)'
          /\ Superseded(proc[p].claim)' \/ Top(proc[p].fence, proc[p].claim)'
          /\ Newest' = proc'[p].claim =>
               /\ proc'[p].durable = LandedTo(proc[p].next - 1)'
               /\ proc'[p].owner = OwnerBefore(proc[p].next)'
      BY <3>1, <2>9
    <3>3. proc'[p].seal.cut < proc'[p].next /\ proc'[p].next <= proc'[p].fence
      BY <2>9, <1>7, <1>8
    <3> QED BY <1>7, <1>8, <2>9, <3>1, <3>2, <3>3 DEF LocalBoot
  <2>11. LocalNet(p)'
    <3>1. ~PreFence(p)' /\ PreReady(p)'
      BY <2>9 DEF PreFence, PreReady
    <3>2. \A b \in Batches : ~IsRun(b, proc[p].claim)'
      BY <1>1, <1>2, <1>4, <1>9, <2>9, QuietFacts DEF LocalNet
    <3>3. ASSUME NEW d \in net', SendsRun(d) PROVE d.object.owner # claim
      <4>1. PICK x \in net : x.kind = d.kind /\ x.object = d.object
        BY <2>4, NetHeirs
      <4> QED BY <3>3, <4>1, <1>2, <1>4, <1>9 DEF LocalNet, SendsRun
    <3> QED BY <3>1, <3>2, <3>3, <2>9 DEF LocalNet
  <2>12. ClaimKept(p) /\ Waits(p) /\ Moves(p, s)
    BY <1>2, <1>4, <2>3, <2>4, <2>7, <2>9 DEF ClaimKept, Waits, Moves
  <2> QED BY <1>1, <2>3, <2>4, <2>7, <2>10, <2>11, <2>12, NothingSent, ClaimedInv
<1>12. CASE /\ WalOccupied(p)
            /\ Become(p, [at |-> "ObservingWalTail", claim |-> claim, seal |-> seal,
                          occupied |-> fence])
            /\ Abandons(At(p, "wal"))
  <2> DEFINE s == [at |-> "ObservingWalTail", claim |-> claim, seal |-> seal, occupied |-> fence]
  <2>1. PICK c \in net : c.by = p /\ c.kind = "wal" /\ c.status # "won" /\ wal[c.key] # None
    BY <1>12 DEF WalOccupied, At
  <2>2. Reached(fence) /\ \A d \in net : d.by = p => d = c
    BY <1>3, <1>6, <1>10, <2>1 DEF Reached
  <2>3. proc' = [proc EXCEPT ![p] = s] /\ proc'[p] = s
    BY <1>12, Becomes
  <2>4. NetStep(p, {}) /\ \A d \in net' : d.by # p
    BY <1>3, <1>12, AbandonKind
  <2>5. StateType(s) /\ s.at = "ObservingWalTail" /\ s.claim = claim /\ s.seal = seal /\ s.occupied = fence
    BY <1>7, <1>8 DEF StateType
  <2> HIDE DEF s
  <2>6. /\ proc'[p].claim = claim /\ proc'[p].seal = seal /\ proc'[p].occupied = fence
        /\ proc'[p].at = "ObservingWalTail"
    BY <2>3, <2>5
  <2>7. LocalBoot(p)'
    <3>1. IsClaim(claim)' /\ seals' = seals /\ Reached(fence)'
      BY <1>1, <1>7, <2>2, QuietFacts DEF Quiet
    <3>2. IsClaim(proc[p].claim)' /\ Reached(proc[p].occupied)'
      BY <3>1, <2>6
    <3> QED BY <1>7, <1>8, <2>6, <3>1, <3>2 DEF LocalBoot
  <2>8. LocalNet(p)'
    <3>1. \A b, d : (IsRun(b, d)' <=> IsRun(b, d)) /\ (IsFence(b, d)' <=> IsFence(b, d))
      BY <1>1, QuietFacts
    <3>2. \A b : (Reached(b)' <=> Reached(b)) /\ (Superseded(b)' <=> Superseded(b))
      BY <1>1, QuietFacts
    <3>3. ASSUME NEW d \in net', d.kind = "wal", d.object.owner = claim
          PROVE  ~SendsRun(d) /\ Reached(d.key)
      <4>1. PICK x \in net : /\ x.kind = d.kind /\ x.key = d.key /\ x.object = d.object
                             /\ x = d \/ x.by = p
        BY <2>4, NetHeirs
      <4>2. ~SendsRun(x)
        BY <3>3, <4>1, <1>2, <1>4, <1>9 DEF LocalNet
      <4>3. CASE x.by = p
        BY <4>1, <4>2, <4>3, <1>3, <1>6, <2>2 DEF SendsRun
      <4>4. CASE x.by # p
        BY <3>3, <4>1, <4>2, <4>4, <1>2, <1>4, <1>9 DEF SendsRun, LocalNet
      <4> QED BY <4>3, <4>4
    <3>4. \A b \in Batches : ~IsRun(b, claim)
      BY <1>2, <1>4, <1>9 DEF LocalNet
    <3>5. \A b \in Batches : IsFence(b, claim) => Superseded(claim)
      BY <1>2, <1>4, <1>9, <2>1, <2>2 DEF LocalNet
    <3>6. /\ \A b \in Batches : ~IsRun(b, proc[p].claim)'
          /\ \A b \in Batches : IsFence(b, proc[p].claim)' => Superseded(proc[p].claim)'
          /\ \A d \in net' : d.kind = "wal" /\ d.object.owner = proc'[p].claim =>
               ~SendsRun(d) /\ Reached(d.key)'
      BY <2>6, <3>1, <3>2, <3>3, <3>4, <3>5
    <3> QED BY <2>6, <3>6 DEF LocalNet, SendsRun
  <2>9. ClaimKept(p) /\ Waits(p) /\ Moves(p, s)
    BY <1>2, <1>4, <2>3, <2>4, <2>5, <2>6 DEF ClaimKept, Waits, Moves
  <2> QED BY <1>1, <2>3, <2>4, <2>5, <2>7, <2>8, <2>9, NothingSent, ClaimedInv
<1>13. CASE Exit(p, "Stopped")
  BY <1>1, <1>13, ExitInv
<1> QED BY <1>4, <1>5, <1>6, <1>11, <1>12, <1>13 DEF FenceEstablished, ObservingWalTail

\* One coordinate is replayed.  The current process meets no anomaly: its suffix
\* has no hole up to its FENCE and its owners are in order.
LEMMA ReplayReadInv ==
  ASSUME PartitionInv, NEW p \in Procs, ReplayRead(p)
  PROVE  PartitionInv'
<1>1. Quiet /\ tables' = tables /\ acked' = acked /\ net' = net /\ proc[p].at = "Replaying"
  BY DEF ReplayRead, Quiet, store, history
<1>2. HoldsClaim(p) /\ PreReady(p) /\ ~PreFence(p) /\ \A d \in net : d.by # p
  BY <1>1, Listening DEF HoldsClaim, PreReady, PreFence
<1>3. PICK s : s = proc[p]
  OBVIOUS
<1>4. PICK object : object = wal[s.next]
  OBVIOUS
<1>5. PICK durable : durable = IF object.kind = "run"
                               THEN s.durable \cup {[batch |-> s.next, owner |-> object.owner]}
                               ELSE s.durable
  OBVIOUS
<1> DEFINE folds == /\ object # None
                    /\ IF object.kind = "fence" THEN object.owner > s.owner
                       ELSE object.owner = s.owner
<1>6. s \in [at : {"Replaying"}, claim : Generations, seal : SealObjects, fence : Batches,
             next : Batches, owner : Owners \cup {0}, durable : SUBSET Runs]
  BY <1>1, <1>3 DEF PartitionInv, Type, StateType
<1>7. /\ s.claim \in Generations /\ IsClaim(s.claim) /\ s.seal = seals[s.claim] /\ s.seal \in SealObjects
      /\ s.seal.cut \in Cuts /\ Newest \in Generations /\ s.claim <= Newest
  BY <1>2, <1>3, Claimant
<1>8. /\ s.fence \in Batches /\ s.next \in Batches /\ s.owner \in Owners \cup {0}
      /\ s.durable \subseteq Runs /\ s.at = "Replaying"
  BY <1>6
<1>9. /\ IsFence(s.fence, s.claim) /\ s.fence < CoordinateMax
      /\ Superseded(s.claim) \/ Top(s.fence, s.claim)
      /\ s.seal.cut < s.next /\ s.next <= s.fence
      /\ Newest = s.claim =>
           s.durable = LandedTo(s.next - 1) /\ s.owner = OwnerBefore(s.next)
  BY <1>1, <1>3 DEF PartitionInv, Local, LocalBoot
<1>10. Newest = s.claim => /\ NewestCut = s.seal.cut /\ s.next > NewestCut
                           /\ wal[s.next] # None
  <2> SUFFICES ASSUME Newest = s.claim
               PROVE  NewestCut = s.seal.cut /\ s.next > NewestCut /\ wal[s.next] # None
    OBVIOUS
  <2>1. NewestCut = s.seal.cut
    BY <1>2, <1>3, CurrentCut
  <2>2. ReachedTo(s.fence)
    BY <1>8, <1>9 DEF PartitionInv, StoreInv, SuffixInv, IsFence, Holds
  <2> QED BY <2>1, <2>2, <1>7, <1>8, <1>9 DEF ReachedTo, Reached
<1>11. Newest = s.claim => folds
  BY <1>4, <1>7, <1>8, <1>9, <1>10, OwnersAreClaims DEF PartitionInv, StoreInv, SuffixInv
<1>12. Newest = s.claim => durable = LandedTo(s.next)
  BY <1>4, <1>5, <1>8, <1>9, <1>10, LandedNext
<1>13. object # None => object \in WalObjects /\ object.owner \in Owners
  BY <1>4, <1>8, OwnersAreClaims
<1>14. object # None => durable \subseteq Runs
  BY <1>5, <1>8, <1>13 DEF Runs
<1>15. CASE ~folds
  <2>1. Newest > proc[p].claim
    BY <1>3, <1>7, <1>11, <1>15
  <2>2. Become(p, [at |-> "RefreshingAnomaly", claim |-> proc[p].claim])
    BY <1>3, <1>4, <1>15 DEF ReplayRead
  <2> QED BY <1>1, <1>2, <2>1, <2>2, AnomalyInv
<1>16. CASE folds /\ s.next = s.fence
  <2> DEFINE t == [at |-> "RefreshingFinal", claim |-> s.claim, seal |-> s.seal,
                   durable |-> durable, durable_batch |-> s.next]
  <2>1. Become(p, t)
    BY <1>3, <1>4, <1>5, <1>16 DEF ReplayRead
  <2>2. proc'[p] = t
    BY <2>1, Becomes
  <2>3. StateType(t) /\ t.at = "RefreshingFinal"
    BY <1>7, <1>8, <1>14, <1>16 DEF StateType
  <2>4. /\ proc'[p].claim = s.claim /\ proc'[p].seal = s.seal /\ proc'[p].durable = durable
        /\ proc'[p].durable_batch = s.next /\ proc'[p].at = "RefreshingFinal"
    BY <2>2
  <2> HIDE DEF t
  <2>5. LocalBoot(p)'
    <3>1. /\ IsClaim(s.claim)' /\ IsFence(s.next, s.claim)' /\ seals' = seals
          /\ Superseded(s.claim)' \/ Top(s.next, s.claim)'
          /\ Newest' = s.claim => durable = LandedTo(s.next)'
      BY <1>1, <1>7, <1>9, <1>12, <1>16, QuietFacts DEF Quiet
    <3>2. /\ IsClaim(proc[p].claim)' /\ IsFence(proc[p].durable_batch, proc[p].claim)'
          /\ Superseded(proc[p].claim)' \/ Top(proc[p].durable_batch, proc[p].claim)'
          /\ Newest' = proc'[p].claim => proc'[p].durable = LandedTo(proc[p].durable_batch)'
      BY <3>1, <2>4
    <3> QED BY <1>7, <1>9, <1>16, <2>4, <3>1, <3>2 DEF LocalBoot
  <2>6. PreReady(p)' => PreReady(p)
    BY <1>2
  <2>7. ~PreFence(p)'
    BY <2>4 DEF PreFence
  <2> QED BY <1>1, <1>2, <1>3, <2>1, <2>3, <2>4, <2>5, <2>6, <2>7, BootStepInv
<1>17. CASE folds /\ s.next # s.fence
  <2> DEFINE t == [s EXCEPT !.next = s.next + 1, !.owner = object.owner, !.durable = durable]
  <2>1. Become(p, t)
    BY <1>3, <1>4, <1>5, <1>17 DEF ReplayRead
  <2>2. proc'[p] = t
    BY <2>1, Becomes
  <2>3. s.next + 1 \in Batches /\ s.next + 1 <= s.fence /\ (s.next + 1) - 1 = s.next
    BY <1>8, <1>9, <1>17
  <2>4. t \in [at : {"Replaying"}, claim : Generations, seal : SealObjects, fence : Batches,
               next : Batches, owner : Owners \cup {0}, durable : SUBSET Runs]
    BY <1>6, <1>13, <1>14, <1>17, <2>3
  <2>5. StateType(t) /\ t.at = "Replaying"
    BY <2>4 DEF StateType
  <2>6. /\ proc'[p].claim = s.claim /\ proc'[p].seal = s.seal /\ proc'[p].durable = durable
        /\ proc'[p].fence = s.fence /\ proc'[p].next = s.next + 1 /\ proc'[p].owner = object.owner
        /\ proc'[p].at = "Replaying"
    BY <2>2, <1>6
  <2> HIDE DEF t
  <2>7. Newest = s.claim => object.owner = OwnerBefore(s.next + 1)
    BY <1>4, <1>10, <2>3 DEF OwnerBefore
  <2>8. LocalBoot(p)'
    <3>1. /\ IsClaim(s.claim)' /\ IsFence(s.fence, s.claim)' /\ seals' = seals
          /\ Superseded(s.claim)' \/ Top(s.fence, s.claim)'
          /\ Newest' = s.claim =>
               durable = LandedTo((s.next + 1) - 1)' /\ object.owner = OwnerBefore(s.next + 1)'
      BY <1>1, <1>7, <1>9, <1>12, <2>3, <2>7, QuietFacts DEF Quiet
    <3>2. /\ IsClaim(proc[p].claim)' /\ IsFence(proc[p].fence, proc[p].claim)'
          /\ Superseded(proc[p].claim)' \/ Top(proc[p].fence, proc[p].claim)'
          /\ Newest' = proc'[p].claim =>
               /\ proc'[p].durable = LandedTo(proc[p].next - 1)'
               /\ proc'[p].owner = OwnerBefore(proc[p].next)'
      BY <3>1, <2>6
    <3>3. proc'[p].seal.cut < proc'[p].next /\ proc'[p].next <= proc'[p].fence
      BY <1>7, <1>8, <1>9, <2>3, <2>6
    <3> QED BY <1>7, <1>9, <2>6, <3>1, <3>2, <3>3 DEF LocalBoot
  <2>9. PreReady(p)' => PreReady(p)
    BY <1>2
  <2>10. ~PreFence(p)'
    BY <2>6 DEF PreFence
  <2> QED BY <1>1, <1>2, <1>3, <2>1, <2>5, <2>6, <2>8, <2>9, <2>10, BootStepInv
<1> QED BY <1>15, <1>16, <1>17

\* An anomaly ends the process.
LEMMA AnomalyRefreshedInv ==
  ASSUME PartitionInv, NEW p \in Procs, AnomalyRefreshed(p)
  PROVE  PartitionInv'
<1>1. Quiet /\ tables' = tables /\ acked' = acked
  BY DEF AnomalyRefreshed, Quiet, store, history
<1>2. PICK reason : Exit(p, reason)
  BY DEF AnomalyRefreshed
<1> QED BY <1>1, <1>2, ExitInv

\* A step of a Ready process.
LEMMA ReadyStepInv ==
  ASSUME PartitionInv, NEW p \in Procs, NEW s, NEW new, Become(p, s), StateType(s), s.at = "Ready",
         HoldsClaim(p), s.claim = proc[p].claim,
         LocalReady(p)', LocalCollector(p)',
         s.flight \/ \A d \in net' : SendsRun(d) => d.object.owner # s.claim,
         Quiet, tables' \subseteq Tables, HeadInv',
         \A c \in net : c.kind = "seal" /\ seals[c.key] = None => c.object.tables \subseteq tables',
         acked' \subseteq landed, NetStep(p, new), Sent(p, new), Waits(p)
  PROVE  PartitionInv'
<1>1. proc' = [proc EXCEPT ![p] = s] /\ proc'[p] = s
  BY Becomes
<1>2. ClaimKept(p) /\ Moves(p, s) /\ ~PreReady(p)' /\ ~PreFence(p)'
  BY <1>1 DEF ClaimKept, Moves, PreReady, PreFence
<1>3. IsClaim(proc[p].claim)'
  <2>1. \A c : IsClaim(c)' <=> IsClaim(c)
    BY QuietFacts
  <2>2. IsClaim(s.claim)
    BY Claimant
  <2> QED BY <1>1, <2>1, <2>2
<1>4. LocalBoot(p)'
  BY <1>1, <1>2, <1>3 DEF LocalBoot
<1>5. LocalNet(p)'
  BY <1>1, <1>2 DEF LocalNet
<1>6. ProcStep(p, new)
  BY <1>2, <1>4, <1>5 DEF ProcStep, Local
<1> QED BY <1>6, ProcStepInv

-----------------------------------------------------------------------------
(* The steps of a Ready process. *)

ReadyState ==
    [at : {"Ready"}, claim : Generations, generation : Generations,
     seal : SealObjects, durable : SUBSET Runs, durable_batch : Batches,
     flight : BOOLEAN, checkpoint : SealObjects \cup {None},
     collector : Collections \cup {None}]

\* LocalReady and LocalCollector, of a state.
ReadyKnows(s) ==
    /\ s.claim <= s.generation /\ seals[s.generation] # None
    /\ s.seal = seals[s.generation] /\ Authors(s.claim, s.generation)
    /\ s.durable_batch < CoordinateMax /\ s.seal.cut <= s.durable_batch
    /\ \E b \in Batches : b <= s.durable_batch /\ IsFence(b, s.claim)
    /\ ReachedTo(s.durable_batch)
    /\ s.durable_batch > NewestCut =>
         wal[s.durable_batch] # None /\ wal[s.durable_batch].owner = s.claim
    /\ s.durable = LandedTo(s.durable_batch)
    /\ \A run \in landed : run.owner < s.claim => run.batch <= s.durable_batch
    /\ s.checkpoint # None =>
         s.seal.cut < s.checkpoint.cut /\ s.checkpoint.cut <= s.durable_batch
    /\ ~s.flight => Slot(s.durable_batch + 1, s.claim)

CollectorKnows(s) ==
    s.collector # None =>
        /\ seals[s.claim].cut < s.collector.next /\ s.collector.cut <= s.seal.cut
        /\ s.collector.cut < CoordinateMax
        /\ s.collector.proof => /\ s.collector.next <= s.collector.cut
                                /\ wal[s.collector.next] # None
                                /\ wal[s.collector.next].kind = "run"
        /\ \A t \in s.collector.tables :
             /\ t.birth <= s.generation
             /\ \A g \in Generations : g >= s.generation /\ seals[g] # None => t \notin seals[g].tables

\* What a Ready process knows.
LEMMA ReadyFacts ==
  ASSUME PartitionInv, NEW p \in Procs, IsReady(p)
  PROVE  /\ proc[p] \in ReadyState /\ ReadyKnows(proc[p]) /\ CollectorKnows(proc[p])
         /\ HoldsClaim(p) /\ proc[p].at = "Ready"
         /\ proc[p].claim \in Generations /\ IsClaim(proc[p].claim)
         /\ seals[proc[p].claim].cut \in Cuts
         /\ seals[proc[p].claim].cut <= seals[proc[p].generation].cut
         /\ proc[p].seal.cut \in Cuts /\ proc[p].seal.cut <= NewestCut /\ NewestCut \in Cuts
         /\ proc[p].generation \in Generations /\ proc[p].generation <= Newest /\ Newest \in Generations
         /\ proc[p].durable_batch \in Batches /\ proc[p].seal \in SealObjects
         /\ ~proc[p].flight => \A d \in net : SendsRun(d) => d.object.owner # proc[p].claim
<1>1. proc[p].at = "Ready" /\ HoldsClaim(p)
  BY DEF IsReady, HoldsClaim
<1>2. proc[p] \in ReadyState
  BY <1>1 DEF PartitionInv, Type, StateType, ReadyState
<1>3. ReadyKnows(proc[p]) /\ CollectorKnows(proc[p])
  BY <1>1 DEF PartitionInv, Local, LocalReady, LocalCollector, ReadyKnows, CollectorKnows
<1>4. /\ proc[p].claim \in Generations /\ IsClaim(proc[p].claim)
      /\ seals[proc[p].claim].cut \in Cuts /\ Newest \in Generations /\ NewestCut \in Cuts
  BY <1>1, Claimant
<1>5. /\ proc[p].generation \in Generations /\ proc[p].durable_batch \in Batches
      /\ proc[p].seal \in SealObjects /\ proc[p].seal.cut \in Cuts
  BY <1>2 DEF ReadyState, SealObjects
<1>6. /\ proc[p].claim <= proc[p].generation /\ seals[proc[p].generation] # None
      /\ proc[p].seal = seals[proc[p].generation]
  BY <1>3 DEF ReadyKnows
<1>7. proc[p].generation <= Newest /\ proc[p].seal.cut <= NewestCut
  BY <1>5, <1>6, HeadFacts DEF PartitionInv, Type, StoreInv
<1>8. seals[proc[p].claim].cut <= seals[proc[p].generation].cut
  BY <1>4, <1>5, <1>6 DEF PartitionInv, StoreInv, SealsInv
<1>9. ~proc[p].flight => \A d \in net : SendsRun(d) => d.object.owner # proc[p].claim
  BY <1>1 DEF PartitionInv, Local, LocalNet
<1> QED BY <1>1, <1>2, <1>3, <1>4, <1>5, <1>7, <1>8, <1>9

\* The state that a Ready process takes on, when the store has not moved.
LEMMA ReadyNext ==
  ASSUME PartitionInv, NEW p \in Procs, NEW s \in ReadyState, Become(p, s), Quiet,
         ReadyKnows(s), CollectorKnows(s)
  PROVE  StateType(s) /\ s.at = "Ready" /\ proc'[p] = s /\ LocalReady(p)' /\ LocalCollector(p)'
<1>1. proc'[p] = s
  BY Becomes
<1>2. s.at = "Ready" /\ StateType(s)
  BY DEF ReadyState, StateType
<1>3. ReadyKnows(s)'
  BY QuietFacts DEF ReadyKnows, Quiet
<1>4. CollectorKnows(s)'
  BY QuietFacts DEF CollectorKnows, Quiet
<1>5. LocalReady(p)'
  BY <1>1, <1>3 DEF ReadyKnows, LocalReady
<1>6. LocalCollector(p)'
  BY <1>1, <1>4 DEF CollectorKnows, LocalCollector
<1> QED BY <1>1, <1>2, <1>5, <1>6

\* A step of a Ready process that leaves the tables and the replies alone.
LEMMA WriterStepInv ==
  ASSUME PartitionInv, NEW p \in Procs, NEW s \in ReadyState, NEW new, Become(p, s),
         HoldsClaim(p), s.claim = proc[p].claim, ReadyKnows(s), CollectorKnows(s),
         s.flight \/ \A d \in net' : SendsRun(d) => d.object.owner # s.claim,
         Quiet, tables' = tables, acked' \subseteq landed,
         NetStep(p, new), Sent(p, new), Waits(p)
  PROVE  PartitionInv'
<1>1. StateType(s) /\ s.at = "Ready" /\ LocalReady(p)' /\ LocalCollector(p)'
  BY ReadyNext
<1>2. /\ tables' \subseteq Tables /\ HeadInv'
      /\ \A c \in net : c.kind = "seal" /\ seals[c.key] = None => c.object.tables \subseteq tables'
  BY QuietTables
<1> QED BY <1>1, <1>2, ReadyStepInv

\* The claim is the newest Seal: the process becomes Ready with everything that
\* ever landed, and the next coordinate is its own.
LEMMA FinalRefreshedInv ==
  ASSUME PartitionInv, NEW p \in Procs, FinalRefreshed(p)
  PROVE  PartitionInv'
<1>1. Quiet /\ tables' = tables /\ acked' = acked /\ proc[p].at = "RefreshingFinal"
  BY DEF FinalRefreshed, Quiet, store, history
<1>2. CASE ~IsCurrent(p)
  <2>1. PICK reason : Exit(p, reason)
    BY <1>2 DEF FinalRefreshed
  <2> QED BY <1>1, <2>1, ExitInv
<1>3. CASE IsCurrent(p)
  <2>1. PICK r : r = proc[p]
    OBVIOUS
  <2> DEFINE s == [at |-> "Ready", claim |-> r.claim, generation |-> r.claim,
                   seal |-> r.seal, durable |-> r.durable, durable_batch |-> r.durable_batch,
                   flight |-> FALSE, checkpoint |-> None, collector |-> None]
  <2>2. Become(p, s) /\ net' = net
    BY <1>3, <2>1 DEF FinalRefreshed, Ready
  <2>3. HoldsClaim(p) /\ PreReady(p) /\ \A d \in net : d.by # p
    BY <1>1, Listening DEF HoldsClaim, PreReady
  <2>4. /\ r.claim \in Generations /\ IsClaim(r.claim) /\ r.seal = seals[r.claim]
        /\ r.seal \in SealObjects /\ r.seal.cut \in Cuts /\ NewestCut \in Cuts
    BY <2>1, <2>3, Claimant
  <2>5. Newest = r.claim /\ NewestCut = r.seal.cut
    BY <1>3, <2>1, <2>3, CurrentCut DEF IsCurrent
  <2>6. /\ r.durable \subseteq Runs /\ r.durable_batch \in Batches
        /\ IsFence(r.durable_batch, r.claim) /\ r.durable_batch < CoordinateMax
        /\ Superseded(r.claim) \/ Top(r.durable_batch, r.claim)
        /\ r.seal.cut < r.durable_batch
        /\ r.durable = LandedTo(r.durable_batch)
    BY <1>1, <2>1, <2>5 DEF PartitionInv, Type, StateType, Local, LocalBoot
  <2>7. ~Superseded(r.claim) /\ Top(r.durable_batch, r.claim)
    BY <2>4, <2>5, <2>6, OwnersAreClaims
  <2>8. LocalNet(p)
    BY DEF PartitionInv, Local
  <2>9. /\ \A b \in Batches : ~IsRun(b, r.claim)
        /\ \A d \in net : SendsRun(d) => d.object.owner # r.claim
    BY <2>1, <2>3, <2>8 DEF LocalNet
  <2>10. \A b \in Batches : b > r.durable_batch => wal[b] = None
    BY <2>4, <2>6, <2>7, <2>9 DEF PartitionInv, StoreInv, TopInv
  <2>11. s \in ReadyState
    BY <2>4, <2>6 DEF ReadyState
  <2>12. /\ s.at = "Ready" /\ s.claim = r.claim /\ s.generation = r.claim /\ s.seal = r.seal
         /\ s.durable = r.durable /\ s.durable_batch = r.durable_batch /\ s.flight = FALSE
         /\ s.checkpoint = None /\ s.collector = None
    OBVIOUS
  <2> HIDE DEF s
  <2>13. ReadyKnows(s)
    <3>1. seals[r.claim] # None /\ Authors(r.claim, r.claim)
      BY <2>4 DEF IsClaim, Authors
    <3>2. wal[r.durable_batch] # None /\ wal[r.durable_batch].owner = r.claim
      BY <2>6 DEF IsFence, Holds
    <3>3. ReachedTo(r.durable_batch)
      BY <2>6, <3>2 DEF PartitionInv, StoreInv, SuffixInv
    <3>4. ASSUME NEW run \in landed, run.owner < r.claim PROVE run.batch <= r.durable_batch
      <4>1. run.batch \in Batches
        BY DEF PartitionInv, Type, TypeOK, Runs
      <4>2. run.batch <= NewestCut \/ wal[run.batch] # None
        BY DEF PartitionInv, StoreInv, LandedInv, IsRun, Holds
      <4> QED BY <4>1, <4>2, <2>4, <2>5, <2>6, <2>10
    <3>5. Slot(r.durable_batch + 1, r.claim)
      <4>1. r.durable_batch + 1 \in Batches /\ r.durable_batch + 1 > NewestCut
        BY <2>4, <2>5, <2>6
      <4>2. wal[r.durable_batch + 1] = None
        BY <2>6, <2>10, <4>1
      <4> QED BY <4>1, <4>2, <2>7 DEF Slot
    <3>6. \E b \in Batches : b <= r.durable_batch /\ IsFence(b, r.claim)
      BY <2>6
    <3>7. r.claim <= r.claim /\ r.seal.cut <= r.durable_batch
      BY <2>4, <2>6
    <3> QED BY <2>4, <2>6, <2>12, <3>1, <3>2, <3>3, <3>4, <3>5, <3>6, <3>7 DEF ReadyKnows
  <2>14. CollectorKnows(s)
    BY <2>12 DEF CollectorKnows
  <2>15. Waits(p) /\ NetStep(p, {}) /\ Sent(p, {})
    BY <2>2, <2>3, NothingSent DEF Waits
  <2>16. \A d \in net' : SendsRun(d) => d.object.owner # s.claim
    BY <2>2, <2>9, <2>12
  <2>17. acked' \subseteq landed
    BY <1>1 DEF PartitionInv
  <2> QED
    BY <1>1, <2>1, <2>2, <2>3, <2>11, <2>12, <2>13, <2>14, <2>15, <2>16, <2>17, WriterStepInv
<1> QED BY <1>2, <1>3

\* A RUN is sent to the coordinate after the head.
LEMMA DrainPendingInv ==
  ASSUME PartitionInv, NEW p \in Procs, DrainPending(p)
  PROVE  PartitionInv'
<1>1. /\ Quiet /\ tables' = tables /\ acked' = acked /\ IsReady(p) /\ ~proc[p].flight
      /\ acked' \subseteq landed
  BY DEF DrainPending, Quiet, store, history, PartitionInv
<1>2. PICK r : r = proc[p]
  OBVIOUS
<1>3. /\ r \in ReadyState /\ ReadyKnows(r) /\ CollectorKnows(r) /\ HoldsClaim(p)
      /\ r.claim \in Generations /\ IsClaim(r.claim) /\ r.at = "Ready"
      /\ seals[r.claim].cut <= seals[r.generation].cut /\ seals[r.claim].cut \in Cuts
      /\ r.seal.cut \in Cuts /\ r.durable_batch \in Batches /\ ~r.flight
      /\ \A d \in net : SendsRun(d) => d.object.owner # r.claim
  BY <1>1, <1>2, ReadyFacts
<1> DEFINE s == [r EXCEPT !.flight = TRUE]
           e == Create(p, "wal", r.durable_batch + 1, Wal("run", r.claim))
<1>4. Become(p, s) /\ net' = net \cup {e} /\ NetStep(p, {e})
  BY <1>2, SendNet DEF DrainPending, Run
<1>5. r.durable_batch + 1 < CoordinateMax /\ r.durable_batch + 1 \in Batches
  BY <1>2, <1>3 DEF DrainPending, Run, RunLeavesTakeoverRoom, HasSuccessor
<1>6. /\ e.by = p /\ e.kind = "wal" /\ e.key = r.durable_batch + 1 /\ e.status = "sent"
      /\ e.object = Wal("run", r.claim) /\ e.object.kind = "run" /\ e.object.owner = r.claim
      /\ e \in WalCreates
  BY <1>3, <1>5 DEF Create, WalCreates, Wal, WalObjects
<1>7. s \in ReadyState
  BY <1>3 DEF ReadyState
<1>8. /\ s.at = "Ready" /\ s.claim = r.claim /\ s.generation = r.generation /\ s.seal = r.seal
      /\ s.durable = r.durable /\ s.durable_batch = r.durable_batch /\ s.flight = TRUE
      /\ s.checkpoint = r.checkpoint /\ s.collector = r.collector
  BY <1>3 DEF ReadyState
<1> HIDE DEF s, e
<1>9. WalCreateOk(e)'
  <2>1. /\ Slot(r.durable_batch + 1, r.claim) /\ ReachedTo(r.durable_batch)
        /\ \E f \in Batches : IsFence(f, r.claim)
        /\ r.seal = seals[r.generation] /\ r.seal.cut <= r.durable_batch
    BY <1>3 DEF ReadyKnows
  <2>2. seals[r.claim].cut < r.durable_batch + 1 /\ (r.durable_batch + 1) - 1 = r.durable_batch
    BY <1>3, <2>1
  <2>3. /\ IsClaim(r.claim)' /\ Slot(r.durable_batch + 1, r.claim)'
        /\ ReachedTo((r.durable_batch + 1) - 1)' /\ \E f \in Batches : IsFence(f, r.claim)'
        /\ seals' = seals
    BY <1>1, <1>3, <2>1, <2>2, QuietFacts DEF Quiet
  <2> QED BY <1>5, <1>6, <2>2, <2>3 DEF WalCreateOk
<1>10. \A d \in net : d.by = p => d.kind # "wal"
  BY <1>2, <1>3, Listening
<1>11. Sendable(p, e)
  BY <1>2, <1>3, <1>6, <1>9, <1>10 DEF Sendable
<1>12. ReadyKnows(s) /\ CollectorKnows(s)
  BY <1>3, <1>8 DEF ReadyKnows, CollectorKnows
<1>13. Waits(p)
  <2> SUFFICES ASSUME NEW d \in net', d.by = p PROVE Awaited(d)'
    BY DEF Waits
  <2>0. proc'[p] = s
    BY <1>4, Becomes
  <2>1. CASE d = e
    BY <2>0, <2>1, <1>6, <1>8 DEF Awaited
  <2>2. CASE d \in net
    <3>1. /\ d.kind = "seal" /\ r.checkpoint # None
          /\ d.key = r.generation + 1 /\ d.object = r.checkpoint
      BY <2>2, <1>2, <1>3, <1>10, Listening
    <3> QED BY <2>0, <3>1, <1>8 DEF Awaited
  <2> QED BY <2>1, <2>2, <1>4
<1> QED
  BY <1>1, <1>2, <1>3, <1>4, <1>7, <1>8, <1>11, <1>12, <1>13, OneSent, WriterStepInv

\* The RUN is durable: it joins the forest and its replies are released.
LEMMA RunEstablishedInv ==
  ASSUME PartitionInv, NEW p \in Procs, RunEstablished(p)
  PROVE  PartitionInv'
<1>1. Quiet /\ tables' = tables /\ IsReady(p) /\ proc[p].flight
  BY DEF RunEstablished, Quiet, store
<1>2. CASE Exit(p, "Fenced") /\ acked' = acked
  BY <1>1, <1>2, ExitInv
<1>3. CASE Exit(p, "Stopped") /\ acked' = acked
  BY <1>1, <1>3, ExitInv
<1>4. CASE /\ WalDurable(p)
           /\ Become(p, [proc[p] EXCEPT !.flight = FALSE, !.durable = @ \cup {Run(p)},
                                        !.durable_batch = @ + 1])
           /\ acked' = acked \cup {Run(p)}
           /\ Abandons(At(p, "wal"))
  <2>1. PICK r : r = proc[p]
    OBVIOUS
  <2>2. /\ r \in ReadyState /\ ReadyKnows(r) /\ CollectorKnows(r) /\ HoldsClaim(p)
        /\ r.claim \in Generations /\ IsClaim(r.claim) /\ r.at = "Ready"
        /\ r.seal.cut \in Cuts /\ r.durable_batch \in Batches /\ NewestCut \in Cuts
    BY <1>1, <2>1, ReadyFacts
  <2>3. PICK run : run = [batch |-> r.durable_batch + 1, owner |-> r.claim]
    OBVIOUS
  <2>4. run = Run(p)
    BY <2>1, <2>3 DEF Run
  <2> DEFINE s == [r EXCEPT !.flight = FALSE, !.durable = r.durable \cup {run},
                            !.durable_batch = r.durable_batch + 1]
  <2>5. Become(p, s)
    BY <1>4, <2>1, <2>4
  <2>6. PICK c \in net : c.by = p /\ c.kind = "wal" /\ c.status = "won"
    BY <1>4 DEF WalDurable, Stands, At
  <2>7. /\ c.key = r.durable_batch + 1 /\ c.object = Wal("run", r.claim)
        /\ c.object.kind = "run" /\ c.object.owner = r.claim
        /\ WalCreateOk(c)
    <3>1. c.key = r.durable_batch + 1 /\ c.object = Wal("run", r.claim) /\ WalCreateOk(c)
      BY <2>1, <2>2, <2>6, Listening
    <3> QED BY <3>1 DEF Wal
  <2>8. /\ r.durable_batch + 1 < CoordinateMax /\ run \in landed
        /\ ReachedTo(r.durable_batch + 1) /\ Slot((r.durable_batch + 1) + 1, r.claim)
        /\ r.durable_batch + 1 > NewestCut => wal[r.durable_batch + 1] = c.object
    BY <2>3, <2>6, <2>7 DEF WalCreateOk
  <2>9. run \in Runs /\ r.durable_batch + 1 \in Batches
    BY <2>2, <2>3, <2>8 DEF Runs
  <2>10. s \in ReadyState
    BY <2>2, <2>9 DEF ReadyState
  <2>11. /\ s.at = "Ready" /\ s.claim = r.claim /\ s.generation = r.generation /\ s.seal = r.seal
         /\ s.durable = r.durable \cup {run} /\ s.durable_batch = r.durable_batch + 1
         /\ s.flight = FALSE /\ s.checkpoint = r.checkpoint /\ s.collector = r.collector
    BY <2>2 DEF ReadyState
  <2> HIDE DEF s
  <2>12. LandedTo(r.durable_batch + 1) = LandedTo(r.durable_batch) \cup {run}
    <3>1. \A x \in landed : x.batch \in Batches /\ (x.batch = r.durable_batch + 1 => x = run)
      BY <2>3, <2>8 DEF PartitionInv, Type, TypeOK, Runs, StoreInv, LandedInv
    <3>2. \A x \in landed : x.batch <= r.durable_batch + 1 <=>
                              x.batch <= r.durable_batch \/ x.batch = r.durable_batch + 1
      BY <2>2, <3>1
    <3>3. run.batch = r.durable_batch + 1
      BY <2>3
    <3> QED BY <2>8, <3>1, <3>2, <3>3 DEF LandedTo
  <2>13. ReadyKnows(s)
    <3>1. /\ r.claim <= r.generation /\ seals[r.generation] # None
          /\ r.seal = seals[r.generation] /\ Authors(r.claim, r.generation)
          /\ r.seal.cut <= r.durable_batch
          /\ \E b \in Batches : b <= r.durable_batch /\ IsFence(b, r.claim)
          /\ r.durable = LandedTo(r.durable_batch)
          /\ \A x \in landed : x.owner < r.claim => x.batch <= r.durable_batch
          /\ r.checkpoint # None =>
               r.seal.cut < r.checkpoint.cut /\ r.checkpoint.cut <= r.durable_batch
      BY <2>2 DEF ReadyKnows
    <3>2. r.seal.cut <= r.durable_batch + 1
      BY <2>2, <3>1
    <3>3. \E b \in Batches : b <= r.durable_batch + 1 /\ IsFence(b, r.claim)
      BY <2>2, <3>1
    <3>4. \A x \in landed : x.owner < r.claim => x.batch <= r.durable_batch + 1
      <4>1. \A x \in landed : x.batch \in Batches
        BY DEF PartitionInv, Type, TypeOK, Runs
      <4> QED BY <4>1, <2>2, <3>1
    <3>5. r.checkpoint # None => r.checkpoint.cut <= r.durable_batch + 1
      <4>1. r.checkpoint # None => r.checkpoint.cut \in Cuts
        BY <2>2 DEF ReadyState, SealObjects
      <4> QED BY <4>1, <2>2, <3>1
    <3>6. r.durable_batch + 1 > NewestCut =>
            wal[r.durable_batch + 1] # None /\ wal[r.durable_batch + 1].owner = r.claim
      <4>1. c.object # None
        BY <2>7, <2>6, Listening, PartitionAssumption DEF WalCreates
      <4> QED BY <4>1, <2>7, <2>8
    <3> QED BY <2>8, <2>11, <2>12, <3>1, <3>2, <3>3, <3>4, <3>5, <3>6 DEF ReadyKnows
  <2>14. CollectorKnows(s)
    BY <2>2, <2>11 DEF CollectorKnows
  <2>15. /\ NetStep(p, {}) /\ Sent(p, {}) /\ \A d \in net' : d.by = p => d \in net /\ d.kind # "wal"
         /\ \A d \in net : d.by = p /\ d.kind = "wal" => d \notin net'
    BY <1>4, AbandonKind, NothingSent
  <2>16. Waits(p)
    <3> SUFFICES ASSUME NEW d \in net', d.by = p PROVE Awaited(d)'
      BY DEF Waits
    <3>1. d \in net /\ d.kind # "wal"
      BY <2>15
    <3>2. /\ d.kind = "seal" /\ r.checkpoint # None
          /\ d.key = r.generation + 1 /\ d.object = r.checkpoint
      BY <3>1, <2>1, <2>2, Listening
    <3>3. proc'[p] = s
      BY <2>5, Becomes
    <3> QED BY <3>2, <3>3, <2>11 DEF Awaited
  <2>17. ASSUME NEW d \in net', SendsRun(d) PROVE d.object.owner # s.claim
    <3>1. PICK x \in net : /\ x.kind = d.kind /\ x.object = d.object
                           /\ x = d \/ (x.by = p /\ x.status = "sent")
      BY <2>15, NetHeirs
    <3>2. x.object.owner = r.claim => x = c
      BY <3>1, <2>6, <2>7, <2>17 DEF PartitionInv, UniqueInv, SendsRun
    <3>3. x # c
      BY <3>1, <2>6, <2>15
    <3> QED BY <3>1, <3>2, <3>3, <2>11
  <2>18. acked' \subseteq landed
    BY <1>4, <2>4, <2>8 DEF PartitionInv
  <2> QED
    BY <1>1, <2>1, <2>2, <2>5, <2>10, <2>11, <2>13, <2>14, <2>15, <2>16, <2>17, <2>18, WriterStepInv
<1> QED BY <1>2, <1>3, <1>4 DEF RunEstablished

\* A checkpoint is sent: it selects what landed up to the head.
LEMMA CheckpointInv ==
  ASSUME PartitionInv, NEW p \in Procs, NEW full \in BOOLEAN, Checkpoint(p, full)
  PROVE  PartitionInv'
<1>1. Quiet /\ acked' \subseteq landed /\ IsReady(p) /\ proc[p].checkpoint = None
  BY DEF Checkpoint, Quiet, history, PartitionInv
<1>2. PICK r : r = proc[p]
  OBVIOUS
<1>3. /\ r \in ReadyState /\ ReadyKnows(r) /\ CollectorKnows(r) /\ HoldsClaim(p)
      /\ r.claim \in Generations /\ IsClaim(r.claim) /\ r.at = "Ready"
      /\ r.generation \in Generations /\ r.generation <= Newest /\ Newest \in Generations
      /\ r.seal \in SealObjects /\ r.seal.cut \in Cuts /\ r.durable_batch \in Batches
      /\ ~r.flight => \A d \in net : SendsRun(d) => d.object.owner # r.claim
  BY <1>1, <1>2, ReadyFacts
<1>4. PICK carried : carried = IF full THEN {} ELSE r.seal.tables
  OBVIOUS
<1>5. PICK rows : rows = r.durable \ Content(carried)
  OBVIOUS
<1>6. PICK fresh : fresh = IF rows = {} THEN {}
                           ELSE {[birth |-> r.generation + 1, claim |-> r.claim, rows |-> rows]}
  OBVIOUS
<1>7. PICK successor : successor = Seal(r.durable_batch, r.claim, carried \cup fresh)
  OBVIOUS
<1> DEFINE s == [r EXCEPT !.checkpoint = successor]
           e == Create(p, "seal", r.generation + 1, successor)
<1>8. /\ SpanThrough(r.seal.cut, r.durable_batch) >= Trigger
      /\ r.generation + 1 \in Generations /\ tables' = tables \cup fresh
      /\ Become(p, s) /\ Sends(p, "seal", r.generation + 1, successor)
  BY <1>2, <1>4, <1>5, <1>6, <1>7 DEF Checkpoint, CheckpointCut
<1>9. NetStep(p, {e}) /\ net' = net \cup {e}
  BY <1>8, SendNet
<1>10. /\ r.seal.cut < r.durable_batch /\ r.generation + 1 > 1
       /\ r.claim < r.generation + 1 /\ (r.generation + 1) - 1 = r.generation
  BY <1>3, <1>8, SuffixAssumption DEF SpanThrough, ReadyKnows
<1>11. /\ r.seal.tables \subseteq Tables /\ carried \subseteq r.seal.tables
       /\ r.durable \subseteq Runs /\ rows \subseteq Runs
  BY <1>3, <1>4, <1>5 DEF SealObjects, ReadyState
<1>12. fresh \subseteq Tables /\ \A t \in fresh : t.birth = r.generation + 1
  BY <1>3, <1>6, <1>8, <1>11 DEF Tables
<1>13. /\ successor.cut = r.durable_batch /\ successor.owner = r.claim
       /\ successor.tables = carried \cup fresh /\ successor \in SealObjects
  BY <1>3, <1>7, <1>11, <1>12 DEF Seal, SealObjects
<1>14. /\ e.by = p /\ e.kind = "seal" /\ e.key = r.generation + 1 /\ e.status = "sent"
       /\ e.object = successor /\ e \in SealCreates
  BY <1>8, <1>13 DEF Create, SealCreates
<1>15. s \in ReadyState
  BY <1>3, <1>13 DEF ReadyState
<1>16. /\ s.at = "Ready" /\ s.claim = r.claim /\ s.generation = r.generation /\ s.seal = r.seal
       /\ s.durable = r.durable /\ s.durable_batch = r.durable_batch /\ s.flight = r.flight
       /\ s.checkpoint = successor /\ s.collector = r.collector
  BY <1>3 DEF ReadyState
<1> HIDE DEF s, e
<1>17. successor # None
  BY <1>13, PartitionAssumption
<1>18. ReadyKnows(s) /\ CollectorKnows(s)
  <2>1. ReadyKnows(s)
    BY <1>3, <1>10, <1>13, <1>16 DEF ReadyKnows
  <2> QED BY <2>1, <1>3, <1>16 DEF CollectorKnows
<1>19. Content(carried \cup fresh) = LandedTo(r.durable_batch)
  <2>1. r.durable = LandedTo(r.durable_batch)
    BY <1>3 DEF ReadyKnows
  <2>2. Content(carried) \subseteq r.durable
    <3>1. CASE full
      BY <3>1, <1>4 DEF Content
    <3>2. CASE ~full
      <4>1. carried = r.seal.tables /\ r.seal = seals[r.generation] /\ seals[r.generation] # None
        BY <3>2, <1>3, <1>4 DEF ReadyKnows
      <4>2. Content(carried) = LandedTo(r.seal.cut)
        BY <4>1, <1>3 DEF PartitionInv, StoreInv, ContentInv, SealContent
      <4>3. \A run \in landed : run.batch \in Batches
        BY DEF PartitionInv, Type, TypeOK, Runs
      <4>4. LandedTo(r.seal.cut) \subseteq LandedTo(r.durable_batch)
        BY <4>3, <1>3, <1>10 DEF LandedTo
      <4> QED BY <2>1, <4>2, <4>4
    <3> QED BY <3>1, <3>2
  <2>3. Content(carried \cup fresh) = Content(carried) \cup Content(fresh)
    BY DEF Content
  <2>4. Content(fresh) = rows
    <3>1. CASE rows = {}
      BY <3>1, <1>6 DEF Content
    <3>2. CASE rows # {}
      <4>0. PICK t : t = [birth |-> r.generation + 1, claim |-> r.claim, rows |-> rows]
        OBVIOUS
      <4>1. fresh = {t}
        BY <3>2, <4>0, <1>6
      <4>2. t.rows = rows
        BY <4>0
      <4>3. {u.rows : u \in fresh} = {rows}
        BY <4>1, <4>2
      <4> QED BY <4>3 DEF Content
    <3> QED BY <3>1, <3>2
  <2> QED BY <2>1, <2>2, <2>3, <2>4, <1>5
<1>20. SealCreateOk(e)'
  <2>1. SuccessorOk(r.generation + 1, successor)
    <3>1. /\ seals[r.generation] # None /\ r.seal = seals[r.generation]
          /\ Authors(r.claim, r.generation)
          /\ \E b \in Batches : IsFence(b, r.claim)
          /\ r.durable_batch > NewestCut =>
               wal[r.durable_batch] # None /\ wal[r.durable_batch].owner = r.claim
      BY <1>3 DEF ReadyKnows
    <3>2. \A t \in successor.tables : t \in seals[r.generation].tables \/ t.birth = r.generation + 1
      BY <1>11, <1>12, <1>13, <3>1
    <3> QED BY <1>3, <1>10, <1>13, <3>1, <3>2 DEF SuccessorOk
  <2>2. ReachedTo(r.durable_batch)
    BY <1>3 DEF ReadyKnows
  <2>3. seals[r.generation + 1] = None => r.seal.tables \subseteq tables
    <3> SUFFICES ASSUME seals[r.generation + 1] = None PROVE r.seal.tables \subseteq tables
      OBVIOUS
    <3>1. \A h \in Generations : h <= Newest => seals[h] # None
      BY HeadFacts DEF PartitionInv, Type, StoreInv
    <3>2. Newest = r.generation
      BY <3>1, <1>3, <1>8
    <3>3. r.seal = seals[Newest]
      BY <3>2, <1>3 DEF ReadyKnows
    <3> QED BY <3>3, <1>3 DEF PartitionInv, StoreInv, HeadInv
  <2>4. seals'[r.generation + 1] = None => successor.tables \subseteq tables'
    BY <1>1, <1>8, <1>11, <1>13, <2>3 DEF Quiet
  <2>5. SuccessorOk(r.generation + 1, successor)' /\ ReachedTo(r.durable_batch)'
    BY <1>1, <2>1, <2>2, QuietFacts
  <2>6. Content(successor.tables) = LandedTo(r.durable_batch)'
    BY <1>1, <1>13, <1>19, QuietFacts
  <2> QED BY <1>13, <1>14, <2>4, <2>5, <2>6 DEF SealCreateOk, Content
<1>21. \A d \in net : d.by = p => d.kind # "seal"
  BY <1>1, <1>2, <1>3, Listening
<1>22. Sendable(p, e)
  BY <1>14, <1>20, <1>21 DEF Sendable
<1>23. Waits(p)
  <2> SUFFICES ASSUME NEW d \in net', d.by = p PROVE Awaited(d)'
    BY DEF Waits
  <2>0. proc'[p] = s
    BY <1>8, Becomes
  <2>1. CASE d = e
    BY <2>0, <2>1, <1>14, <1>16, <1>17 DEF Awaited
  <2>2. CASE d \in net
    <3>1. /\ d.kind # "seal" /\ r.flight
          /\ d.key = r.durable_batch + 1 /\ d.object = Wal("run", r.claim)
      BY <2>2, <1>2, <1>3, <1>21, Listening
    <3> QED BY <2>0, <3>1, <1>16 DEF Awaited
  <2> QED BY <2>1, <2>2, <1>9
<1>24. /\ tables' \subseteq Tables /\ HeadInv'
       /\ \A c \in net : c.kind = "seal" /\ seals[c.key] = None => c.object.tables \subseteq tables'
  <2>1. tables \subseteq Tables /\ HeadInv
    BY DEF PartitionInv, Type, TypeOK, StoreInv
  <2>2. HeadInv'
    BY <1>1, <1>8, <2>1, QuietFacts DEF HeadInv, Quiet
  <2>3. \A c \in net : c.kind = "seal" => SealCreateOk(c)
    BY DEF PartitionInv, NetInv
  <2> QED BY <1>8, <1>12, <2>1, <2>2, <2>3 DEF SealCreateOk
<1>25. s.flight \/ \A d \in net' : SendsRun(d) => d.object.owner # s.claim
  BY <1>3, <1>9, <1>14, <1>16 DEF SendsRun
<1>26. StateType(s) /\ s.at = "Ready" /\ LocalReady(p)' /\ LocalCollector(p)'
  BY <1>1, <1>8, <1>15, <1>18, ReadyNext
<1> QED
  BY <1>1, <1>2, <1>3, <1>8, <1>9, <1>16, <1>22, <1>23, <1>24, <1>25, <1>26, OneSent, ReadyStepInv

\* The checkpoint is the newest Seal of its author; a collection may start.
LEMMA SealPublishedInv ==
  ASSUME PartitionInv, NEW p \in Procs, SealPublished(p)
  PROVE  PartitionInv'
<1>1. /\ Quiet /\ tables' = tables /\ acked' = acked /\ acked' \subseteq landed
      /\ IsReady(p) /\ proc[p].checkpoint # None
  BY DEF SealPublished, Quiet, store, history, PartitionInv
<1>2. CASE Exit(p, "Fenced")
  BY <1>1, <1>2, ExitInv
<1>3. CASE Exit(p, "Stopped")
  BY <1>1, <1>3, ExitInv
<1>4. CASE /\ Authored(p)
           /\ Become(p, [proc[p] EXCEPT
                  !.generation = @ + 1,
                  !.seal = proc[p].checkpoint,
                  !.checkpoint = None,
                  !.collector = IF @ = None
                                THEN CollectionInput(proc[p].seal, proc[p].checkpoint) ELSE @])
           /\ Abandons(At(p, "seal"))
  <2>1. PICK r : r = proc[p]
    OBVIOUS
  <2>2. /\ r \in ReadyState /\ ReadyKnows(r) /\ CollectorKnows(r) /\ HoldsClaim(p)
        /\ r.claim \in Generations /\ IsClaim(r.claim) /\ r.at = "Ready"
        /\ r.generation \in Generations /\ r.seal \in SealObjects /\ r.seal.cut \in Cuts
        /\ r.durable_batch \in Batches /\ seals[r.claim].cut \in Cuts
        /\ seals[r.claim].cut <= seals[r.generation].cut
        /\ ~r.flight => \A d \in net : SendsRun(d) => d.object.owner # r.claim
    BY <1>1, <2>1, ReadyFacts
  <2>3. PICK g : g = r.generation + 1
    OBVIOUS
  <2>4. PICK successor : successor = r.checkpoint
    OBVIOUS
  <2>5. PICK collector : collector = IF r.collector = None THEN CollectionInput(r.seal, successor)
                                     ELSE r.collector
    OBVIOUS
  <2> DEFINE s == [r EXCEPT !.generation = g, !.seal = successor, !.checkpoint = None,
                            !.collector = collector]
  <2>6. Become(p, s)
    BY <1>4, <2>1, <2>2, <2>3, <2>4, <2>5 DEF ReadyState
  <2>7. successor \in SealObjects /\ successor # None /\ successor.cut \in Cuts /\ successor.tables \subseteq Tables
    BY <1>1, <2>1, <2>2, <2>4 DEF ReadyState, SealObjects
  <2>8. PICK c \in net : c.by = p /\ c.kind = "seal" /\ c.status = "won"
    BY <1>4 DEF Authored, Stands, At
  <2>9. g \in Generations /\ seals[g] = successor
    <3>1. c.key = g /\ c.object = successor /\ SealCreateOk(c) /\ c \in SealCreates
      BY <2>1, <2>2, <2>3, <2>4, <2>8, Listening
    <3> QED BY <3>1, <2>8 DEF SealCreateOk, SealCreates
  <2>10. /\ r.claim <= r.generation /\ seals[r.generation] # None
         /\ r.seal = seals[r.generation] /\ Authors(r.claim, r.generation)
         /\ r.seal.cut < successor.cut /\ successor.cut <= r.durable_batch
         /\ r.durable_batch < CoordinateMax
    BY <1>1, <2>1, <2>2, <2>4 DEF ReadyKnows
  <2>11. CollectionInput(r.seal, successor) \in Collections
    BY <2>2, <2>7, <2>10 DEF CollectionInput, Collections, SealObjects
  <2>12. collector \in Collections /\ collector # None
    BY <2>2, <2>5, <2>11, PartitionAssumption DEF ReadyState
  <2>13. s \in ReadyState
    BY <2>2, <2>7, <2>9, <2>12 DEF ReadyState
  <2>14. /\ s.at = "Ready" /\ s.claim = r.claim /\ s.generation = g /\ s.seal = successor
         /\ s.durable = r.durable /\ s.durable_batch = r.durable_batch /\ s.flight = r.flight
         /\ s.checkpoint = None /\ s.collector = collector
    BY <2>2 DEF ReadyState
  <2> HIDE DEF s
  <2>15. Authors(r.claim, g)
    <3> SUFFICES ASSUME NEW h \in Generations, r.claim < h, h <= g
                 PROVE  seals[h] # None /\ seals[h].cut > seals[h - 1].cut
      BY DEF Authors
    <3>1. CASE h <= r.generation
      BY <3>1, <2>10 DEF Authors
    <3>2. CASE h = g
      <4>1. h - 1 = r.generation
        BY <3>2, <2>2, <2>3
      <4> QED BY <4>1, <3>2, <2>2, <2>7, <2>9, <2>10
    <3> QED BY <3>1, <3>2, <2>2, <2>3
  <2>16. ReadyKnows(s)
    <3>1. r.claim <= g
      BY <2>2, <2>3, <2>10
    <3> QED BY <2>2, <2>7, <2>9, <2>10, <2>14, <2>15, <3>1 DEF ReadyKnows
  <2>17. CollectorKnows(s)
    <3>1. CASE r.collector # None
      <4>1. /\ seals[r.claim].cut < collector.next /\ collector.cut <= r.seal.cut
            /\ collector.cut < CoordinateMax
            /\ collector.proof => /\ collector.next <= collector.cut
                                  /\ wal[collector.next] # None /\ wal[collector.next].kind = "run"
            /\ \A t \in collector.tables :
                 /\ t.birth <= r.generation
                 /\ \A h \in Generations : h >= r.generation /\ seals[h] # None => t \notin seals[h].tables
        BY <3>1, <2>2, <2>5 DEF CollectorKnows
      <4>2. collector.cut \in Cuts /\ \A t \in collector.tables : t.birth \in Generations
        BY <2>12 DEF Collections, Tables
      <4>3. collector.cut <= successor.cut
        BY <4>1, <4>2, <2>2, <2>7, <2>10
      <4>4. \A t \in collector.tables :
              /\ t.birth <= g
              /\ \A h \in Generations : h >= g /\ seals[h] # None => t \notin seals[h].tables
        BY <4>1, <4>2, <2>2, <2>3
      <4> QED BY <4>1, <4>3, <4>4, <2>14 DEF CollectorKnows
    <3>2. CASE r.collector = None
      <4>1. /\ collector.next = r.seal.cut + 1 /\ collector.cut = successor.cut
            /\ collector.proof = FALSE /\ collector.tables = r.seal.tables \ successor.tables
        BY <3>2, <2>5 DEF CollectionInput
      <4>2. /\ seals[r.claim].cut < collector.next /\ collector.cut <= successor.cut
            /\ collector.cut < CoordinateMax
        BY <4>1, <2>2, <2>7, <2>10
      <4>3. ASSUME NEW t \in collector.tables
            PROVE  /\ t.birth <= g
                   /\ \A h \in Generations : h >= g /\ seals[h] # None => t \notin seals[h].tables
        <5>1. t \in seals[r.generation].tables /\ t \notin seals[g].tables /\ t \in Tables
          BY <4>1, <2>2, <2>9, <2>10 DEF SealObjects
        <5>2. t.birth <= r.generation /\ t.birth \in Generations
          BY <5>1, <2>2, <2>10 DEF PartitionInv, StoreInv, ContentInv, SealContent, Tables
        <5>3. ASSUME NEW h \in Generations, h > g, seals[h] # None, t \in seals[h].tables PROVE FALSE
          <6>1. t \in seals[g].tables \/ t.birth > g
            BY <5>3, <2>9 DEF PartitionInv, StoreInv, ContentInv, SealContent
          <6> QED BY <6>1, <5>1, <5>2, <2>2, <2>3
        <5>4. \A h \in Generations : h >= g /\ seals[h] # None => t \notin seals[h].tables
          BY <5>1, <5>3, <2>9
        <5> QED BY <5>2, <5>4, <2>2, <2>3
      <4> QED BY <4>1, <4>2, <4>3, <2>14 DEF CollectorKnows
    <3> QED BY <3>1, <3>2
  <2>18. /\ NetStep(p, {}) /\ Sent(p, {}) /\ \A d \in net' : d.by = p => d \in net /\ d.kind # "seal"
    BY <1>4, AbandonKind, NothingSent
  <2>19. Waits(p)
    <3> SUFFICES ASSUME NEW d \in net', d.by = p PROVE Awaited(d)'
      BY DEF Waits
    <3>1. d \in net /\ d.kind # "seal"
      BY <2>18
    <3>2. r.flight /\ d.key = r.durable_batch + 1 /\ d.object = Wal("run", r.claim)
      BY <3>1, <2>1, <2>2, Listening
    <3>3. proc'[p] = s
      BY <2>6, Becomes
    <3> QED BY <3>1, <3>2, <3>3, <2>14 DEF Awaited
  <2>20. s.flight \/ \A d \in net' : SendsRun(d) => d.object.owner # s.claim
    <3> SUFFICES ASSUME ~s.flight, NEW d \in net', SendsRun(d) PROVE d.object.owner # s.claim
      OBVIOUS
    <3>1. PICK x \in net : x.kind = d.kind /\ x.object = d.object
      BY <2>18, NetHeirs
    <3> QED BY <3>1, <2>2, <2>14 DEF SendsRun
  <2> QED
    BY <1>1, <2>1, <2>2, <2>6, <2>13, <2>14, <2>16, <2>17, <2>18, <2>19, <2>20, WriterStepInv
<1> QED BY <1>2, <1>3, <1>4 DEF SealPublished

-----------------------------------------------------------------------------
(* Collection. *)

WithCollector(r, collector) == [r EXCEPT !.collector = collector]

\* The process moves its collector, and the tables may lose one that no Seal
\* and no create on its way selects.
LEMMA CollectorStepInv ==
  ASSUME PartitionInv, NEW p \in Procs, IsReady(p), NEW collector \in Collections \cup {None},
         Become(p, WithCollector(proc[p], collector)),
         CollectorKnows(WithCollector(proc[p], collector)),
         Quiet, net' = net, acked' = acked, tables' \subseteq Tables, HeadInv',
         \A c \in net : c.kind = "seal" /\ seals[c.key] = None => c.object.tables \subseteq tables'
  PROVE  PartitionInv'
<1>1. PICK r : r = proc[p]
  OBVIOUS
<1>2. /\ r \in ReadyState /\ ReadyKnows(r) /\ HoldsClaim(p) /\ r.at = "Ready"
      /\ ~r.flight => \A d \in net : SendsRun(d) => d.object.owner # r.claim
  BY <1>1, ReadyFacts
<1> DEFINE s == WithCollector(r, collector)
<1>3. Become(p, s) /\ CollectorKnows(s)
  BY <1>1
<1>4. s \in ReadyState
  BY <1>2 DEF ReadyState, WithCollector
<1>5. /\ s.at = "Ready" /\ s.claim = r.claim /\ s.generation = r.generation /\ s.seal = r.seal
      /\ s.durable = r.durable /\ s.durable_batch = r.durable_batch /\ s.flight = r.flight
      /\ s.checkpoint = r.checkpoint
  BY <1>2 DEF ReadyState, WithCollector
<1> HIDE DEF s
<1>6. ReadyKnows(s)
  BY <1>2, <1>5 DEF ReadyKnows
<1>7. StateType(s) /\ s.at = "Ready" /\ proc'[p] = s /\ LocalReady(p)' /\ LocalCollector(p)'
  BY <1>3, <1>4, <1>6, ReadyNext
<1>8. Waits(p)
  <2> SUFFICES ASSUME NEW d \in net, d.by = p PROVE Awaited(d)'
    BY DEF Waits
  <2>1. /\ d.kind = "seal" => /\ r.checkpoint # None
                              /\ d.key = r.generation + 1 /\ d.object = r.checkpoint
        /\ d.kind # "seal" => /\ r.flight
                              /\ d.key = r.durable_batch + 1 /\ d.object = Wal("run", r.claim)
    BY <1>1, <1>2, Listening
  <2> QED BY <2>1, <1>5, <1>7 DEF Awaited
<1>9. NetStep(p, {}) /\ Sent(p, {}) /\ acked' \subseteq landed
  <2>1. acked \subseteq landed
    BY DEF PartitionInv
  <2> QED BY <2>1, NothingSent
<1>10. s.flight \/ \A d \in net' : SendsRun(d) => d.object.owner # s.claim
  BY <1>2, <1>5
<1> QED BY <1>1, <1>2, <1>3, <1>5, <1>7, <1>8, <1>9, <1>10, ReadyStepInv

\* A coordinate is read: a RUN is a proof, anything else is passed over.
LEMMA CollectReadInv ==
  ASSUME PartitionInv, NEW p \in Procs, CollectRead(p)
  PROVE  PartitionInv'
<1>1. Quiet /\ tables' = tables /\ acked' = acked /\ net' = net /\ IsReady(p)
  BY DEF CollectRead, Collecting, Quiet, store, history
<1>2. PICK r : r = proc[p]
  OBVIOUS
<1>3. PICK c : c = r.collector
  OBVIOUS
<1>4. /\ r \in ReadyState /\ CollectorKnows(r) /\ seals[r.claim].cut \in Cuts
  BY <1>1, <1>2, ReadyFacts
<1>5. c \in Collections /\ c # None /\ ~c.proof /\ c.next <= c.cut
  BY <1>2, <1>3, <1>4 DEF CollectRead, Collecting, ReadyState
<1>6. PICK d : d = IF IntoRunDelete(wal[c.next]) THEN [c EXCEPT !.proof = TRUE]
                   ELSE [c EXCEPT !.next = c.next + 1]
  OBVIOUS
<1>7. Become(p, WithCollector(r, d))
  BY <1>2, <1>3, <1>5, <1>6 DEF CollectRead, Collections, WithCollector
<1>8. /\ seals[r.claim].cut < c.next /\ c.cut <= r.seal.cut /\ c.cut < CoordinateMax
      /\ \A t \in c.tables :
           /\ t.birth <= r.generation
           /\ \A g \in Generations : g >= r.generation /\ seals[g] # None => t \notin seals[g].tables
      /\ c.next \in Batches /\ c.cut \in Cuts
  BY <1>3, <1>4, <1>5 DEF CollectorKnows, Collections
<1>9. d \in Collections
  <2>1. CASE IntoRunDelete(wal[c.next])
    <3>1. d = [c EXCEPT !.proof = TRUE]
      BY <2>1, <1>6
    <3> QED BY <3>1, <1>5 DEF Collections
  <2>2. CASE ~IntoRunDelete(wal[c.next])
    <3>1. d = [c EXCEPT !.next = c.next + 1] /\ c.next + 1 \in Batches
      BY <2>2, <1>5, <1>6, <1>8
    <3> QED BY <3>1, <1>5 DEF Collections
  <2> QED BY <2>1, <2>2
<1>10. /\ d.cut = c.cut /\ d.tables = c.tables
       /\ d.proof => d.next = c.next /\ wal[c.next] # None /\ wal[c.next].kind = "run"
       /\ d.next >= c.next /\ d.next \in Batches
  <2>1. CASE IntoRunDelete(wal[c.next])
    <3>1. d = [c EXCEPT !.proof = TRUE]
      BY <2>1, <1>6
    <3>2. d.cut = c.cut /\ d.tables = c.tables /\ d.next = c.next
      BY <3>1, <1>5 DEF Collections
    <3> QED BY <2>1, <3>2, <1>8 DEF IntoRunDelete
  <2>2. CASE ~IntoRunDelete(wal[c.next])
    <3>1. d = [c EXCEPT !.next = c.next + 1]
      BY <2>2, <1>6
    <3>2. d.cut = c.cut /\ d.tables = c.tables /\ d.next = c.next + 1 /\ d.proof = c.proof
      BY <3>1, <1>5 DEF Collections
    <3> QED BY <3>2, <1>5, <1>8
  <2> QED BY <2>1, <2>2
<1>11. CollectorKnows(WithCollector(r, d))
  <2>1. /\ WithCollector(r, d).collector = d /\ WithCollector(r, d).claim = r.claim
        /\ WithCollector(r, d).seal = r.seal /\ WithCollector(r, d).generation = r.generation
    BY <1>4 DEF ReadyState, WithCollector
  <2>2. seals[r.claim].cut < d.next
    BY <1>4, <1>8, <1>10
  <2> QED BY <1>5, <1>8, <1>10, <2>1, <2>2 DEF CollectorKnows
<1> QED BY <1>1, <1>2, <1>7, <1>9, <1>11, QuietTables, CollectorStepInv

CreateOk(c) == (c.kind = "seal" => SealCreateOk(c)) /\ (c.kind = "wal" => WalCreateOk(c))

\* A create is of one of the two kinds, and what is known of its kind holds.
LEMMA KindOf ==
  ASSUME PartitionInv, NEW c \in net
  PROVE  /\ c.kind \in {"seal", "wal"} /\ CreateOk(c)
         /\ c.kind = "seal" => c \in SealCreates /\ c.key \in Generations /\ c.object \in SealObjects
         /\ c.kind = "wal" => /\ c \in WalCreates /\ c.key \in Batches /\ c.object \in WalObjects
                              /\ c.object.owner \in Owners /\ c.object.kind \in {"run", "fence"}
<1>1. net \subseteq SealCreates \cup WalCreates
  BY DEF PartitionInv, Type
<1>2. c.kind \in {"seal", "wal"}
  BY <1>1 DEF SealCreates, WalCreates
<1>3. CreateOk(c)
  BY DEF CreateOk, PartitionInv, NetInv
<1>4. c.kind = "seal" => c \in SealCreates
  BY <1>1 DEF SealCreates, WalCreates
<1>5. c.kind = "wal" => c \in WalCreates
  BY <1>1 DEF SealCreates, WalCreates
<1> QED BY <1>2, <1>3, <1>4, <1>5 DEF SealCreates, WalCreates, WalObjects

\* A table that a collector may delete is in no Seal still to come.
LEMMA DroppedStaysOut ==
  ASSUME PartitionInv, NEW p \in Procs, IsReady(p), proc[p].collector # None,
         NEW t \in proc[p].collector.tables, NEW x \in net, x.kind = "seal", seals[x.key] = None
  PROVE  t \notin x.object.tables
<1>1. PICK r : r = proc[p]
  OBVIOUS
<1>2. /\ r \in ReadyState /\ CollectorKnows(r) /\ r.generation \in Generations
      /\ r.generation <= Newest /\ Newest \in Generations
  BY <1>1, ReadyFacts
<1>3. /\ t.birth <= r.generation /\ t \in Tables
      /\ \A g \in Generations : g >= r.generation /\ seals[g] # None => t \notin seals[g].tables
  BY <1>1, <1>2 DEF CollectorKnows, ReadyState, Collections
<1>4. SealCreateOk(x) /\ x.key \in Generations
  BY KindOf DEF CreateOk
<1>5. x.key > r.generation
  <2>1. \A h \in Generations : h <= Newest => seals[h] # None
    BY HeadFacts DEF PartitionInv, Type, StoreInv
  <2> QED BY <2>1, <1>2, <1>4
<1>6. CASE x.object = Genesis
  BY <1>6 DEF Genesis, Seal
<1>7. CASE x.key > 1 /\ seals[x.key - 1] # None /\
           \A u \in x.object.tables : u \in seals[x.key - 1].tables \/ u.birth = x.key
  <2>1. x.key - 1 \in Generations /\ x.key - 1 >= r.generation
    BY <1>2, <1>4, <1>5, <1>7
  <2>2. t \notin seals[x.key - 1].tables /\ t.birth # x.key
    BY <2>1, <1>2, <1>3, <1>4, <1>5, <1>7 DEF Tables
  <2> QED BY <2>2, <1>7
<1> QED BY <1>4, <1>6, <1>7 DEF SealCreateOk, SuccessorOk

\* A dropped table is deleted: neither the head nor a Seal on its way selects it.
LEMMA CollectTableInv ==
  ASSUME PartitionInv, NEW p \in Procs, CollectTable(p)
  PROVE  PartitionInv'
<1>1. Quiet /\ acked' = acked /\ net' = net /\ IsReady(p)
  BY DEF CollectTable, Collecting, Quiet, history
<1>2. PICK r : r = proc[p]
  OBVIOUS
<1>3. PICK c : c = r.collector
  OBVIOUS
<1>4. /\ r \in ReadyState /\ CollectorKnows(r) /\ r.generation \in Generations
      /\ r.generation <= Newest /\ Newest \in Generations
  BY <1>1, <1>2, ReadyFacts
<1>5. c \in Collections /\ c # None
  BY <1>2, <1>3, <1>4 DEF CollectTable, Collecting, ReadyState
<1>6. PICK t \in c.tables : /\ tables' = tables \ {t}
                            /\ Become(p, [proc[p] EXCEPT !.collector.tables = @ \ {t}])
  BY <1>2, <1>3 DEF CollectTable
<1>7. PICK d : d = [c EXCEPT !.tables = c.tables \ {t}]
  OBVIOUS
<1>8. Become(p, WithCollector(r, d))
  BY <1>2, <1>3, <1>4, <1>5, <1>6, <1>7 DEF ReadyState, Collections, WithCollector
<1>9. /\ t.birth <= r.generation /\ t \in Tables
      /\ \A g \in Generations : g >= r.generation /\ seals[g] # None => t \notin seals[g].tables
  BY <1>3, <1>4, <1>5 DEF CollectorKnows, Collections
<1>10. d \in Collections /\ d.next = c.next /\ d.cut = c.cut /\ d.proof = c.proof /\ d.tables \subseteq c.tables
  BY <1>5, <1>7 DEF Collections
<1>11. CollectorKnows(WithCollector(r, d))
  <2>1. /\ WithCollector(r, d).collector = d /\ WithCollector(r, d).claim = r.claim
        /\ WithCollector(r, d).seal = r.seal /\ WithCollector(r, d).generation = r.generation
    BY <1>4 DEF ReadyState, WithCollector
  <2> QED BY <1>3, <1>4, <1>5, <1>10, <2>1 DEF CollectorKnows
<1>12. tables' \subseteq Tables /\ HeadInv'
  <2>1. tables \subseteq Tables /\ HeadInv
    BY DEF PartitionInv, Type, TypeOK, StoreInv
  <2>2. t \notin seals[Newest].tables
    BY <1>4, <1>9, NewestFacts
  <2>3. Newest' = Newest /\ seals' = seals
    BY <1>1, QuietFacts DEF Quiet
  <2> QED BY <1>4, <1>6, <2>1, <2>2, <2>3 DEF HeadInv
<1>13. ASSUME NEW x \in net, x.kind = "seal", seals[x.key] = None
       PROVE  x.object.tables \subseteq tables'
  <2>1. SealCreateOk(x)
    BY <1>13, KindOf DEF CreateOk
  <2>2. t \notin x.object.tables
    BY <1>1, <1>2, <1>3, <1>5, <1>13, DroppedStaysOut
  <2> QED BY <2>1, <2>2, <1>6, <1>13 DEF SealCreateOk
<1> QED BY <1>1, <1>2, <1>8, <1>10, <1>11, <1>12, <1>13, CollectorStepInv

\* The collection ends, complete or not.
LEMMA CollectFinishedInv ==
  ASSUME PartitionInv, NEW p \in Procs, CollectFinished(p)
  PROVE  PartitionInv'
<1>1. Quiet /\ tables' = tables /\ acked' = acked /\ net' = net /\ IsReady(p)
  BY DEF CollectFinished, Collecting, Quiet, store, history
<1>2. Become(p, WithCollector(proc[p], None))
  BY DEF CollectFinished, WithCollector
<1>3. proc[p] \in ReadyState
  BY <1>1, ReadyFacts
<1>4. CollectorKnows(WithCollector(proc[p], None))
  BY <1>3 DEF CollectorKnows, ReadyState, WithCollector
<1> QED BY <1>1, <1>2, <1>4, QuietTables, CollectorStepInv

\* A process dies.
LEMMA CrashInv ==
  ASSUME PartitionInv, NEW p \in Procs, Crash(p)
  PROVE  PartitionInv'
<1>1. Quiet /\ tables' = tables /\ acked' = acked /\ Exit(p, "Stopped")
  BY DEF Crash, Quiet, store, history
<1> QED BY <1>1, ExitInv

\* The coordinates that two collectors may delete are apart: a claim follows all
\* that the owner before it has sealed.
LEMMA CollectorsApart ==
  ASSUME PartitionInv, NEW p \in Procs, NEW q \in Procs, IsReady(p), IsReady(q),
         proc[p].claim < proc[q].claim
  PROVE  proc[p].seal.cut <= seals[proc[q].claim].cut
<1>1. PICK c : c = proc[q].claim
  OBVIOUS
<1>2. PICK r : r = proc[p]
  OBVIOUS
<1>3. /\ r.seal = seals[r.generation] /\ Authors(r.claim, r.generation) /\ r.generation \in Generations
      /\ r.claim \in Generations /\ r.claim < c
  BY <1>1, <1>2, ReadyFacts DEF ReadyKnows
<1>4. c \in Generations /\ IsClaim(c)
  BY <1>1, ReadyFacts
<1>5. c > 1 /\ seals[c] # None /\ seals[c] = seals[c - 1] /\ seals[c].cut \in Cuts
  BY <1>1, <1>4, ReadyFacts DEF IsClaim
<1>6. ~(c <= r.generation)
  BY <1>3, <1>4, <1>5 DEF Authors
<1>7. seals[r.generation].cut <= seals[c].cut
  BY <1>3, <1>4, <1>5, <1>6 DEF PartitionInv, StoreInv, SealsInv
<1> QED BY <1>1, <1>2, <1>3, <1>7

\* So no two of them hold a proof for the same coordinate.
LEMMA ProofsApart ==
  ASSUME PartitionInv, NEW p \in Procs, NEW q \in Procs, p # q, IsReady(p), IsReady(q),
         proc[p].collector # None, proc[q].collector # None,
         proc[p].collector.proof, proc[q].collector.proof
  PROVE  proc[p].collector.next # proc[q].collector.next
<1> DEFINE Inside(r) == /\ r.collector \in Collections /\ r.seal.cut \in Cuts
                        /\ seals[r.claim].cut \in Cuts /\ r.claim \in Generations
                        /\ seals[r.claim].cut < r.collector.next
                        /\ r.collector.next <= r.collector.cut
                        /\ r.collector.cut <= r.seal.cut
<1>1. Inside(proc[p]) /\ Inside(proc[q])
  BY ReadyFacts DEF CollectorKnows, ReadyState
<1>2. proc[p].claim # proc[q].claim
  BY ReadyFacts DEF PartitionInv, UniqueInv, ClaimsAreUnique
<1>3. CASE proc[p].claim < proc[q].claim
  <2>1. proc[p].seal.cut <= seals[proc[q].claim].cut
    BY <1>3, CollectorsApart
  <2> QED BY <2>1, <1>1 DEF Collections
<1>4. CASE proc[q].claim < proc[p].claim
  <2>1. proc[q].seal.cut <= seals[proc[p].claim].cut
    BY <1>4, CollectorsApart
  <2> QED BY <2>1, <1>1 DEF Collections
<1> QED BY <1>1, <1>2, <1>3, <1>4

\* The collector deletes the RUN that it has proved.
LEMMA CollectRunInv ==
  ASSUME PartitionInv, NEW p \in Procs, CollectRun(p)
  PROVE  PartitionInv'
<1>1. /\ IsReady(p) /\ seals' = seals /\ tables' = tables /\ net' = net
      /\ landed' = landed /\ acked' = acked
      /\ Type /\ TypeOK /\ StoreInv /\ SealsInv /\ NetInv /\ UniqueInv
  BY DEF CollectRun, Collecting, history, PartitionInv, Type, StoreInv
<1>2. PICK r : r = proc[p]
  OBVIOUS
<1>3. PICK c : c = r.collector
  OBVIOUS
<1>4. PICK n : n = c.next
  OBVIOUS
<1>5. PICK d : d = [c EXCEPT !.proof = FALSE, !.next = n + 1]
  OBVIOUS
<1>6. /\ r \in ReadyState /\ CollectorKnows(r) /\ r.at = "Ready" /\ HoldsClaim(p)
      /\ r.seal.cut \in Cuts /\ r.seal.cut <= NewestCut /\ NewestCut \in Cuts
      /\ r.claim \in Generations /\ IsClaim(r.claim) /\ seals[r.claim].cut \in Cuts
  BY <1>1, <1>2, ReadyFacts
<1>7. c \in Collections /\ c # None /\ c.proof
  BY <1>2, <1>3, <1>6 DEF CollectRun, Collecting, ReadyState
<1>8. /\ n \in Batches /\ c.cut \in Cuts /\ n <= c.cut /\ c.cut < CoordinateMax
      /\ c.cut <= r.seal.cut /\ wal[n] # None /\ wal[n].kind = "run"
      /\ seals[r.claim].cut < n
  BY <1>3, <1>4, <1>6, <1>7 DEF CollectorKnows, Collections
<1>9. wal' = [wal EXCEPT ![n] = None] /\ Become(p, WithCollector(r, d))
  BY <1>2, <1>3, <1>4, <1>5, <1>7 DEF CollectRun, Collections, WithCollector
<1>10. Stable /\ StoreInv'
  <2>1. n <= NewestCut
    BY <1>6, <1>8
  <2> QED BY <2>1, <1>1, <1>8, <1>9, DeleteRunStore
<1>11. d \in Collections /\ d.next = n + 1 /\ d.cut = c.cut /\ d.proof = FALSE /\ d.tables = c.tables
  <2>1. PICK u : u = [c EXCEPT !.proof = FALSE]
    OBVIOUS
  <2>2. /\ u \in Collections /\ u.next = n /\ u.cut = c.cut /\ u.proof = FALSE
        /\ u.tables = c.tables
    BY <2>1, <1>4, <1>7 DEF Collections
  <2>3. d = [u EXCEPT !.next = n + 1] /\ n + 1 \in Batches
    BY <2>1, <1>5, <1>8
  <2> QED BY <2>2, <2>3 DEF Collections
<1> DEFINE s == WithCollector(r, d)
<1>12. /\ s.at = "Ready" /\ s.claim = r.claim /\ s.generation = r.generation /\ s.seal = r.seal
       /\ s.durable = r.durable /\ s.durable_batch = r.durable_batch /\ s.flight = r.flight
       /\ s.checkpoint = r.checkpoint /\ s.collector = d /\ s \in ReadyState
  BY <1>6, <1>11 DEF ReadyState, WithCollector
<1>13. Become(p, s)
  BY <1>9
<1> HIDE DEF s
<1>14. proc' = [proc EXCEPT ![p] = s] /\ proc'[p] = s
  BY <1>13, Becomes
<1>15. \A q \in Procs : q # p => proc'[q] = proc[q]
  BY <1>1, <1>14 DEF Type
<1>16. \A b \in Batches : wal'[b] # None => wal'[b] = wal[b]
  BY <1>1, <1>8, <1>9 DEF TypeOK
<1>17. Type'
  <2>1. TypeOK'
    BY <1>1, <1>8, <1>9 DEF TypeOK
  <2>2. StateType(s)
    BY <1>12 DEF StateType, ReadyState
  <2>3. \A q \in Procs : StateType(proc[q])'
    BY <1>1, <1>14, <1>15, <2>2 DEF Type
  <2>4. DOMAIN proc' = Procs /\ net' \subseteq SealCreates \cup WalCreates
    BY <1>1, <1>14 DEF Type
  <2> QED BY <2>1, <2>3, <2>4 DEF Type
<1>18. NetInv'
  <2>1. ASSUME NEW x \in net, x.by # None PROVE Awaited(x)'
    <3>1. CASE x.by = p
      <4>1. /\ x.kind = "seal" => /\ r.checkpoint # None
                                  /\ x.key = r.generation + 1 /\ x.object = r.checkpoint
            /\ x.kind # "seal" => /\ r.flight
                                  /\ x.key = r.durable_batch + 1 /\ x.object = Wal("run", r.claim)
        BY <3>1, <1>2, <1>6, Listening
      <4> QED BY <3>1, <4>1, <1>12, <1>14 DEF Awaited
    <3>2. CASE x.by # p
      <4>1. x.by \in Procs
        BY <1>1, <2>1 DEF Type, SealCreates, WalCreates
      <4> QED BY <4>1, <3>2, <2>1, <1>1, <1>15 DEF NetInv, Awaited
    <3> QED BY <3>1, <3>2
  <2>2. ASSUME NEW x \in net, x.kind = "seal" PROVE SealCreateOk(x)'
    <3>1. x \in SealCreates /\ SealCreateOk(x)
      BY <1>1, <2>2 DEF Type, NetInv, WalCreates
    <3>2. seals'[x.key] = None => x.object.tables \subseteq tables'
      BY <3>1, <1>1 DEF SealCreateOk
    <3> QED BY <3>1, <3>2, <1>1, <1>10, SealCreateStable
  <2>3. ASSUME NEW x \in net, x.kind = "wal" PROVE WalCreateOk(x)'
    <3>1. x \in WalCreates /\ WalCreateOk(x)
      BY <1>1, <2>3 DEF Type, NetInv, SealCreates
    <3> QED BY <3>1, <1>1, <1>10, WalCreateStable
  <2> QED BY <1>1, <2>1, <2>2, <2>3 DEF NetInv
<1>19. \A q \in Procs : /\ HoldsClaim(q)' <=> HoldsClaim(q)
                        /\ HoldsClaim(q) => proc'[q].claim = proc[q].claim
  BY <1>2, <1>6, <1>12, <1>14, <1>15 DEF HoldsClaim
<1>20. UniqueInv'
  <2>1. \A x : NoObjectOf(x) => NoObjectOf(x)'
    BY <1>1, <1>16 DEF NoObjectOf
  <2> QED BY <1>1, <1>19, <2>1 DEF UniqueInv, ClaimsAreUnique
<1>21. ASSUME NEW q \in Procs PROVE Local(q)'
  <2>1. LocalBoot(q) /\ LocalReady(q) /\ LocalCollector(q) /\ LocalNet(q)
    BY DEF PartitionInv, Local
  <2>2. SameButCollector(q)
    BY <1>2, <1>6, <1>12, <1>14, <1>15 DEF SameButCollector
  <2>3. LocalReady(q)'
    BY <1>1, <1>10, <2>1, <2>2, LocalReadyStable
  <2>4. LocalBoot(q)'
    <3>1. CASE q = p
      <4>1. IsClaim(s.claim)'
        BY <1>1, <1>6, <1>10, <1>12, Permanent
      <4> QED BY <3>1, <4>1, <1>12, <1>14 DEF LocalBoot, PreReady, PreFence
    <3>2. CASE q # p
      BY <3>2, <1>1, <1>10, <1>15, <2>1, LocalBootStable
    <3> QED BY <3>1, <3>2
  <2>5. LocalCollector(q)'
    <3>1. CASE q = p
      <4>1. seals[r.claim].cut < n + 1
        BY <1>6, <1>8
      <4>2. \A t \in c.tables :
              /\ t.birth <= r.generation
              /\ \A g \in Generations : g >= r.generation /\ seals[g] # None => t \notin seals[g].tables
        BY <1>3, <1>6, <1>7 DEF CollectorKnows
      <4> QED BY <3>1, <4>1, <4>2, <1>1, <1>8, <1>11, <1>12, <1>14 DEF LocalCollector
    <3>2. CASE q # p
      <4>1. ASSUME proc[q].at = "Ready", proc[q].collector # None, proc[q].collector.proof
            PROVE  wal'[proc[q].collector.next] = wal[proc[q].collector.next]
        <5>1. proc[q].collector.next # n
          BY <3>2, <4>1, <1>1, <1>2, <1>3, <1>4, <1>7, ProofsApart DEF IsReady
        <5>2. proc[q].collector.next \in Batches
          BY <4>1, ReadyFacts DEF IsReady, ReadyState, Collections
        <5> QED BY <5>1, <5>2, <1>1, <1>9 DEF TypeOK
      <4> QED BY <4>1, <3>2, <1>1, <1>10, <1>15, <2>1, LocalCollectorStable
    <3> QED BY <3>1, <3>2
  <2>6. LocalNet(q)'
    <3>1. PICK claim : claim = proc[q].claim
      OBVIOUS
    <3>2. (PreReady(q)' <=> PreReady(q)) /\ (PreFence(q)' <=> PreFence(q))
      BY <2>2 DEF SameButCollector, PreReady, PreFence
    <3>3. PreReady(q) \/ proc[q].at = "Ready" => proc'[q].claim = claim /\ claim \in Owners
      BY <3>1, <1>19, Claimant DEF PreReady, PreFence, HoldsClaim
    <3>4. PreFence(q) => PreReady(q)
      BY DEF PreReady
    <3>5. \A b \in Batches : (IsRun(b, claim)' => IsRun(b, claim)) /\ (IsFence(b, claim)' => IsFence(b, claim))
      BY <1>16 DEF IsRun, IsFence, Holds
    <3>6. claim \in Owners => (Superseded(claim) => Superseded(claim)')
      BY <1>1, <1>10, Permanent
    <3>7. \A x \in net : x.kind = "wal" => x.key \in Batches /\ (Reached(x.key) => Reached(x.key)')
      BY <1>1, <1>10 DEF Stable, Type, SealCreates, WalCreates
    <3>8. (proc'[q].at = "Ready" /\ ~proc'[q].flight) => (proc[q].at = "Ready" /\ ~proc[q].flight)
      BY <2>2 DEF SameButCollector
    <3> QED BY <2>1, <3>1, <3>2, <3>3, <3>4, <3>5, <3>6, <3>7, <3>8, <1>1 DEF LocalNet
  <2> QED BY <2>3, <2>4, <2>5, <2>6 DEF Local
<1>22. acked' \subseteq landed'
  BY <1>1 DEF PartitionInv
<1> QED BY <1>10, <1>17, <1>18, <1>20, <1>21, <1>22 DEF PartitionInv

-----------------------------------------------------------------------------
(* A create reaches the store. *)

\* What it does there.
LandEffect(c) ==
    /\ Occupant(c) # None => Quiet
    /\ Occupant(c) = None /\ c.kind = "seal" =>
         seals' = [seals EXCEPT ![c.key] = c.object] /\ wal' = wal /\ landed' = landed
    /\ Occupant(c) = None /\ c.kind = "wal" =>
         /\ seals' = seals /\ wal' = [wal EXCEPT ![c.key] = c.object]
         /\ c.object.kind = "fence" => landed' = landed
         /\ c.object.kind = "run" =>
              landed' = landed \cup {[batch |-> c.key, owner |-> c.object.owner]}

\* d is the answer to c, for a process that still listens.
LandStep(c, d) ==
    /\ c.status = "sent"
    /\ d.by = c.by /\ d.kind = c.kind /\ d.key = c.key /\ d.object = c.object
    /\ d.status = (IF Occupant(c) = None THEN "won" ELSE "lost")
    /\ d \in SealCreates \cup WalCreates
    /\ net' = (net \ {c}) \cup (IF c.by = None THEN {} ELSE {d})
    /\ tables' = tables /\ proc' = proc /\ acked' = acked
    /\ LandEffect(c)

\* Land is such a step.
LEMMA LandIsStep ==
  ASSUME PartitionInv, NEW c \in net, Land(c)
  PROVE  \E d : LandStep(c, d)
<1>1. PICK d : d = [c EXCEPT !.status = IF Occupant(c) = None THEN "won" ELSE "lost"]
  OBVIOUS
<1>2. c \in SealCreates \/ c \in WalCreates
  BY DEF PartitionInv, Type
<1>3. /\ d.by = c.by /\ d.kind = c.kind /\ d.key = c.key /\ d.object = c.object
      /\ d.status = (IF Occupant(c) = None THEN "won" ELSE "lost")
      /\ d \in SealCreates \cup WalCreates
  <2>1. PICK answer : answer = IF Occupant(c) = None THEN "won" ELSE "lost"
    OBVIOUS
  <2>2. answer \in {"sent", "won", "lost"} /\ d = [c EXCEPT !.status = answer]
    BY <2>1, <1>1
  <2>3. CASE c \in SealCreates
    BY <2>1, <2>2, <2>3 DEF SealCreates
  <2>4. CASE c \in WalCreates
    BY <2>1, <2>2, <2>4 DEF WalCreates
  <2> QED BY <2>3, <2>4, <1>2
<1>4. /\ c.status = "sent" /\ tables' = tables /\ proc' = proc /\ acked' = acked
      /\ net' = (net \ {c}) \cup (IF c.by = None THEN {} ELSE {d})
  BY <1>1 DEF Land
<1>5. LandEffect(c)
  <2>1. c.kind \in {"seal", "wal"} /\ (c.kind = "wal" => c.object.kind \in {"run", "fence"})
    BY KindOf
  <2>2. CASE Occupant(c) # None
    BY <2>2 DEF Land, LandEffect, Quiet
  <2>3. CASE Occupant(c) = None
    BY <2>1, <2>3 DEF Land, LandEffect
  <2> QED BY <2>2, <2>3
<1> QED BY <1>3, <1>4, <1>5 DEF LandStep

\* The creates after such a step, each with the one that it was.
LEMMA LandHeirs ==
  ASSUME PartitionInv, NEW c \in net, NEW d, LandStep(c, d)
  PROVE  /\ \A x \in net : x # c => x \in net'
         /\ \A x \in net' : (x \in net /\ x # c) \/ (c.by # None /\ x = d)
         /\ \A x \in net' : \E y \in net : /\ x.by = y.by /\ x.kind = y.kind /\ x.key = y.key
                                           /\ x.object = y.object
         /\ c.by # None => d \in net'
BY DEF LandStep

\* What the store holds after it.
LEMMA LandWrites ==
  ASSUME PartitionInv, NEW c \in net, LandEffect(c)
  PROVE  /\ seals' \in [Generations -> SealObjects \cup {None}]
         /\ wal' \in [Batches -> WalObjects \cup {None}]
         /\ landed' \subseteq Runs /\ landed \subseteq landed'
         /\ \A g \in Generations : seals'[g] = seals[g] \/
              (c.kind = "seal" /\ g = c.key /\ seals[g] = None /\ seals'[g] = c.object)
         /\ \A b \in Batches : wal'[b] = wal[b] \/
              (c.kind = "wal" /\ b = c.key /\ wal[b] = None /\ wal'[b] = c.object)
         /\ \A run \in landed' : run \in landed \/
              (SendsRun(c) /\ run = [batch |-> c.key, owner |-> c.object.owner])
<1>1. /\ seals \in [Generations -> SealObjects \cup {None}]
      /\ wal \in [Batches -> WalObjects \cup {None}] /\ landed \subseteq Runs
  BY DEF PartitionInv, Type, TypeOK
<1>2. CASE Occupant(c) # None
  BY <1>1, <1>2 DEF LandEffect, Quiet
<1>3. CASE Occupant(c) = None /\ c.kind = "seal"
  <2>1. c.key \in Generations /\ c.object \in SealObjects /\ seals[c.key] = None
    BY <1>3, KindOf DEF Occupant
  <2>2. seals' = [seals EXCEPT ![c.key] = c.object] /\ wal' = wal /\ landed' = landed
    BY <1>3 DEF LandEffect
  <2> QED BY <1>1, <1>3, <2>1, <2>2
<1>4. CASE Occupant(c) = None /\ c.kind = "wal"
  <2>1. /\ c.key \in Batches /\ c.object \in WalObjects /\ wal[c.key] = None
        /\ c.object.owner \in Owners /\ c.object.kind \in {"run", "fence"}
    BY <1>4, KindOf DEF Occupant
  <2>2. seals' = seals /\ wal' = [wal EXCEPT ![c.key] = c.object]
    BY <1>4 DEF LandEffect
  <2>3. [batch |-> c.key, owner |-> c.object.owner] \in Runs
    BY <2>1 DEF Runs
  <2>4. landed' = landed \/ (c.object.kind = "run" /\ landed' = landed \cup {[batch |-> c.key, owner |-> c.object.owner]})
    BY <1>4, <2>1 DEF LandEffect
  <2> QED BY <1>1, <1>4, <2>1, <2>2, <2>3, <2>4 DEF SendsRun
<1> QED BY <1>2, <1>3, <1>4, KindOf

\* Types.
LEMMA LandType ==
  ASSUME PartitionInv, NEW c \in net, NEW d, LandStep(c, d)
  PROVE  Type'
<1>1. LandEffect(c) /\ TypeOK
  BY DEF LandStep, PartitionInv, Type
<1>2. TypeOK'
  BY <1>1, LandWrites DEF TypeOK, LandStep
<1>3. net' \subseteq SealCreates \cup WalCreates
  BY DEF LandStep, PartitionInv, Type
<1>4. DOMAIN proc' = Procs /\ \A p \in Procs : StateType(proc[p])'
  BY DEF LandStep, PartitionInv, Type
<1> QED BY <1>2, <1>3, <1>4 DEF Type

\* A create other than c, when c has landed.
LEMMA LandOther ==
  ASSUME PartitionInv, NEW c \in net, NEW d, LandStep(c, d), Stable, NEW x \in net, x # c
  PROVE  CreateOk(x)'
<1>1. Type /\ StoreInv /\ LandEffect(c) /\ tables' = tables /\ UniqueInv
  BY DEF PartitionInv, LandStep
<1>2. ASSUME x.kind = "seal" PROVE SealCreateOk(x)'
  <2>1. x \in SealCreates /\ SealCreateOk(x) /\ x.key \in Generations
    BY <1>2, KindOf DEF CreateOk
  <2>2. seals'[x.key] = None => seals[x.key] = None
    BY <1>1, <2>1 DEF Stable
  <2>3. seals'[x.key] = None => x.object.tables \subseteq tables'
    BY <1>1, <2>1, <2>2 DEF SealCreateOk
  <2> QED BY <1>1, <2>1, <2>3, SealCreateStable
<1>3. ASSUME x.kind = "wal" PROVE WalCreateOk(x)'
  <2>1. x \in WalCreates /\ WalCreateOk(x)
    BY <1>3, KindOf DEF CreateOk
  <2>2. ASSUME x.object.kind = "run", NEW k, [batch |-> k, owner |-> x.object.owner] \in landed'
        PROVE  [batch |-> k, owner |-> x.object.owner] \in landed
    <3>1. SendsRun(c) => c.object.owner # x.object.owner
      BY <1>1, <1>3, <2>2 DEF UniqueInv, SendsRun
    <3>2. \/ [batch |-> k, owner |-> x.object.owner] \in landed
          \/ /\ SendsRun(c)
             /\ [batch |-> k, owner |-> x.object.owner] = [batch |-> c.key, owner |-> c.object.owner]
      BY <1>1, <2>2, LandWrites
    <3> QED BY <3>1, <3>2
  <2> QED BY <1>1, <2>1, <2>2, WalCreateStable
<1> QED BY <1>2, <1>3 DEF CreateOk

\* What is known of the creates.
LEMMA LandNet ==
  ASSUME PartitionInv, NEW c \in net, NEW d, LandStep(c, d), Stable, c.by # None => CreateOk(d)'
  PROVE  NetInv'
<1>1. NetInv
  BY DEF PartitionInv
<1>2. \A x \in net' : x.by = None => x.status = "sent"
  BY <1>1, LandHeirs DEF NetInv, LandStep
<1>3. ASSUME NEW x \in net', x.by # None PROVE Awaited(x)'
  <2>1. PICK y \in net : x.by = y.by /\ x.kind = y.kind /\ x.key = y.key /\ x.object = y.object
    BY LandHeirs
  <2>2. Awaited(y) /\ proc' = proc
    BY <1>1, <1>3, <2>1 DEF NetInv, LandStep
  <2> QED BY <2>1, <2>2 DEF Awaited
<1>4. ASSUME NEW x \in net', NEW y \in net', x.by # None, x.by = y.by, x.kind = y.kind
      PROVE  x = y
  BY <1>1, <1>4, LandHeirs DEF NetInv, LandStep
<1>5. \A x \in net' : CreateOk(x)'
  BY LandHeirs, LandOther
<1> QED BY <1>2, <1>3, <1>4, <1>5 DEF NetInv, CreateOk

\* One author per claim: the Seal that lands had none.
LEMMA LandUnique ==
  ASSUME PartitionInv, NEW c \in net, NEW d, LandStep(c, d)
  PROVE  UniqueInv'
<1>1. /\ UniqueInv /\ LandEffect(c) /\ proc' = proc
      /\ d.kind = c.kind /\ d.key = c.key /\ d.object = c.object /\ d.by = c.by
      /\ d.status = (IF Occupant(c) = None THEN "won" ELSE "lost")
  BY DEF PartitionInv, LandStep
<1>2. \A q \in Procs : (HoldsClaim(q)' <=> HoldsClaim(q)) /\ proc'[q] = proc[q]
  BY <1>1 DEF HoldsClaim
<1>3. ClaimsAreUnique'
  BY <1>1, <1>2 DEF UniqueInv, ClaimsAreUnique
<1>4. \A x \in net : x.kind = "seal" /\ x.status = "won" => x.key \in Generations /\ seals[x.key] # None
  BY KindOf, PartitionAssumption DEF CreateOk, SealCreateOk
<1>5. ASSUME NEW k, NoObjectOf(k) PROVE NoObjectOf(k)'
  <2>1. ASSUME NEW b \in Batches, wal'[b] # None PROVE wal'[b].owner # k
    <3>1. \/ wal'[b] = wal[b]
          \/ c.kind = "wal" /\ wal'[b] = c.object
      BY <1>1, LandWrites
    <3> QED BY <3>1, <2>1, <1>5 DEF NoObjectOf
  <2>2. \A x \in net' : x.kind = "wal" => x.object.owner # k
    BY <1>5, LandHeirs DEF NoObjectOf
  <2> QED BY <2>1, <2>2 DEF NoObjectOf
<1>6. ASSUME NEW x \in net', x.kind = "seal", x.status = "won"
      PROVE  /\ \A y \in net' : y.kind = "seal" /\ y.status = "won" /\ y.key = x.key => y = x
             /\ \A q \in Procs : HoldsClaim(q)' => proc'[q].claim # x.key
             /\ NoObjectOf(x.key)'
  <2>1. d.kind = "seal" /\ d.status = "won" => seals[d.key] = None /\ d.key \in Generations
    BY <1>1, KindOf DEF Occupant
  <2>2. CASE x \in net
    <3>1. \A y \in net' : y.kind = "seal" /\ y.status = "won" /\ y.key = x.key => y = x
      BY <1>1, <1>4, <1>6, <2>1, <2>2, LandHeirs DEF UniqueInv
    <3>2. (\A q \in Procs : HoldsClaim(q) => proc[q].claim # x.key) /\ NoObjectOf(x.key)
      BY <1>1, <1>6, <2>2 DEF UniqueInv
    <3> QED BY <3>1, <3>2, <1>2, <1>5
  <2>3. CASE x \notin net
    <3>1. x = d
      BY <2>3, LandHeirs
    <3>2. \A y \in net' : y.kind = "seal" /\ y.status = "won" /\ y.key = x.key => y = x
      BY <1>4, <1>6, <2>1, <3>1, LandHeirs
    <3>3. \A g : IsClaim(g) => g # x.key
      BY <1>6, <2>1, <3>1 DEF IsClaim
    <3>4. \A q \in Procs : HoldsClaim(q) => proc[q].claim # x.key
      BY <3>3, Claimant
    <3>5. NoObjectOf(x.key)
      <4>1. \A b \in Batches : wal[b] # None => IsClaim(wal[b].owner)
        BY OwnersAreClaims
      <4>2. \A y \in net : y.kind = "wal" => IsClaim(y.object.owner)
        BY KindOf DEF CreateOk, WalCreateOk
      <4> QED BY <4>1, <4>2, <3>3 DEF NoObjectOf
    <3> QED BY <3>2, <3>4, <3>5, <1>2, <1>5
  <2> QED BY <2>2, <2>3
<1>7. ASSUME NEW x \in net', NEW y \in net', SendsRun(x), SendsRun(y), x.object.owner = y.object.owner
      PROVE  x = y
  <2>1. ~(c.by # None /\ x = d) => x \in net /\ x # c
    BY LandHeirs
  <2>2. ~(c.by # None /\ y = d) => y \in net /\ y # c
    BY LandHeirs
  <2> QED BY <2>1, <2>2, <1>1, <1>7 DEF UniqueInv, SendsRun
<1> QED BY <1>3, <1>6, <1>7 DEF UniqueInv

\* A RUN that lands is not one of a process that has none on its way.
LEMMA LandedElsewhere ==
  ASSUME PartitionInv, NEW c \in net, LandEffect(c), NEW owner, NEW batch,
         \A x \in net : SendsRun(x) => x.object.owner # owner,
         [batch |-> batch, owner |-> owner] \in landed'
  PROVE  [batch |-> batch, owner |-> owner] \in landed
<1>1. \/ [batch |-> batch, owner |-> owner] \in landed
      \/ SendsRun(c) /\ [batch |-> batch, owner |-> owner] = [batch |-> c.key, owner |-> c.object.owner]
  BY LandWrites
<1> QED BY <1>1

\* What is on its way of a process, when c has landed.
LEMMA LandLocalNet ==
  ASSUME PartitionInv, NEW c \in net, NEW d, LandStep(c, d), Stable, NEW q \in Procs
  PROVE  LocalNet(q)'
<1>1. /\ LandEffect(c) /\ proc' = proc /\ c.status = "sent" /\ LocalNet(q)
      /\ Type /\ TypeOK /\ StoreInv /\ SealsInv
  BY DEF PartitionInv, LandStep, Local, Type, StoreInv
<1>2. PICK claim : claim = proc[q].claim
  OBVIOUS
<1>3. (PreReady(q)' <=> PreReady(q)) /\ (PreFence(q)' <=> PreFence(q)) /\ proc'[q] = proc[q]
  BY <1>1 DEF PreReady, PreFence
<1>4. PreReady(q) \/ proc[q].at = "Ready" => claim \in Owners
  BY <1>2, Claimant DEF PreReady, PreFence, HoldsClaim
<1>5. PreFence(q) => PreReady(q)
  BY DEF PreReady
<1>6. PreReady(q) \/ (proc[q].at = "Ready" /\ ~proc[q].flight) =>
        \A x \in net : SendsRun(x) => x.object.owner # claim
  BY <1>1, <1>2 DEF LocalNet
<1>7. ASSUME PreReady(q), NEW b \in Batches PROVE ~IsRun(b, claim)'
  <2>1. ~IsRun(b, claim)
    BY <1>1, <1>2, <1>7 DEF LocalNet
  <2>2. wal'[b] = wal[b] \/ (c.kind = "wal" /\ wal'[b] = c.object)
    BY <1>1, LandWrites
  <2>3. ~(c.kind = "wal" /\ c.object.kind = "run" /\ c.object.owner = claim)
    BY <1>6, <1>7 DEF SendsRun
  <2> QED BY <2>1, <2>2, <2>3 DEF IsRun, Holds
<1>8. ASSUME PreReady(q) \/ (proc[q].at = "Ready" /\ ~proc[q].flight), NEW x \in net', SendsRun(x)
      PROVE  x.object.owner # claim
  <2>1. PICK y \in net : x.kind = y.kind /\ x.object = y.object
    BY LandHeirs
  <2> QED BY <2>1, <1>6, <1>8 DEF SendsRun
<1>9. ASSUME PreFence(q), NEW x \in net', x.kind = "wal", x.object.owner = claim, x.by # q
      PROVE  Reached(x.key)'
  <2>1. PICK y \in net : x.by = y.by /\ x.kind = y.kind /\ x.key = y.key /\ x.object = y.object
    BY LandHeirs
  <2>2. Reached(y.key) /\ y.key \in Batches
    BY <2>1, <1>1, <1>2, <1>9, KindOf DEF LocalNet
  <2> QED BY <2>1, <2>2 DEF Stable
<1>10. ASSUME PreFence(q), NEW b \in Batches, IsFence(b, claim)'
       PROVE  \/ Superseded(claim)'
              \/ \E x \in net' : x.by = q /\ x.kind = "wal" /\ x.status = "won"
  <2>1. Superseded(claim) => Superseded(claim)'
    BY <1>1, <1>4, <1>5, <1>10, Permanent
  <2>2. ASSUME NEW f \in Batches, IsFence(f, claim)
        PROVE  \/ Superseded(claim)'
               \/ \E x \in net' : x.by = q /\ x.kind = "wal" /\ x.status = "won"
    <3>1. \/ Superseded(claim)
          \/ \E x \in net : x.by = q /\ x.kind = "wal" /\ x.status = "won"
      BY <1>1, <1>2, <1>10, <2>2 DEF LocalNet
    <3>2. \A x \in net : x.status = "won" => x \in net'
      BY <1>1, LandHeirs
    <3> QED BY <2>1, <3>1, <3>2
  <2>3. CASE ~IsFence(b, claim)
    <3>1. c.kind = "wal" /\ b = c.key /\ wal[b] = None /\ wal'[b] = c.object
      BY <2>3, <1>1, <1>10, LandWrites DEF IsFence, Holds
    <3>2. c.object.kind = "fence" /\ c.object.owner = claim
      BY <3>1, <1>10 DEF IsFence, Holds
    <3>3. c \in WalCreates /\ WalCreateOk(c)
      BY <3>1, KindOf DEF CreateOk
    <3>4. CASE c.by = q
      <4>1. c.by # None
        BY <3>4, PartitionAssumption
      <4>2. Occupant(c) = None
        BY <3>1 DEF Occupant
      <4>3. d \in net' /\ d.by = q /\ d.kind = "wal" /\ d.status = "won"
        BY <3>1, <3>4, <4>1, <4>2, LandHeirs DEF LandStep
      <4> QED BY <4>3
    <3>5. CASE c.by # q
      <4>1. Reached(c.key)
        BY <3>1, <3>2, <3>5, <1>1, <1>2, <1>10 DEF LocalNet
      <4>2. PICK f \in Batches, e \in Owners : IsFence(f, e) /\ e >= claim
        BY <4>1, <3>1, <3>2, <3>3, <1>1, FenceLandsWhere
      <4>3. CASE e = claim
        BY <4>2, <4>3, <2>2
      <4>4. CASE e # claim
        <5>1. Superseded(claim)
          BY <4>2, <4>4, <1>4, <1>5, <1>10 DEF Superseded
        <5> QED BY <5>1, <2>1
      <4> QED BY <4>3, <4>4
    <3> QED BY <3>4, <3>5
  <2> QED BY <2>2, <2>3
<1> QED BY <1>2, <1>3, <1>7, <1>8, <1>9, <1>10 DEF LocalNet

\* What a process knows, when c has landed.
LEMMA LandLocal ==
  ASSUME PartitionInv, NEW c \in net, NEW d, LandStep(c, d), Stable, NEW q \in Procs
  PROVE  Local(q)'
<1>1. /\ LandEffect(c) /\ proc' = proc /\ Type /\ StoreInv
      /\ LocalBoot(q) /\ LocalReady(q) /\ LocalCollector(q) /\ LocalNet(q)
  BY DEF PartitionInv, LandStep, Local
<1>2. proc'[q] = proc[q] /\ SameButCollector(q)
  BY <1>1 DEF SameButCollector
<1>3. LocalBoot(q)'
  BY <1>1, <1>2, LocalBootStable
<1>4. LocalReady(q)'
  <2>1. ASSUME proc[q].at = "Ready", ~proc[q].flight,
               [batch |-> proc[q].durable_batch + 1, owner |-> proc[q].claim] \in landed'
        PROVE  [batch |-> proc[q].durable_batch + 1, owner |-> proc[q].claim] \in landed
    <3>1. \A x \in net : SendsRun(x) => x.object.owner # proc[q].claim
      BY <1>1, <2>1 DEF LocalNet
    <3> QED BY <3>1, <2>1, <1>1, LandedElsewhere
  <2> QED BY <2>1, <1>1, <1>2, LocalReadyStable
<1>5. LocalCollector(q)'
  <2>1. ASSUME proc[q].at = "Ready", proc[q].collector # None
        PROVE  /\ proc[q].collector.proof =>
                    wal'[proc[q].collector.next] = wal[proc[q].collector.next]
               /\ \A t \in proc[q].collector.tables, g \in Generations :
                    g > proc[q].generation /\ seals[g] = None /\ seals'[g] # None =>
                    t \notin seals'[g].tables
    <3>1. IsReady(q)
      BY <2>1 DEF IsReady
    <3>2. proc[q].collector \in Collections /\ CollectorKnows(proc[q])
      BY <2>1, <3>1, ReadyFacts DEF ReadyState
    <3>3. ASSUME proc[q].collector.proof
          PROVE  wal'[proc[q].collector.next] = wal[proc[q].collector.next]
      <4>1. proc[q].collector.next \in Batches /\ wal[proc[q].collector.next] # None
        BY <2>1, <3>2, <3>3 DEF CollectorKnows, Collections
      <4> QED BY <4>1, <1>1, LandWrites
    <3>4. ASSUME NEW t \in proc[q].collector.tables, NEW g \in Generations,
                 seals[g] = None, seals'[g] # None
          PROVE  t \notin seals'[g].tables
      <4>1. c.kind = "seal" /\ g = c.key /\ seals'[g] = c.object
        BY <3>4, <1>1, LandWrites
      <4>2. t \notin c.object.tables
        BY <4>1, <3>1, <3>4, <2>1, DroppedStaysOut
      <4> QED BY <4>1, <4>2
    <3> QED BY <3>3, <3>4
  <2> QED BY <2>1, <1>1, <1>2, LocalCollectorStable
<1> QED BY <1>3, <1>4, <1>5, LandLocalNet DEF Local

\* The step of a create keeps the invariant if the store and the answer are sound.
LEMMA LandStepInv ==
  ASSUME PartitionInv, NEW c \in net, NEW d, LandStep(c, d), Stable, StoreInv',
         c.by # None => CreateOk(d)'
  PROVE  PartitionInv'
<1>1. Type' /\ NetInv' /\ UniqueInv' /\ \A q \in Procs : Local(q)'
  BY LandType, LandNet, LandUnique, LandLocal
<1>2. acked' \subseteq landed'
  BY LandWrites DEF LandStep, PartitionInv
<1> QED BY <1>1, <1>2 DEF PartitionInv

\* The key is taken: the store is as it was.
LEMMA LandLostInv ==
  ASSUME PartitionInv, NEW c \in net, NEW d, LandStep(c, d), Occupant(c) # None
  PROVE  PartitionInv'
<1>1. /\ Quiet /\ tables' = tables /\ Type /\ StoreInv /\ CreateOk(c) /\ c.status = "sent"
      /\ d.kind = c.kind /\ d.key = c.key /\ d.object = c.object /\ d.status = "lost"
  BY KindOf DEF LandStep, LandEffect, PartitionInv
<1>2. Stable /\ StoreInv'
  BY <1>1, QuietTables, QuietStore
<1>3. ASSUME c.kind = "seal" PROVE SealCreateOk(d)'
  <2>1. SealCreateOk(c) /\ seals[d.key] # None
    BY <1>1, <1>3 DEF CreateOk, Occupant
  <2>2. /\ SuccessorOk(d.key, d.object)' /\ ReachedTo(d.object.cut)'
        /\ Content(d.object.tables) = LandedTo(d.object.cut)'
    BY <2>1, <1>1, QuietFacts DEF SealCreateOk
  <2>3. seals' = seals
    BY <1>1 DEF Quiet
  <2> QED BY <2>1, <2>2, <2>3, <1>1 DEF SealCreateOk
<1>4. ASSUME c.kind = "wal" PROVE WalCreateOk(d)'
  <2>1. WalCreateOk(c)
    BY <1>1, <1>4 DEF CreateOk
  <2>2. /\ IsClaim(d.object.owner)' /\ ReachedTo(d.key - 1)' /\ seals' = seals
        /\ d.key > seals[d.object.owner].cut /\ d.key < CoordinateMax
    BY <2>1, <1>1, QuietFacts DEF WalCreateOk, Quiet
  <2>3. d.object.kind = "run" =>
          (\E f \in Batches : IsFence(f, d.object.owner)') /\ Slot(d.key, d.object.owner)'
    BY <2>1, <1>1, QuietFacts DEF WalCreateOk
  <2> QED BY <2>2, <2>3, <1>1 DEF WalCreateOk
<1>5. CreateOk(d)'
  BY <1>1, <1>3, <1>4 DEF CreateOk
<1> QED BY <1>2, <1>5, LandStepInv

\* A Seal takes effect.
LEMMA LandSealInv ==
  ASSUME PartitionInv, NEW c \in net, NEW d, LandStep(c, d), Occupant(c) = None, c.kind = "seal"
  PROVE  PartitionInv'
<1>1. /\ tables' = tables /\ Type /\ StoreInv /\ c.status = "sent"
      /\ c \in SealCreates /\ SealCreateOk(c) /\ c.key \in Generations /\ c.object \in SealObjects
      /\ d.kind = c.kind /\ d.key = c.key /\ d.object = c.object /\ d.status = "won"
      /\ seals[c.key] = None
      /\ seals' = [seals EXCEPT ![c.key] = c.object] /\ wal' = wal /\ landed' = landed
  BY KindOf DEF LandStep, LandEffect, PartitionInv, CreateOk, Occupant
<1>2. Stable /\ StoreInv'
  BY <1>1, LandSealStore
<1>3. seals'[c.key] = c.object /\ c.object # None
  BY <1>1, PartitionAssumption DEF Type, TypeOK
<1>4. SealCreateOk(c)'
  BY <1>1, <1>2, <1>3, SealCreateStable
<1>5. SealCreateOk(d)'
  BY <1>1, <1>3, <1>4 DEF SealCreateOk
<1> QED BY <1>1, <1>2, <1>5, LandStepInv DEF CreateOk

\* A RUN takes effect: its owner may write the next one.
LEMMA LandRunInv ==
  ASSUME PartitionInv, NEW c \in net, NEW d, LandStep(c, d), Occupant(c) = None, c.kind = "wal",
         c.object.kind = "run"
  PROVE  PartitionInv'
<1>1. /\ tables' = tables /\ Type /\ TypeOK /\ StoreInv /\ SealsInv /\ SuffixInv /\ c.status = "sent"
      /\ c \in WalCreates /\ WalCreateOk(c) /\ c.key \in Batches
      /\ d.kind = c.kind /\ d.key = c.key /\ d.object = c.object /\ d.status = "won"
      /\ wal[c.key] = None /\ seals' = seals /\ wal' = [wal EXCEPT ![c.key] = c.object]
      /\ landed' = landed \cup {[batch |-> c.key, owner |-> c.object.owner]}
  BY KindOf DEF LandStep, LandEffect, PartitionInv, CreateOk, Occupant, Type, StoreInv
<1>2. Stable /\ StoreInv'
  BY <1>1, LandRunStore
<1>3. PICK k : k = c.key
  OBVIOUS
<1>4. PICK owner : owner = c.object.owner
  OBVIOUS
<1>5. /\ owner \in Owners /\ c.object # None
      /\ \A b \in Batches : wal'[b] = IF b = k THEN c.object ELSE wal[b]
      /\ NewestCut' = NewestCut /\ NewestCut \in Cuts /\ Reached(k)'
  BY <1>1, <1>3, <1>4, LandWalFacts
<1>6. ~Reached(k) /\ ~Superseded(owner)
  BY <1>1, <1>3, <1>4, RunIsInForce
<1>7. /\ IsClaim(owner)' /\ seals' = seals /\ k > seals[owner].cut
      /\ k < CoordinateMax /\ k \in Batches
      /\ ReachedTo(k - 1)'
      /\ \E f \in Batches : IsFence(f, owner)'
  BY <1>1, <1>2, <1>3, <1>4, <1>5, Permanent DEF WalCreateOk
<1>8. ReachedTo(k)'
  <2> SUFFICES ASSUME NEW x \in Batches, x <= k PROVE Reached(x)'
    BY DEF ReachedTo
  <2>1. CASE x = k
    BY <2>1, <1>5
  <2>2. CASE x # k
    BY <2>2, <1>7 DEF ReachedTo
  <2> QED BY <2>1, <2>2
<1>9. Slot(k + 1, owner)'
  <2>1. k + 1 \in Batches /\ k + 1 > k
    BY <1>7
  <2>2. wal[k + 1] = None
    BY <2>1, <1>1, <1>6, <1>7, NothingAbove
  <2>3. wal'[k + 1] = None
    BY <2>1, <2>2, <1>5
  <2>4. k + 1 > NewestCut'
    BY <1>5, <1>6, <1>7 DEF Reached
  <2>5. \A b \in Batches, e \in Owners : IsFence(b, e)' => IsFence(b, e)
    BY <1>5 DEF IsFence, Holds
  <2>6. ~Superseded(owner)'
    BY <2>5, <1>6 DEF Superseded
  <2> QED BY <2>3, <2>4, <2>6 DEF Slot
<1>10. wal'[k] = c.object /\ [batch |-> k, owner |-> owner] \in landed'
  BY <1>1, <1>3, <1>4, <1>5, <1>7
<1>11. WalCreateOk(d)'
  BY <1>1, <1>3, <1>4, <1>7, <1>8, <1>9, <1>10 DEF WalCreateOk
<1> QED BY <1>1, <1>2, <1>11, LandStepInv DEF CreateOk

\* A FENCE takes effect: for the process that listens it is the newest one.
LEMMA LandFenceInv ==
  ASSUME PartitionInv, NEW c \in net, NEW d, LandStep(c, d), Occupant(c) = None, c.kind = "wal",
         c.object.kind = "fence"
  PROVE  PartitionInv'
<1>1. /\ tables' = tables /\ Type /\ TypeOK /\ StoreInv /\ SealsInv /\ c.status = "sent"
      /\ c \in WalCreates /\ WalCreateOk(c) /\ c.key \in Batches
      /\ d.kind = c.kind /\ d.key = c.key /\ d.object = c.object /\ d.status = "won"
      /\ wal[c.key] = None /\ seals' = seals /\ wal' = [wal EXCEPT ![c.key] = c.object]
      /\ landed' = landed
  BY KindOf DEF LandStep, LandEffect, PartitionInv, CreateOk, Occupant, Type, StoreInv
<1>2. Stable /\ StoreInv'
  BY <1>1, LandFenceStore
<1>3. PICK k : k = c.key
  OBVIOUS
<1>4. PICK owner : owner = c.object.owner
  OBVIOUS
<1>5. /\ owner \in Owners /\ c.object # None
      /\ \A b \in Batches : wal'[b] = IF b = k THEN c.object ELSE wal[b]
  BY <1>1, <1>3, <1>4, LandWalFacts
<1>6. /\ IsClaim(owner)' /\ seals' = seals /\ k > seals[owner].cut
      /\ k < CoordinateMax /\ k \in Batches
      /\ ReachedTo(k - 1)'
  BY <1>1, <1>2, <1>3, <1>4, <1>5, Permanent DEF WalCreateOk
<1>7. wal'[k] = c.object
  BY <1>5, <1>6
<1>8. ASSUME c.by # None PROVE Superseded(owner)' \/ Top(k, owner)'
  <2>1. PICK q \in Procs : q = c.by
    BY <1>1, <1>8 DEF WalCreates
  <2>2. proc[q].at = "EstablishingFence" /\ proc[q].claim = owner
    <3>1. \/ proc[q].at = "EstablishingFence" /\ c.object = Wal("fence", proc[q].claim)
          \/ c.object = Wal("run", proc[q].claim)
      BY <2>1, Listening
    <3>2. Wal("run", proc[q].claim).kind = "run"
      BY DEF Wal
    <3>3. Wal("fence", proc[q].claim).owner = proc[q].claim
      BY DEF Wal
    <3> QED BY <3>1, <3>2, <3>3, <1>4
  <2>3. PreFence(q) /\ LocalNet(q)
    BY <2>2 DEF PreFence, PartitionInv, Local
  <2>4. \A x \in net : ~(x.by = q /\ x.kind = "wal" /\ x.status = "won")
    BY <2>1, <1>1, <1>8 DEF PartitionInv, NetInv
  <2>5. CASE Superseded(owner)
    BY <2>5, <1>1, <1>2, <1>5, Permanent
  <2>6. CASE ~Superseded(owner)
    <3>1. \A b \in Batches : ~IsFence(b, owner)
      BY <2>2, <2>3, <2>4, <2>6 DEF LocalNet
    <3>2. \A b \in Batches, e \in Owners : IsFence(b, e)' => IsFence(b, e) \/ (b = k /\ e = owner)
      BY <1>4, <1>5 DEF IsFence, Holds
    <3>3. IsFence(k, owner)'
      BY <1>4, <1>5, <1>6, <1>7 DEF IsFence, Holds
    <3>4. ~Superseded(owner)'
      BY <2>6, <3>2, <1>5 DEF Superseded
    <3>5. \A b \in Batches : IsFence(b, owner)' => b <= k
      BY <3>1, <3>2, <1>5, <1>6
    <3> QED BY <3>3, <3>4, <3>5 DEF Top
  <2> QED BY <2>5, <2>6
<1>9. c.by # None => WalCreateOk(d)'
  BY <1>1, <1>3, <1>4, <1>6, <1>7, <1>8 DEF WalCreateOk
<1> QED BY <1>1, <1>2, <1>9, LandStepInv DEF CreateOk

\* A create reaches the store, whatever it is and whatever it finds.
LEMMA LandInv ==
  ASSUME PartitionInv, NEW c \in net, Land(c)
  PROVE  PartitionInv'
<1>1. PICK d : LandStep(c, d)
  BY LandIsStep
<1>2. c.kind \in {"seal", "wal"} /\ (c.kind = "wal" => c.object.kind \in {"run", "fence"})
  BY KindOf
<1> QED BY <1>1, <1>2, LandLostInv, LandSealInv, LandRunInv, LandFenceInv

-----------------------------------------------------------------------------
(* The invariant. *)

\* It holds of an empty store.
LEMMA InitInv == Init => PartitionInv
<1> SUFFICES ASSUME Init PROVE PartitionInv
  OBVIOUS
<1>1. /\ seals = [g \in Generations |-> None] /\ wal = [b \in Batches |-> None]
      /\ tables = {} /\ net = {} /\ landed = {} /\ acked = {}
      /\ proc = [p \in Procs |-> [at |-> "DiscoveringHead"]]
  BY DEF Init
<1>2. (\A g \in Generations : seals[g] = None) /\ \A b \in Batches : wal[b] = None
  BY <1>1
<1>3. \A p \in Procs : proc[p].at = "DiscoveringHead"
  BY <1>1
<1>4. Newest = 0
  BY <1>2, NewestFacts
<1>5. Type
  <2>1. TypeOK
    BY <1>1 DEF TypeOK
  <2>2. \A p \in Procs : StateType(proc[p])
    BY <1>3 DEF StateType
  <2> QED BY <1>1, <2>1, <2>2 DEF Type
<1>6. StoreInv
  <2>1. SealsInv /\ ContentInv /\ HeadInv
    BY <1>2, <1>4 DEF SealsInv, ContentInv, HeadInv
  <2>2. SuffixInv /\ OwnersInv
    BY <1>2 DEF SuffixInv, OwnersInv
  <2>3. TopInv /\ LandedInv
    BY <1>1, <1>2 DEF TopInv, LandedInv
  <2> QED BY <2>1, <2>2, <2>3 DEF StoreInv
<1>7. NetInv
  BY <1>1 DEF NetInv
<1>8. UniqueInv
  BY <1>1, <1>3 DEF UniqueInv, ClaimsAreUnique, HoldsClaim
<1>9. ASSUME NEW p \in Procs PROVE Local(p)
  BY <1>3 DEF Local, LocalBoot, LocalReady, LocalCollector, LocalNet, HoldsClaim, PreReady, PreFence
<1> QED BY <1>1, <1>5, <1>6, <1>7, <1>8, <1>9 DEF PartitionInv

\* A step that changes nothing keeps it.
LEMMA StutterInv ==
  ASSUME PartitionInv, UNCHANGED vars
  PROVE  PartitionInv'
<1>1. /\ seals' = seals /\ wal' = wal /\ tables' = tables /\ net' = net /\ proc' = proc
      /\ landed' = landed /\ acked' = acked
  BY DEF vars, store, history
<1>2. Quiet /\ Type /\ StoreInv /\ NetInv /\ UniqueInv
  BY <1>1 DEF Quiet, PartitionInv
<1>3. Stable /\ StoreInv'
  BY <1>1, <1>2, QuietTables, QuietStore
<1>4. Type'
  BY <1>1, <1>2 DEF Type, TypeOK
<1>5. NetInv'
  <2>1. ASSUME NEW x \in net, x.kind = "seal" PROVE SealCreateOk(x)'
    <3>1. x \in SealCreates /\ SealCreateOk(x)
      BY <2>1, KindOf DEF CreateOk
    <3>2. seals'[x.key] = None => x.object.tables \subseteq tables'
      BY <3>1, <1>1 DEF SealCreateOk
    <3> QED BY <3>1, <3>2, <1>2, <1>3, SealCreateStable
  <2>2. ASSUME NEW x \in net, x.kind = "wal" PROVE WalCreateOk(x)'
    <3>1. x \in WalCreates /\ WalCreateOk(x)
      BY <2>2, KindOf DEF CreateOk
    <3> QED BY <3>1, <1>1, <1>2, <1>3, WalCreateStable
  <2>3. \A x \in net : x.by # None => Awaited(x)'
    BY <1>1, <1>2 DEF NetInv, Awaited
  <2> QED BY <1>1, <1>2, <2>1, <2>2, <2>3 DEF NetInv
<1>6. UniqueInv'
  BY <1>1, <1>2 DEF UniqueInv, ClaimsAreUnique, HoldsClaim, NoObjectOf
<1>7. ASSUME NEW q \in Procs PROVE Local(q)'
  <2>1. LocalBoot(q) /\ LocalReady(q) /\ LocalCollector(q) /\ LocalNet(q) /\ proc'[q] = proc[q]
    BY <1>1 DEF PartitionInv, Local
  <2>2. SameButCollector(q)
    BY <2>1 DEF SameButCollector
  <2>3. LocalNet(q)'
    BY <1>1, <1>2, <2>1, QuietFacts DEF LocalNet, PreReady, PreFence
  <2> QED BY <1>1, <1>2, <1>3, <2>1, <2>2, <2>3, LocalBootStable, LocalReadyStable,
             LocalCollectorStable DEF Local
<1>8. acked' \subseteq landed'
  BY <1>1 DEF PartitionInv
<1> QED BY <1>3, <1>4, <1>5, <1>6, <1>7, <1>8 DEF PartitionInv

\* Every step keeps it.
LEMMA NextInv ==
  ASSUME PartitionInv, [Next]_vars
  PROVE  PartitionInv'
<1>1. ASSUME NEW c \in net, Land(c) PROVE PartitionInv'
  BY <1>1, LandInv
<1>2. ASSUME NEW p \in Procs, Bootstrap(p) PROVE PartitionInv'
  BY <1>2, HeadDiscoveredInv, GenesisEstablishedInv, SealReadInv, ClaimPublishedInv, TableReadInv,
     WalTailObservedInv, TailReadInv, FenceEstablishedInv, ReplayReadInv, AnomalyRefreshedInv,
     FinalRefreshedInv DEF Bootstrap
<1>3. ASSUME NEW p \in Procs, Writes(p) PROVE PartitionInv'
  BY <1>3, DrainPendingInv, RunEstablishedInv, CheckpointInv, SealPublishedInv DEF Writes
<1>4. ASSUME NEW p \in Procs, Collects(p) PROVE PartitionInv'
  BY <1>4, CollectReadInv, CollectRunInv, CollectTableInv, CollectFinishedInv DEF Collects
<1>5. ASSUME NEW p \in Procs, Crash(p) PROVE PartitionInv'
  BY <1>5, CrashInv
<1>6. CASE UNCHANGED vars
  BY <1>6, StutterInv
<1> QED BY <1>1, <1>2, <1>3, <1>4, <1>5, <1>6 DEF Next

-----------------------------------------------------------------------------
(* The theorems. *)

\* The invariant holds in every reachable state: of the store, of the creates
\* that may still land in it, and of what each process has concluded.
THEOREM PartitionInvariant == Spec => []PartitionInv
BY InitInv, NextInv, PTL DEF Spec

\* Types of the shared store and of its histories, in every reachable state.
THEOREM PartitionTypeCorrect == Spec => []TypeOK
<1>1. PartitionInv => TypeOK
  BY DEF PartitionInv, Type
<1> QED BY <1>1, PartitionInvariant, PTL

\* A bootstrap finds every RUN that ever landed in the newest Seal's tables or
\* after its cut.
LEMMA LandedIsRecoverable ==
  ASSUME PartitionInv
  PROVE  landed \subseteq Recoverable
<1> SUFFICES ASSUME NEW run \in landed PROVE run \in Recoverable
  OBVIOUS
<1>1. run \in Runs /\ TypeOK /\ SealsInv
  BY DEF PartitionInv, Type, TypeOK, StoreInv
<1>2. run.batch \in Batches /\ run = [batch |-> run.batch, owner |-> run.owner]
  BY <1>1 DEF Runs
<1>3. NewestCut \in Cuts
  BY <1>1, HeadFacts
<1>4. CASE run.batch <= NewestCut
  <2>1. Newest # 0 /\ NewestCut = seals[Newest].cut
    BY <1>2, <1>4 DEF NewestCut
  <2>2. Newest \in Generations /\ seals[Newest] # None
    BY <2>1, NewestFacts
  <2>3. Content(seals[Newest].tables) = LandedTo(NewestCut)
    BY <2>1, <2>2 DEF PartitionInv, StoreInv, ContentInv, SealContent
  <2> QED BY <2>1, <2>3, <1>4 DEF Recoverable, LandedTo
<1>5. CASE ~(run.batch <= NewestCut)
  <2>1. IsRun(run.batch, run.owner)
    BY <1>5 DEF PartitionInv, StoreInv, LandedInv
  <2>2. wal[run.batch] # None /\ wal[run.batch].kind = "run" /\ wal[run.batch].owner = run.owner
    BY <2>1 DEF IsRun, Holds
  <2>3. IsClaim(run.owner)
    BY <2>2, <1>2, OwnersAreClaims
  <2>4. Newest # 0
    BY <2>3, NewestFacts DEF IsClaim
  <2>5. run.batch > seals[Newest].cut
    BY <2>4, <1>2, <1>3, <1>5 DEF NewestCut
  <2> QED BY <2>2, <2>4, <2>5, <1>2 DEF Recoverable
<1> QED BY <1>4, <1>5

\* No acknowledged RUN is ever lost, whatever crashes, takeovers, checkpoints,
\* collections and late creates follow its reply.
THEOREM AckedAlwaysRecoverable == Spec => []AckedIsRecoverable
<1>1. PartitionInv => AckedIsRecoverable
  BY LandedIsRecoverable DEF PartitionInv, AckedIsRecoverable
<1> QED BY <1>1, PartitionInvariant, PTL

\* A process that is Ready always holds exactly the RUNs that landed up to its
\* head.
THEOREM ReadyAlwaysHoldsLanded == Spec => []ReadyHoldsLanded
<1>1. PartitionInv => ReadyHoldsLanded
  BY DEF PartitionInv, Local, LocalReady, ReadyHoldsLanded, IsReady, LandedTo
<1> QED BY <1>1, PartitionInvariant, PTL

\* Once a process is Ready, no owner before it acknowledges a RUN that it does
\* not hold.
THEOREM HandoffAlwaysComplete == Spec => []HandoffIsComplete
<1>1. ASSUME PartitionInv PROVE HandoffIsComplete
  <2> SUFFICES ASSUME NEW p \in Procs, IsReady(p), NEW run \in acked, run.owner < proc[p].claim
               PROVE  run \in proc[p].durable
    BY DEF HandoffIsComplete
  <2>1. run \in landed
    BY <1>1 DEF PartitionInv
  <2>2. ReadyKnows(proc[p])
    BY <1>1, ReadyFacts
  <2> QED BY <2>1, <2>2 DEF ReadyKnows, LandedTo
<1> QED BY <1>1, PartitionInvariant, PTL

\* The tables of the newest Seal are always in the store: no collector deletes
\* what an opening must read.
THEOREM HeadTablesAlwaysExist == Spec => []HeadTablesExist
<1>1. PartitionInv => HeadTablesExist
  BY DEF PartitionInv, StoreInv, HeadInv, HeadTablesExist
<1> QED BY <1>1, PartitionInvariant, PTL

\* A claim never has two authors, though two claimants send identical bytes.
THEOREM ClaimsAlwaysUnique == Spec => []ClaimsAreUnique
<1>1. PartitionInv => ClaimsAreUnique
  BY DEF PartitionInv, UniqueInv
<1> QED BY <1>1, PartitionInvariant, PTL

-----------------------------------------------------------------------------
(* What a step may never do. *)

\* What a process does leaves Seals, WAL and RUNs alone, but for the delete of a
\* RUN by its collector.
LEMMA OwnStep ==
  ASSUME NEW p \in Procs, Bootstrap(p) \/ Writes(p) \/ Collects(p) \/ Crash(p)
  PROVE  Quiet \/ CollectRun(p)
<1>1. CASE Bootstrap(p)
  BY <1>1 DEF Bootstrap, Quiet, store, history, HeadDiscovered, GenesisEstablished, SealRead,
              ClaimPublished, TableRead, WalTailObserved, TailRead, FenceEstablished, ReplayRead,
              AnomalyRefreshed, FinalRefreshed
<1>2. CASE Writes(p)
  BY <1>2 DEF Writes, Quiet, store, history, DrainPending, RunEstablished, Checkpoint, SealPublished
<1>3. CASE Collects(p)
  BY <1>3 DEF Collects, Quiet, store, history, CollectRead, CollectTable, CollectFinished
<1>4. CASE Crash(p)
  BY <1>4 DEF Crash, Quiet, store, history
<1> QED BY <1>1, <1>2, <1>3, <1>4

\* The coordinate that a collector deletes holds a RUN.
LEMMA DeletesRun ==
  ASSUME PartitionInv, NEW p \in Procs, CollectRun(p)
  PROVE  /\ seals' = seals /\ landed' = landed
         /\ \E n \in Batches : wal[n] # None /\ wal[n].kind = "run" /\ wal' = [wal EXCEPT ![n] = None]
<1>1. /\ IsReady(p) /\ proc[p].collector # None /\ proc[p].collector.proof
      /\ wal' = [wal EXCEPT ![proc[p].collector.next] = None] /\ seals' = seals /\ landed' = landed
  BY DEF CollectRun, Collecting, history
<1>2. proc[p].collector \in Collections /\ CollectorKnows(proc[p])
  BY <1>1, ReadyFacts DEF ReadyState
<1> QED BY <1>1, <1>2 DEF CollectorKnows, Collections

\* No FENCE ever leaves its coordinate.
THEOREM FencesAlwaysStay == Spec => FencesStay
<1>1. ASSUME PartitionInv, [Next]_vars, NEW b \in Batches, wal[b] # None, wal[b].kind = "fence"
      PROVE  wal'[b] = wal[b]
  <2>1. ASSUME NEW c \in net, Land(c) PROVE wal'[b] = wal[b]
    <3>1. PICK d : LandStep(c, d)
      BY <1>1, <2>1, LandIsStep
    <3>2. LandEffect(c)
      BY <3>1 DEF LandStep
    <3> QED BY <3>2, <1>1, LandWrites
  <2>2. ASSUME NEW p \in Procs, Bootstrap(p) \/ Writes(p) \/ Collects(p) \/ Crash(p)
        PROVE  wal'[b] = wal[b]
    <3>1. CASE Quiet
      BY <3>1 DEF Quiet
    <3>2. CASE CollectRun(p)
      <4>1. PICK n \in Batches : wal[n].kind = "run" /\ wal' = [wal EXCEPT ![n] = None]
        BY <3>2, <1>1, DeletesRun
      <4>2. wal \in [Batches -> WalObjects \cup {None}]
        BY <1>1 DEF PartitionInv, Type, TypeOK
      <4> QED BY <4>1, <4>2, <1>1
    <3> QED BY <2>2, <3>1, <3>2, OwnStep
  <2>3. CASE UNCHANGED vars
    BY <2>3 DEF vars, store
  <2> QED BY <1>1, <2>1, <2>2, <2>3 DEF Next
<1>2. PartitionInv /\ [Next]_vars =>
        [\A b \in Batches : wal[b] # None /\ wal[b].kind = "fence" => wal'[b] = wal[b]]_vars
  BY <1>1
<1> QED BY <1>2, PartitionInvariant, PTL DEF Spec, FencesStay

-----------------------------------------------------------------------------
(* Who the author of a Seal is.  PartitionInv says what stands in the store; *)
(* that a checkpoint of the owner of a claim comes from its holder, and that *)
(* the Seal after its last one is another's claim, is an invariant on top.   *)

\* The process is the author of its claim, whether it has heard of it or not.
IsAuthor(p) == HoldsClaim(p) \/ (proc[p].at = "PublishingClaim" /\ Authored(p))

\* A checkpoint of the owner c that is on its way, or answered, is p's.
Sole(p, c) ==
    \A d \in net : d.kind = "seal" /\ d.key > 1 /\ d.object.owner = c
                     => d.by = p \/ d.object = seals[d.key - 1]

\* The Seal after g, if there is one, is a claim.
ClaimFollows(g) == g + 1 \in Generations /\ seals[g + 1] # None => seals[g + 1] = seals[g]

AuthorInv ==
    \A p \in Procs : IsAuthor(p) => Sole(p, proc[p].claim) /\ ClaimFollows(LastAuthored(p))

\* What a step of q does to the Seals on their way.
SealStep(q) ==
    /\ seals' = seals
    /\ \E s : Become(q, s)
    /\ \A d \in net' : d.by \in Procs /\ d.by # q => d \in net
    /\ \A d \in net : d.by # q => d \in net'
    /\ \A d \in net' : d.kind = "seal" /\ d.key > 1 =>
         \/ d \in net
         \/ \E c \in net : c.by = q /\ d = Orphan(c)
         \/ d.object = seals[d.key - 1]
         \/ HoldsClaim(q) /\ d.object.owner = proc[q].claim

\* q stays the author of what it was the author of, or ceases to be one.
KeepsAuthorship(q) ==
    IsAuthor(q)' =>
        /\ IsAuthor(q) /\ proc'[q].claim = proc[q].claim
        /\ LastAuthored(q)' = LastAuthored(q)
        /\ \A d \in net' : d.kind = "seal" /\ d.key > 1 => d \in net \/ d.by = q

\* The claim that a process is the author of is nobody else's.
LEMMA AuthorsApart ==
  ASSUME PartitionInv, NEW p \in Procs, NEW q \in Procs, p # q, IsAuthor(p), HoldsClaim(q)
  PROVE  proc[p].claim # proc[q].claim
<1>1. CASE HoldsClaim(p)
  BY <1>1 DEF PartitionInv, UniqueInv, ClaimsAreUnique
<1>2. CASE proc[p].at = "PublishingClaim" /\ Authored(p)
  <2>1. PICK c \in net : c.by = p /\ c.kind = "seal" /\ c.status = "won"
    BY <1>2 DEF Authored, Stands, At
  <2>2. c.key = proc[p].claim
    BY <1>2, <2>1, Listening
  <2> QED BY <2>1, <2>2 DEF PartitionInv, UniqueInv
<1> QED BY <1>1, <1>2 DEF IsAuthor

\* A step of one process keeps who the authors are.
LEMMA SealStepInv ==
  ASSUME PartitionInv, AuthorInv, NEW q \in Procs, SealStep(q), KeepsAuthorship(q)
  PROVE  AuthorInv'
<1> SUFFICES ASSUME NEW p \in Procs, IsAuthor(p)'
             PROVE  Sole(p, proc[p].claim)' /\ ClaimFollows(LastAuthored(p))'
  BY DEF AuthorInv
<1>1. seals' = seals
  BY DEF SealStep
<1>2. \A g : ClaimFollows(g)' <=> ClaimFollows(g)
  BY <1>1 DEF ClaimFollows
<1>3. CASE p = q
  <2>1. IsAuthor(q) /\ proc'[q].claim = proc[q].claim /\ LastAuthored(q)' = LastAuthored(q)
    BY <1>3 DEF KeepsAuthorship
  <2>2. Sole(q, proc[q].claim) /\ ClaimFollows(LastAuthored(q))
    BY <2>1 DEF AuthorInv
  <2>3. \A d \in net' : d.kind = "seal" /\ d.key > 1 => d \in net \/ d.by = q
    BY <1>3 DEF KeepsAuthorship
  <2>4. Sole(q, proc[q].claim)'
    BY <1>1, <2>1, <2>2, <2>3 DEF Sole
  <2>5. ClaimFollows(LastAuthored(q))'
    BY <1>1, <2>1, <2>2 DEF ClaimFollows
  <2> QED BY <1>3, <2>4, <2>5
<1>4. CASE p # q
  <2>1. proc'[p] = proc[p]
    BY <1>4 DEF SealStep, Become, PartitionInv, Type
  <2>2. \A d : d.by = p => (d \in net' <=> d \in net)
    BY <1>4 DEF SealStep
  <2>3. Authored(p)' <=> Authored(p)
    BY <2>2 DEF Authored, Stands, At
  <2>4. IsAuthor(p)
    BY <2>1, <2>3 DEF IsAuthor, HoldsClaim
  <2>5. LastAuthored(p)' = LastAuthored(p)
    BY <2>1, <2>3 DEF LastAuthored, IsReady
  <2>6. Sole(p, proc[p].claim) /\ ClaimFollows(LastAuthored(p))
    BY <2>4 DEF AuthorInv
  <2>7. ClaimFollows(LastAuthored(p))'
    BY <1>1, <2>5, <2>6 DEF ClaimFollows
  <2>8. ASSUME NEW d \in net', d.kind = "seal", d.key > 1, d.object.owner = proc[p].claim
        PROVE  d.by = p \/ d.object = seals[d.key - 1]
    <3>1. CASE d \in net
      BY <2>6, <2>8, <3>1 DEF Sole
    <3>2. ASSUME NEW c \in net, c.by = q, d = Orphan(c)
          PROVE  d.object = seals[d.key - 1]
      <4>1. c.kind = "seal" /\ c.key > 1 /\ c.object.owner = proc[p].claim
            /\ c.object = d.object /\ c.key = d.key
        BY <2>8, <3>2 DEF Orphan
      <4> QED BY <4>1, <1>4, <2>6, <3>2 DEF Sole
    <3>3. CASE HoldsClaim(q) /\ d.object.owner = proc[q].claim
      BY <1>4, <2>4, <2>8, <3>3, AuthorsApart
    <3> QED BY <2>8, <3>1, <3>2, <3>3 DEF SealStep
  <2>9. Sole(p, proc[p].claim)'
    BY <1>1, <2>1, <2>8 DEF Sole
  <2> QED BY <2>7, <2>9
<1> QED BY <1>3, <1>4

\* No claim of another lies among the Seals of an author.
LEMMA LaterClaim ==
  ASSUME PartitionInv, NEW c \in Generations, NEW d \in Generations, NEW g \in Generations,
         IsClaim(d), Authors(c, g), c < d
  PROVE  d > g
<1> SUFFICES ASSUME d <= g PROVE FALSE
  BY DEF Generations
<1>1. seals[d] # None /\ seals[d].cut > seals[d - 1].cut /\ seals[d] = seals[d - 1]
  BY DEF Authors, IsClaim
<1>2. seals[d].cut \in Nat
  BY <1>1 DEF PartitionInv, Type, TypeOK, SealObjects, Cuts
<1> QED BY <1>1, <1>2

\* The claim that is in force at a generation is one.
LEMMA OneClaimInForce ==
  ASSUME PartitionInv, NEW c \in Generations, NEW d \in Generations, NEW g \in Generations,
         IsClaim(c), IsClaim(d), c <= g, d <= g, Authors(c, g), Authors(d, g)
  PROVE  c = d
<1>1. ~(c < d) /\ ~(d < c)
  BY LaterClaim DEF Generations
<1> QED BY <1>1 DEF Generations

\* An author has written every Seal from its claim to its last.
LEMMA AuthorFacts ==
  ASSUME PartitionInv, NEW p \in Procs, IsAuthor(p)
  PROVE  /\ proc[p].claim \in Generations /\ IsClaim(proc[p].claim)
         /\ LastAuthored(p) \in Generations /\ proc[p].claim <= LastAuthored(p)
         /\ seals[LastAuthored(p)] # None /\ Authors(proc[p].claim, LastAuthored(p))
<1>1. CASE ~IsReady(p)
  <2>1. proc[p].claim \in Generations /\ IsClaim(proc[p].claim)
    <3>1. CASE HoldsClaim(p)
      BY <3>1, Claimant
    <3>2. CASE proc[p].at = "PublishingClaim" /\ Authored(p)
      <4>1. PICK c \in net : c.by = p /\ c.kind = "seal" /\ c.status = "won"
        BY <3>2 DEF Authored, Stands, At
      <4>2. /\ c.key = proc[p].claim /\ c.object = proc[p].seal /\ SealCreateOk(c)
            /\ c \in SealCreates
        BY <3>2, <4>1, Listening
      <4>3. seals[proc[p].claim] = proc[p].seal /\ proc[p].seal # None
        BY <4>1, <4>2, PartitionAssumption DEF SealCreateOk, SealCreates
      <4>4. proc[p].claim > 1 /\ proc[p].seal = seals[proc[p].claim - 1]
        BY <3>2 DEF PartitionInv, Local, LocalBoot
      <4> QED BY <4>2, <4>3, <4>4 DEF IsClaim, SealCreates
    <3> QED BY <3>1, <3>2 DEF IsAuthor
  <2>2. LastAuthored(p) = proc[p].claim
    BY <1>1 DEF LastAuthored
  <2>3. Authors(proc[p].claim, proc[p].claim)
    BY <2>1 DEF Authors, Generations
  <2> QED BY <2>1, <2>2, <2>3 DEF IsClaim, Generations
<1>2. CASE IsReady(p)
  <2>1. PICK r : r = proc[p]
    OBVIOUS
  <2>2. /\ r.claim \in Generations /\ IsClaim(r.claim) /\ r.generation \in Generations
        /\ ReadyKnows(r) /\ r \in ReadyState /\ r.at = "Ready"
    BY <1>2, <2>1, ReadyFacts
  <2>3. CASE ~Authored(p)
    <3>1. LastAuthored(p) = r.generation
      BY <1>2, <2>1, <2>2, <2>3 DEF LastAuthored, Generations
    <3> QED BY <2>1, <2>2, <3>1 DEF ReadyKnows
  <2>4. CASE Authored(p)
    <3>1. PICK c \in net : c.by = p /\ c.kind = "seal" /\ c.status = "won"
      BY <2>4 DEF Authored, Stands, At
    <3>2. /\ c.key = r.generation + 1 /\ c.object = r.checkpoint /\ SealCreateOk(c)
          /\ c \in SealCreates /\ r.checkpoint # None
      BY <2>1, <2>2, <3>1, Listening
    <3>3. /\ seals[r.generation + 1] = r.checkpoint /\ r.generation + 1 \in Generations
      BY <3>1, <3>2 DEF SealCreateOk, SealCreates
    <3>4. r.checkpoint.cut > seals[r.generation].cut
      <4>1. /\ r.seal.cut < r.checkpoint.cut /\ r.seal = seals[r.generation]
            /\ r.seal \in SealObjects /\ r.checkpoint \in SealObjects
        BY <2>2, <3>2 DEF ReadyKnows, ReadyState
      <4> QED BY <4>1 DEF SealObjects, Cuts
    <3>5. LastAuthored(p) = r.generation + 1
      BY <1>2, <2>1, <2>4 DEF LastAuthored
    <3>6. Authors(r.claim, r.generation + 1)
      <4> SUFFICES ASSUME NEW h \in Generations, r.claim < h, h <= r.generation + 1
                   PROVE  seals[h] # None /\ seals[h].cut > seals[h - 1].cut
        BY DEF Authors
      <4>1. CASE h = r.generation + 1
        BY <4>1, <3>2, <3>3, <3>4, <2>2 DEF Generations
      <4>2. CASE h <= r.generation
        BY <4>2, <2>2 DEF ReadyKnows, Authors
      <4> QED BY <4>1, <4>2, <2>2 DEF Generations
    <3> QED BY <2>1, <2>2, <3>2, <3>3, <3>5, <3>6 DEF ReadyKnows, Generations
  <2> QED BY <2>3, <2>4
<1> QED BY <1>1, <1>2

\* A Seal follows one: there is none after a vacant generation.
LEMMA NoneAfter ==
  ASSUME PartitionInv, NEW g \in Generations, seals[g] = None, NEW h \in Generations, h > g
  PROVE  seals[h] = None
BY DEF PartitionInv, StoreInv, SealsInv

\* A checkpoint that lands after the last Seal of an author is the author's own.
LEMMA LandsAfter ==
  ASSUME PartitionInv, AuthorInv, NEW p \in Procs, IsAuthor(p), NEW c \in net, c.kind = "seal",
         c.key = LastAuthored(p) + 1, c.by # p
  PROVE  c.object = seals[LastAuthored(p)]
<1>1. PICK g : g = LastAuthored(p)
  OBVIOUS
<1>2. /\ proc[p].claim \in Generations /\ IsClaim(proc[p].claim) /\ g \in Generations
      /\ proc[p].claim <= g /\ Authors(proc[p].claim, g)
  BY <1>1, AuthorFacts
<1>3. SealCreateOk(c) /\ c.key \in Generations /\ c.key > 1 /\ c.key - 1 = g /\ c.key = g + 1
  BY <1>1, <1>2, KindOf DEF CreateOk, Generations
<1>4. \/ c.object = seals[g]
      \/ IsClaim(c.object.owner) /\ c.object.owner < c.key /\ Authors(c.object.owner, g)
  BY <1>3 DEF SealCreateOk, SuccessorOk
<1>5. CASE IsClaim(c.object.owner) /\ c.object.owner < c.key /\ Authors(c.object.owner, g)
  <2>1. c.object.owner \in Generations /\ c.object.owner <= g
    BY <1>2, <1>3, <1>5 DEF IsClaim, Generations
  <2>2. c.object.owner = proc[p].claim
    BY <1>2, <1>5, <2>1, OneClaimInForce
  <2>3. Sole(p, proc[p].claim)
    BY DEF AuthorInv
  <2> QED BY <1>1, <1>3, <2>2, <2>3 DEF Sole
<1> QED BY <1>1, <1>4, <1>5

\* A create that finds its key taken, or reaches the WAL, authors no Seal.
LEMMA LandElsewhere ==
  ASSUME PartitionInv, AuthorInv, NEW c \in net, NEW d, LandStep(c, d),
         Occupant(c) # None \/ c.kind # "seal"
  PROVE  AuthorInv'
<1>1. seals' = seals /\ proc' = proc
  BY KindOf DEF LandStep, LandEffect, Quiet
<1>2. \A e \in net' : e.kind = "seal" =>
        \E f \in net : f.kind = "seal" /\ f.key = e.key /\ f.object = e.object /\ f.by = e.by
  BY DEF LandStep
<1>3. ASSUME NEW p \in Procs PROVE Authored(p)' <=> Authored(p)
  <2>1. c.status = "sent" /\ (d.status = "lost" \/ d.kind # "seal")
    BY DEF LandStep
  <2>2. \A e : e.kind = "seal" /\ e.status = "won" => (e \in net' <=> e \in net)
    BY <2>1 DEF LandStep
  <2> QED BY <2>2 DEF Authored, Stands, At
<1> SUFFICES ASSUME NEW p \in Procs, IsAuthor(p)'
             PROVE  Sole(p, proc[p].claim)' /\ ClaimFollows(LastAuthored(p))'
  BY DEF AuthorInv
<1>4. IsAuthor(p) /\ LastAuthored(p)' = LastAuthored(p)
  BY <1>1, <1>3 DEF IsAuthor, HoldsClaim, LastAuthored, IsReady
<1>5. Sole(p, proc[p].claim) /\ ClaimFollows(LastAuthored(p))
  BY <1>4 DEF AuthorInv
<1>6. Sole(p, proc[p].claim)'
  BY <1>1, <1>2, <1>5 DEF Sole
<1>7. ClaimFollows(LastAuthored(p))'
  BY <1>1, <1>4, <1>5 DEF ClaimFollows
<1> QED BY <1>6, <1>7

\* A Seal lands: its author, if it is still there, now has one more.
LEMMA LandAuthors ==
  ASSUME PartitionInv, AuthorInv, NEW c \in net, NEW d, LandStep(c, d),
         Occupant(c) = None, c.kind = "seal"
  PROVE  AuthorInv'
<1>1. /\ proc' = proc /\ seals' = [seals EXCEPT ![c.key] = c.object]
      /\ c.key \in Generations /\ SealCreateOk(c) /\ seals[c.key] = None
  BY KindOf DEF LandStep, LandEffect, Occupant, CreateOk
<1>2. PICK k : k = c.key
  OBVIOUS
<1>3. /\ seals'[k] = c.object /\ seals[k] = None /\ k \in Generations
      /\ \A g \in Generations : g # k => seals'[g] = seals[g]
  BY <1>1, <1>2 DEF PartitionInv, Type, TypeOK
<1>4. \A e \in net' : e \in net \/ (e = d /\ c.by # None)
  BY DEF LandStep
<1>5. /\ c.status = "sent" /\ d.by = c.by /\ d.kind = "seal" /\ d.key = k /\ d.object = c.object
      /\ d.status = "won"
  BY <1>2 DEF LandStep
<1>6. \A e \in net' : e.kind = "seal" =>
        \E f \in net : f.kind = "seal" /\ f.key = e.key /\ f.object = e.object /\ f.by = e.by
  BY <1>2, <1>4, <1>5
<1>7. ASSUME NEW f \in net, f.kind = "seal", f.key > 1
      PROVE  /\ SuccessorOk(f.key, f.object) /\ f.key \in Generations /\ f.key - 1 \in Generations
             /\ seals'[f.key - 1] = seals[f.key - 1] /\ seals[f.key - 1] # None
  <2>1. SuccessorOk(f.key, f.object) /\ f.key \in Generations
    BY <1>7, KindOf DEF CreateOk, SealCreateOk
  <2>2. seals[f.key - 1] # None /\ f.key - 1 \in Generations
    <3>1. f.key - 1 \in Generations /\ f.key # 1
      BY <2>1, <1>7, PartitionAssumption DEF Generations
    <3>2. seals[f.key - 1] # None
      BY <2>1, <3>1 DEF SuccessorOk
    <3> QED BY <3>1, <3>2
  <2>3. f.key - 1 # k
    BY <2>2, <1>3
  <2> QED BY <2>1, <2>2, <2>3, <1>3
<1> SUFFICES ASSUME NEW p \in Procs, IsAuthor(p)'
             PROVE  Sole(p, proc[p].claim)' /\ ClaimFollows(LastAuthored(p))'
  BY DEF AuthorInv
<1>8. p # None
  BY PartitionAssumption
<1>9. k + 1 \in Generations => seals'[k + 1] = None
  <2>1. k + 1 \in Generations => seals[k + 1] = None /\ k + 1 # k
    BY <1>3, NoneAfter DEF Generations
  <2> QED BY <2>1, <1>3
<1>10. CASE c.by = p
  <2>1. d \in net'
    BY <1>8, <1>10 DEF LandStep
  <2>2. Authored(p)'
    BY <1>5, <1>10, <2>1 DEF Authored, Stands, At
  <2>3. ClaimFollows(k)'
    BY <1>9 DEF ClaimFollows
  <2>4. CASE IsReady(p)
    <3>1. k = proc[p].generation + 1
      BY <1>2, <1>10, <2>4, Listening DEF IsReady
    <3>2. LastAuthored(p)' = k
      BY <1>1, <2>2, <2>4, <3>1 DEF LastAuthored, IsReady
    <3>3. IsAuthor(p)
      BY <2>4 DEF IsAuthor, HoldsClaim, IsReady
    <3>4. Sole(p, proc[p].claim)
      BY <3>3 DEF AuthorInv
    <3>5. Sole(p, proc[p].claim)'
      BY <3>4, <1>1, <1>6, <1>7 DEF Sole
    <3>6. ClaimFollows(LastAuthored(p))'
      BY <2>3, <3>2 DEF ClaimFollows
    <3> QED BY <3>5, <3>6
  <2>5. CASE ~IsReady(p)
    <3>1. proc[p].at = "PublishingClaim" /\ k = proc[p].claim
      BY <1>1, <1>2, <1>10, <2>5, Listening DEF IsReady, IsAuthor, HoldsClaim
    <3>2. LastAuthored(p)' = k
      BY <1>1, <3>1 DEF LastAuthored, IsReady
    <3>3. Sole(p, proc[p].claim)'
      <4>1. ASSUME NEW f \in net, f.kind = "seal", f.key > 1, f.object.owner = k
            PROVE  f.object = seals[f.key - 1]
        <5>1. ~IsClaim(k)
          BY <1>3 DEF IsClaim
        <5> QED BY <4>1, <5>1, <1>7 DEF SuccessorOk
      <4> QED BY <4>1, <3>1, <1>1, <1>6, <1>7 DEF Sole
    <3>4. ClaimFollows(LastAuthored(p))'
      BY <2>3, <3>2 DEF ClaimFollows
    <3> QED BY <3>3, <3>4
  <2> QED BY <2>4, <2>5
<1>11. CASE c.by # p
  <2>1. \A e : e.by = p => (e \in net' <=> e \in net)
    BY <1>5, <1>11 DEF LandStep
  <2>2. Authored(p)' <=> Authored(p)
    BY <2>1 DEF Authored, Stands, At
  <2>3. IsAuthor(p) /\ LastAuthored(p)' = LastAuthored(p)
    BY <1>1, <2>2 DEF IsAuthor, HoldsClaim, LastAuthored, IsReady
  <2>4. Sole(p, proc[p].claim) /\ ClaimFollows(LastAuthored(p))
    BY <2>3 DEF AuthorInv
  <2>5. Sole(p, proc[p].claim)'
    BY <2>4, <1>1, <1>6, <1>7 DEF Sole
  <2>6. PICK g : g = LastAuthored(p)
    OBVIOUS
  <2>7. g \in Generations /\ seals[g] # None
    BY <2>3, <2>6, AuthorFacts
  <2>8. g # k /\ seals'[g] = seals[g]
    BY <2>7, <1>3
  <2>9. ClaimFollows(g)'
    <3>1. CASE k = g + 1
      <4>1. c.object = seals[g]
        BY <3>1, <1>2, <1>11, <2>3, <2>6, LandsAfter
      <4> QED BY <3>1, <4>1, <1>3, <2>8 DEF ClaimFollows
    <3>2. CASE k # g + 1
      <4>1. g + 1 \in Generations => seals'[g + 1] = seals[g + 1]
        BY <3>2, <1>3
      <4> QED BY <4>1, <2>4, <2>6, <2>8 DEF ClaimFollows
    <3> QED BY <3>1, <3>2
  <2>10. ClaimFollows(LastAuthored(p))'
    BY <2>3, <2>6, <2>9 DEF ClaimFollows
  <2> QED BY <2>5, <2>10
<1> QED BY <1>10, <1>11

\* An exit ends the authorship of a process.
LEMMA ExitSealStep ==
  ASSUME PartitionInv, NEW q \in Procs, NEW reason, Exit(q, reason), seals' = seals
  PROVE  SealStep(q) /\ KeepsAuthorship(q)
<1>1. proc'[q] = Exited(reason) /\ \E s : Become(q, s)
  BY Becomes DEF Exit
<1>2. ~IsAuthor(q)'
  BY <1>1 DEF IsAuthor, HoldsClaim, Exited
<1> DEFINE X == CreatesOf(q)
<1>3. X \in SUBSET net /\ \A c : c \in X <=> c \in net /\ c.by = q
  BY DEF CreatesOf
<1>4. Abandons(X)
  BY DEF Exit
<1> HIDE DEF X
<1>5. /\ \A c \in net : c.by # q => c \in net'
      /\ \A d \in net' : d \in net \/ (d.by = None /\ \E c \in X : d = Orphan(c))
  BY <1>3, <1>4, AbandonNet DEF PartitionInv
<1>6. None \notin Procs
  BY PartitionAssumption
<1>7. SealStep(q)
  BY <1>1, <1>3, <1>5, <1>6 DEF SealStep
<1> QED BY <1>2, <1>7 DEF KeepsAuthorship

\* A process that is the author of nothing after its step: it abandons its
\* create, or sends the genesis Seal or the copy of another.
LEMMA IdleSealStep ==
  ASSUME PartitionInv, NEW q \in Procs, seals' = seals, NEW s, Become(q, s), ~IsAuthor(q)',
         \/ net' = net
         \/ Abandons(At(q, "seal"))
         \/ \E key, object : /\ Sends(q, "seal", key, object)
                             /\ key = 1 \/ object = seals[key - 1]
  PROVE  SealStep(q) /\ KeepsAuthorship(q)
<1>1. None \notin Procs
  BY PartitionAssumption
<1>2. CASE net' = net
  BY <1>2 DEF SealStep, KeepsAuthorship
<1>3. CASE Abandons(At(q, "seal"))
  <2>1. /\ NetStep(q, {})
        /\ \A d \in net' : d \in net \/ \E c \in net : c.by = q /\ d = Orphan(c)
    BY <1>3, AbandonKind
  <2>2. \A c : Orphan(c).by = None
    BY DEF Orphan
  <2>3. \A d \in net' : d.by \in Procs /\ d.by # q => d \in net
    BY <2>1, <2>2, <1>1
  <2>4. \A d \in net : d.by # q => d \in net'
    BY <2>1 DEF NetStep
  <2> QED BY <2>1, <2>3, <2>4 DEF SealStep, KeepsAuthorship
<1>4. ASSUME NEW key, NEW object, Sends(q, "seal", key, object), key = 1 \/ object = seals[key - 1]
      PROVE  SealStep(q) /\ KeepsAuthorship(q)
  <2>1. PICK e : e = Create(q, "seal", key, object)
    OBVIOUS
  <2>2. e.by = q /\ e.key = key /\ e.object = object
    BY <2>1 DEF Create
  <2>3. net' = net \cup {e}
    BY <2>1, <1>4 DEF Sends
  <2>4. ~(1 > 1)
    OBVIOUS
  <2> QED BY <1>4, <2>2, <2>3, <2>4 DEF SealStep, KeepsAuthorship
<1> QED BY <1>2, <1>3, <1>4

\* A step of a process that moves no Seal, and leaves it the author of what it
\* was the author of.
LEMMA SealsAside ==
  ASSUME PartitionInv, NEW q \in Procs, seals' = seals, NEW s, Become(q, s),
         \/ net' = net
         \/ Abandons(At(q, "wal"))
         \/ \E key, object : Sends(q, "wal", key, object),
         HoldsClaim(q), s.claim = proc[q].claim, s.at # "PublishingClaim",
         IF IsReady(q) THEN s.at = "Ready" /\ s.generation = proc[q].generation
         ELSE s.at = "Ready" => s.generation = s.claim
  PROVE  SealStep(q) /\ KeepsAuthorship(q)
<1>1. None \notin Procs /\ q # None
  BY PartitionAssumption
<1>2. /\ \A d : d.kind = "seal" => (d \in net' <=> d \in net)
      /\ \A d : d.by \in Procs /\ d.by # q => (d \in net' <=> d \in net)
      /\ \A d \in net : d.by # q => d \in net'
  <2>1. CASE net' = net
    BY <2>1
  <2>2. CASE Abandons(At(q, "wal"))
    <3>1. /\ NetStep(q, {})
          /\ \A d \in net' : \/ d \in net
                             \/ \E c \in net : c.kind = "wal" /\ d = Orphan(c)
      BY <2>2, AbandonKind
    <3>2. \A c : Orphan(c).by = None /\ Orphan(c).kind = c.kind
      BY DEF Orphan
    <3>3. \A d \in net : d.kind = "seal" => d \in net'
      BY <2>2 DEF Abandons, At
    <3>4. \A d \in net : d.by # q => d \in net'
      BY <3>1 DEF NetStep
    <3> QED BY <3>1, <3>2, <3>3, <3>4, <1>1
  <2>3. ASSUME NEW key, NEW object, Sends(q, "wal", key, object)
        PROVE  /\ \A d : d.kind = "seal" => (d \in net' <=> d \in net)
               /\ \A d : d.by \in Procs /\ d.by # q => (d \in net' <=> d \in net)
               /\ \A d \in net : d.by # q => d \in net'
    <3>1. PICK e : e = Create(q, "wal", key, object)
      OBVIOUS
    <3>2. e.by = q /\ e.kind = "wal"
      BY <3>1 DEF Create
    <3>3. net' = net \cup {e}
      BY <3>1, <2>3 DEF Sends
    <3> QED BY <3>2, <3>3
  <2> QED BY <2>1, <2>2, <2>3
<1>3. SealStep(q)
  BY <1>2 DEF SealStep
<1>4. proc'[q] = s
  BY Becomes
<1>5. Authored(q)' <=> Authored(q)
  BY <1>2 DEF Authored, Stands, At
<1>6. LastAuthored(q)' = LastAuthored(q)
  <2>1. CASE IsReady(q)
    BY <2>1, <1>4, <1>5 DEF LastAuthored, IsReady
  <2>2. CASE ~IsReady(q) /\ s.at # "Ready"
    BY <2>2, <1>4 DEF LastAuthored, IsReady
  <2>3. CASE ~IsReady(q) /\ s.at = "Ready"
    <3>1. \A d \in net : d.by = q => d.kind # "seal"
      BY <2>3, Listening DEF HoldsClaim, IsReady
    <3>2. ~Authored(q)
      BY <3>1 DEF Authored, Stands, At
    <3>3. LastAuthored(q) = proc[q].claim /\ proc[q].claim \in Generations
      BY <2>3, Claimant DEF LastAuthored
    <3>4. LastAuthored(q)' = s.claim + 0
      BY <2>3, <3>2, <1>4, <1>5 DEF LastAuthored, IsReady
    <3> QED BY <2>3, <3>3, <3>4 DEF Generations
  <2> QED BY <2>1, <2>2, <2>3
<1>7. KeepsAuthorship(q)
  BY <1>2, <1>4, <1>6 DEF KeepsAuthorship, IsAuthor
<1> QED BY <1>3, <1>7

\* Every step of an opening keeps the authors.
LEMMA BootstrapSealStep ==
  ASSUME PartitionInv, NEW q \in Procs, Bootstrap(q)
  PROVE  SealStep(q) /\ KeepsAuthorship(q)
<1>1. seals' = seals
  BY DEF Bootstrap, store, HeadDiscovered, GenesisEstablished, SealRead, ClaimPublished, TableRead,
         WalTailObserved, TailRead, FenceEstablished, ReplayRead, AnomalyRefreshed, FinalRefreshed
<1>2. \A reason : Exit(q, reason) => SealStep(q) /\ KeepsAuthorship(q)
  BY <1>1, ExitSealStep
<1>3. ASSUME NEW s, Become(q, s), s.at \in {"DiscoveringHead", "EstablishingGenesis", "ReadingSeal"}
      PROVE  ~IsAuthor(q)'
  BY <1>3, Becomes DEF IsAuthor, HoldsClaim
<1>4. ASSUME NEW s, Become(q, s), HoldsClaim(q), ~IsReady(q), s.claim = proc[q].claim,
             s.at \notin {"PublishingClaim", "Ready"},
             net' = net \/ Abandons(At(q, "wal")) \/ \E key, object : Sends(q, "wal", key, object)
      PROVE  SealStep(q) /\ KeepsAuthorship(q)
  BY <1>1, <1>4, SealsAside
<1>5. ASSUME NEW fence, SendsFence(q, fence), HoldsClaim(q), ~IsReady(q)
      PROVE  SealStep(q) /\ KeepsAuthorship(q)
  <2>1. PICK s : s = [at |-> "EstablishingFence", claim |-> proc[q].claim, seal |-> proc[q].seal,
                      fence |-> fence]
    OBVIOUS
  <2>2. s.claim = proc[q].claim /\ s.at = "EstablishingFence"
    BY <2>1
  <2>3. Become(q, s) /\ \E key, object : Sends(q, "wal", key, object)
    BY <2>1, <1>5 DEF SendsFence
  <2> QED BY <2>2, <2>3, <1>4, <1>5
<1>6. \A x : ObservingWalTail(q, x).claim = proc[q].claim /\ ObservingWalTail(q, x).at = "ObservingWalTail"
  BY DEF ObservingWalTail
<1>7. \A x : /\ ReadNextTable(q, x).claim = proc[q].claim
             /\ ReadNextTable(q, x).at \in {"ObservingWalTail", "ReadingTable"}
  BY <1>6 DEF ReadNextTable
<1>8. CASE HeadDiscovered(q)
  <2>1. CASE Newest = 0
    <3>1. Become(q, [at |-> "EstablishingGenesis"]) /\ Sends(q, "seal", 1, Genesis)
      BY <1>8, <2>1 DEF HeadDiscovered
    <3> QED BY <3>1, <1>1, <1>3, IdleSealStep
  <2>2. CASE Newest # 0
    <3>1. Become(q, [at |-> "ReadingSeal", generation |-> Newest]) /\ net' = net
      BY <1>8, <2>2 DEF HeadDiscovered
    <3>2. [at |-> "ReadingSeal", generation |-> Newest].at = "ReadingSeal"
      OBVIOUS
    <3>3. ~IsAuthor(q)'
      BY <3>1, <3>2, <1>3
    <3> QED BY <3>1, <3>3, <1>1, IdleSealStep
  <2> QED BY <2>1, <2>2
<1>9. CASE GenesisEstablished(q)
  <2>1. PICK s : \/ Become(q, s) /\ s.at \in {"DiscoveringHead", "ReadingSeal"} /\ Abandons(At(q, "seal"))
                 \/ Exit(q, "Stopped")
    BY <1>9 DEF GenesisEstablished
  <2> QED BY <2>1, <1>1, <1>2, <1>3, IdleSealStep
<1>10. CASE SealRead(q)
  <2>1. PICK r : r = proc[q]
    OBVIOUS
  <2>2. r.at = "ReadingSeal" /\ r.generation \in Generations
    BY <2>1, <1>10 DEF SealRead, PartitionInv, Type, StateType
  <2>3. PICK s : s = [at |-> "PublishingClaim", claim |-> r.generation + 1, seal |-> seals[r.generation]]
    OBVIOUS
  <2>4. Become(q, s) /\ Sends(q, "seal", r.generation + 1, seals[r.generation])
    BY <2>1, <2>3, <1>10 DEF SealRead
  <2>5. s.at = "PublishingClaim"
    BY <2>3
  <2>6. ~HoldsClaim(q)'
    BY <2>4, <2>5, Becomes DEF HoldsClaim
  <2>7. ~Authored(q)'
    <3>1. \A d \in net : d.by = q => d.kind # "seal"
      BY <2>1, <2>2, Listening
    <3>2. PICK e : e = Create(q, "seal", r.generation + 1, seals[r.generation])
      OBVIOUS
    <3>3. e.status = "sent"
      BY <3>2 DEF Create
    <3>4. net' = net \cup {e}
      BY <2>4, <3>2 DEF Sends
    <3> QED BY <3>1, <3>3, <3>4 DEF Authored, Stands, At
  <2>8. (r.generation + 1) - 1 = r.generation
    BY <2>2 DEF Generations
  <2>9. ~IsAuthor(q)'
    BY <2>6, <2>7 DEF IsAuthor
  <2> QED BY <2>4, <2>8, <2>9, <1>1, IdleSealStep
<1>11. CASE ClaimPublished(q)
  <2>1. proc[q].at = "PublishingClaim" /\ ~IsReady(q)
    BY <1>11 DEF ClaimPublished, IsReady
  <2>2. CASE Authored(q) /\ Become(q, ReadNextTable(q, proc[q].seal.tables)) /\ Abandons(At(q, "seal"))
    <3>1. PICK s : s = ReadNextTable(q, proc[q].seal.tables)
      OBVIOUS
    <3>2. proc'[q] = s /\ s.claim = proc[q].claim /\ s.at \in {"ObservingWalTail", "ReadingTable"}
      BY <2>2, <3>1, <1>7, Becomes
    <3>3. IsAuthor(q) /\ LastAuthored(q) = proc[q].claim
      BY <2>1, <2>2 DEF IsAuthor, LastAuthored
    <3>4. LastAuthored(q)' = s.claim
      BY <3>2 DEF LastAuthored, IsReady
    <3>5. \A c \in net : c.by = q /\ c.kind = "seal" => c.status = "won"
      <4>1. PICK c \in net : c.by = q /\ c.kind = "seal" /\ c.status = "won"
        BY <2>2 DEF Authored, Stands, At
      <4>2. q # None
        BY PartitionAssumption
      <4> QED BY <4>1, <4>2 DEF PartitionInv, NetInv
    <3>6. /\ NetStep(q, {})
          /\ \A d \in net' : \/ d \in net
                             \/ \E c \in net : /\ c.by = q /\ c.kind = "seal" /\ c.status = "sent"
                                               /\ d = Orphan(c)
      BY <2>2, AbandonKind
    <3>7. \A d \in net' : d \in net
      BY <3>5, <3>6
    <3>8. SealStep(q)
      BY <2>2, <3>6, <3>7, <1>1 DEF SealStep, NetStep
    <3> QED BY <3>2, <3>3, <3>4, <3>7, <3>8 DEF KeepsAuthorship
  <2> QED BY <2>2, <1>2, <1>11 DEF ClaimPublished
<1>12. CASE TableRead(q)
  <2>1. HoldsClaim(q) /\ ~IsReady(q)
    BY <1>12 DEF TableRead, HoldsClaim, IsReady
  <2>2. PICK x : (Become(q, ReadNextTable(q, x)) /\ net' = net) \/ Exit(q, "Contradiction")
    BY <1>12 DEF TableRead
  <2> QED BY <2>1, <2>2, <1>2, <1>4, <1>7
<1>13. CASE WalTailObserved(q)
  <2>1. HoldsClaim(q) /\ ~IsReady(q)
    BY <1>13 DEF WalTailObserved, HoldsClaim, IsReady
  <2>2. PICK f, t : \/ \E reason : Exit(q, reason)
                    \/ /\ Become(q, [at |-> "ReadingWalTail", claim |-> proc[q].claim,
                                     seal |-> proc[q].seal, fence |-> f, tail |-> t])
                       /\ net' = net
                    \/ SendsFence(q, f)
    BY <1>13 DEF WalTailObserved
  <2>3. PICK s : s = [at |-> "ReadingWalTail", claim |-> proc[q].claim, seal |-> proc[q].seal,
                      fence |-> f, tail |-> t]
    OBVIOUS
  <2>4. s.at = "ReadingWalTail" /\ s.claim = proc[q].claim
    BY <2>3
  <2>5. \/ \E reason : Exit(q, reason)
        \/ Become(q, s) /\ net' = net
        \/ SendsFence(q, f)
    BY <2>2, <2>3
  <2> QED BY <2>1, <2>4, <2>5, <1>2, <1>4, <1>5
<1>14. CASE TailRead(q)
  <2>1. HoldsClaim(q) /\ ~IsReady(q)
    BY <1>14 DEF TailRead, HoldsClaim, IsReady
  <2>2. PICK s : s = [at |-> "RefreshingAnomaly", claim |-> proc[q].claim]
    OBVIOUS
  <2>3. s.at = "RefreshingAnomaly" /\ s.claim = proc[q].claim
    BY <2>2
  <2>4. \/ Exit(q, "Retryable")
        \/ Become(q, s) /\ net' = net
        \/ SendsFence(q, proc[q].fence)
    BY <2>2, <1>14 DEF TailRead
  <2> QED BY <2>1, <2>3, <2>4, <1>2, <1>4, <1>5
<1>15. CASE FenceEstablished(q)
  <2>1. HoldsClaim(q) /\ ~IsReady(q)
    BY <1>15 DEF FenceEstablished, HoldsClaim, IsReady
  <2>2. PICK s : s = [at |-> "Replaying", claim |-> proc[q].claim, seal |-> proc[q].seal,
                        fence |-> proc[q].fence, next |-> proc[q].seal.cut + 1,
                        owner |-> proc[q].seal.owner,
                        durable |-> Content(proc[q].seal.tables)]
    OBVIOUS
  <2>3. s.at = "Replaying" /\ s.claim = proc[q].claim
    BY <2>2
  <2>4. \/ Become(q, s) /\ Abandons(At(q, "wal"))
        \/ Become(q, ObservingWalTail(q, proc[q].fence)) /\ Abandons(At(q, "wal"))
        \/ Exit(q, "Stopped")
    BY <2>2, <1>15 DEF FenceEstablished
  <2> QED BY <2>1, <2>3, <2>4, <1>2, <1>4, <1>6
<1>16. CASE ReplayRead(q)
  <2>1. HoldsClaim(q) /\ ~IsReady(q) /\ net' = net
    BY <1>16 DEF ReplayRead, HoldsClaim, IsReady
  <2>2. PICK r : r = proc[q]
    OBVIOUS
  <2>3. r \in [at : {"Replaying"}, claim : Generations, seal : SealObjects, fence : Batches,
               next : Batches, owner : Owners \cup {0}, durable : SUBSET Runs]
    BY <2>2, <1>16 DEF ReplayRead, PartitionInv, Type, StateType
  <2>4. PICK x, y, z :
                     \/ Become(q, [at |-> "RefreshingAnomaly", claim |-> r.claim])
                     \/ Become(q, [at |-> "RefreshingFinal", claim |-> r.claim, seal |-> r.seal,
                                   durable |-> x, durable_batch |-> y])
                     \/ Become(q, [r EXCEPT !.next = x, !.owner = y, !.durable = z])
    BY <2>2, <1>16 DEF ReplayRead
  <2>5. PICK s : /\ Become(q, s)
                 /\ \/ s = [at |-> "RefreshingAnomaly", claim |-> r.claim]
                    \/ s = [at |-> "RefreshingFinal", claim |-> r.claim, seal |-> r.seal,
                            durable |-> x, durable_batch |-> y]
                    \/ s = [r EXCEPT !.next = x, !.owner = y, !.durable = z]
    BY <2>4
  <2>6. s.claim = r.claim /\ s.at \in {"RefreshingAnomaly", "RefreshingFinal", "Replaying"}
    <3>1. CASE s = [at |-> "RefreshingAnomaly", claim |-> r.claim]
      BY <3>1
    <3>2. CASE s = [at |-> "RefreshingFinal", claim |-> r.claim, seal |-> r.seal,
                    durable |-> x, durable_batch |-> y]
      BY <3>2
    <3>3. CASE s = [r EXCEPT !.next = x, !.owner = y, !.durable = z]
      BY <3>3, <2>3
    <3> QED BY <3>1, <3>2, <3>3, <2>5
  <2> QED BY <2>1, <2>2, <2>5, <2>6, <1>4
<1>17. CASE AnomalyRefreshed(q)
  BY <1>2, <1>17 DEF AnomalyRefreshed
<1>18. CASE FinalRefreshed(q)
  <2>1. HoldsClaim(q) /\ ~IsReady(q)
    BY <1>18 DEF FinalRefreshed, HoldsClaim, IsReady
  <2>2. PICK s : s = Ready(q)
    OBVIOUS
  <2>3. s.at = "Ready" /\ s.claim = proc[q].claim /\ s.generation = s.claim
    BY <2>2 DEF Ready
  <2>4. (\E reason : Exit(q, reason)) \/ (Become(q, s) /\ net' = net)
    BY <2>2, <1>18 DEF FinalRefreshed
  <2> QED BY <2>1, <2>3, <2>4, <1>1, <1>2, SealsAside
<1> QED BY <1>8, <1>9, <1>10, <1>11, <1>12, <1>13, <1>14, <1>15, <1>16, <1>17, <1>18 DEF Bootstrap

\* Every step of a writer or of its collector keeps the authors.
LEMMA WriterSealStep ==
  ASSUME PartitionInv, NEW q \in Procs, Writes(q) \/ Collects(q)
  PROVE  SealStep(q) /\ KeepsAuthorship(q)
<1>1. seals' = seals /\ IsReady(q)
  BY DEF Writes, Collects, store, DrainPending, RunEstablished, Checkpoint, SealPublished,
         CollectRead, CollectRun, CollectTable, CollectFinished, Collecting
<1>2. \A reason : Exit(q, reason) => SealStep(q) /\ KeepsAuthorship(q)
  BY <1>1, ExitSealStep
<1>3. PICK r : r = proc[q]
  OBVIOUS
<1>4. r.at = "Ready" /\ r \in ReadyState /\ HoldsClaim(q)
  BY <1>1, <1>3, ReadyFacts DEF IsReady
<1>5. ASSUME NEW s, Become(q, s), s.at = "Ready", s.claim = r.claim, s.generation = r.generation,
             net' = net \/ Abandons(At(q, "wal")) \/ \E key, object : Sends(q, "wal", key, object)
      PROVE  SealStep(q) /\ KeepsAuthorship(q)
  BY <1>1, <1>3, <1>4, <1>5, SealsAside
<1>6. CASE DrainPending(q)
  <2>1. PICK s : s = [r EXCEPT !.flight = TRUE]
    OBVIOUS
  <2>2. s.at = "Ready" /\ s.claim = r.claim /\ s.generation = r.generation
    BY <2>1, <1>4 DEF ReadyState
  <2>3. Become(q, s) /\ \E key, object : Sends(q, "wal", key, object)
    BY <2>1, <1>3, <1>6 DEF DrainPending
  <2> QED BY <2>2, <2>3, <1>5
<1>7. CASE RunEstablished(q)
  <2>1. PICK x, y :
          \/ Become(q, [r EXCEPT !.flight = FALSE, !.durable = x, !.durable_batch = y]) /\ Abandons(At(q, "wal"))
          \/ \E reason : Exit(q, reason)
    BY <1>3, <1>7 DEF RunEstablished
  <2>2. PICK s : s = [r EXCEPT !.flight = FALSE, !.durable = x, !.durable_batch = y]
    OBVIOUS
  <2>3. s.at = "Ready" /\ s.claim = r.claim /\ s.generation = r.generation
    BY <2>2, <1>4 DEF ReadyState
  <2>4. (Become(q, s) /\ Abandons(At(q, "wal"))) \/ \E reason : Exit(q, reason)
    BY <2>1, <2>2
  <2> QED BY <2>3, <2>4, <1>2, <1>5
<1>8. ASSUME NEW full \in BOOLEAN, Checkpoint(q, full) PROVE SealStep(q) /\ KeepsAuthorship(q)
  <2>1. PICK x : /\ Become(q, [r EXCEPT !.checkpoint = Seal(CheckpointCut(q), r.claim, x)])
                 /\ Sends(q, "seal", r.generation + 1, Seal(CheckpointCut(q), r.claim, x))
    BY <1>3, <1>8 DEF Checkpoint
  <2>2. PICK object : object = Seal(CheckpointCut(q), r.claim, x)
    OBVIOUS
  <2>3. object.owner = r.claim
    BY <2>2 DEF Seal
  <2>4. PICK s : s = [r EXCEPT !.checkpoint = object]
    OBVIOUS
  <2>5. s.at = "Ready" /\ s.claim = r.claim /\ s.generation = r.generation
    BY <2>4, <1>4 DEF ReadyState
  <2>6. Become(q, s) /\ proc'[q] = s
    BY <2>1, <2>2, <2>4, Becomes
  <2>7. PICK e : e = Create(q, "seal", r.generation + 1, object)
    OBVIOUS
  <2>8. e.by = q /\ e.status = "sent" /\ e.object.owner = r.claim
    BY <2>3, <2>7 DEF Create
  <2>9. net' = net \cup {e}
    BY <2>1, <2>2, <2>7 DEF Sends
  <2>10. Authored(q)' <=> Authored(q)
    BY <2>8, <2>9 DEF Authored, Stands, At
  <2>11. LastAuthored(q)' = LastAuthored(q)
    BY <2>5, <2>6, <2>10, <1>1, <1>3 DEF LastAuthored, IsReady
  <2>12. SealStep(q)
    BY <2>6, <2>8, <2>9, <1>1, <1>3, <1>4 DEF SealStep
  <2>13. KeepsAuthorship(q)
    BY <2>5, <2>6, <2>8, <2>9, <2>11, <1>3, <1>4 DEF KeepsAuthorship, IsAuthor
  <2> QED BY <2>12, <2>13
<1>9. CASE SealPublished(q)
  <2>1. CASE /\ Authored(q)
             /\ Become(q, [proc[q] EXCEPT
                    !.generation = @ + 1,
                    !.seal = proc[q].checkpoint,
                    !.checkpoint = None,
                    !.collector = IF @ = None
                                  THEN CollectionInput(proc[q].seal, proc[q].checkpoint) ELSE @])
             /\ Abandons(At(q, "seal"))
    <3>1. PICK g : g = r.generation + 1
      OBVIOUS
    <3>2. PICK x, y : Become(q, [r EXCEPT !.generation = g, !.seal = x, !.checkpoint = None,
                                          !.collector = y])
      BY <2>1, <3>1, <1>3, <1>4 DEF ReadyState
    <3>3. PICK s : s = [r EXCEPT !.generation = g, !.seal = x, !.checkpoint = None, !.collector = y]
      OBVIOUS
    <3>4. s.at = "Ready" /\ s.claim = r.claim /\ s.generation = g
      BY <3>3, <1>4 DEF ReadyState
    <3>5. proc'[q] = s
      BY <3>2, <3>3, Becomes
    <3>6. /\ NetStep(q, {})
          /\ \A d \in net' : d.by = q => d.kind # "seal"
          /\ \A d \in net' : \/ d \in net
                             \/ \E c \in net : /\ c.by = q /\ c.kind = "seal" /\ c.status = "sent"
                                               /\ d = Orphan(c)
      BY <2>1, AbandonKind
    <3>7. \A c \in net : c.by = q /\ c.kind = "seal" => c.status = "won"
      <4>1. PICK c \in net : c.by = q /\ c.kind = "seal" /\ c.status = "won"
        BY <2>1 DEF Authored, Stands, At
      <4>2. q # None
        BY PartitionAssumption
      <4> QED BY <4>1, <4>2 DEF PartitionInv, NetInv
    <3>8. \A d \in net' : d \in net
      BY <3>6, <3>7
    <3>9. SealStep(q)
      BY <3>2, <3>6, <3>8, <1>1 DEF SealStep, NetStep
    <3>10. ~Authored(q)'
      BY <3>6 DEF Authored, Stands, At
    <3>11. r.generation \in Generations
      BY <1>4 DEF ReadyState
    <3>12. LastAuthored(q)' = g /\ LastAuthored(q) = g
      <4>1. LastAuthored(q)' = g + 0
        BY <3>4, <3>5, <3>10 DEF LastAuthored, IsReady
      <4>2. LastAuthored(q) = g
        BY <2>1, <3>1, <1>1, <1>3 DEF LastAuthored
      <4> QED BY <4>1, <4>2, <3>1, <3>11 DEF Generations
    <3> QED BY <3>4, <3>5, <3>8, <3>9, <3>12, <1>3, <1>4 DEF KeepsAuthorship, IsAuthor
  <2> QED BY <2>1, <1>2, <1>9 DEF SealPublished
<1>10. CASE Collects(q)
  <2>1. PICK x : Become(q, WithCollector(r, x)) /\ net' = net
    <3>1. CASE CollectTable(q)
      <4>1. PICK x : Become(q, [r EXCEPT !.collector.tables = x]) /\ net' = net
        BY <3>1, <1>3 DEF CollectTable
      <4> QED BY <4>1 DEF WithCollector
    <3> QED BY <1>3, <1>10, <3>1 DEF Collects, CollectRead, CollectRun, CollectFinished, WithCollector
  <2>2. PICK s : s = WithCollector(r, x)
    OBVIOUS
  <2>3. s.at = "Ready" /\ s.claim = r.claim /\ s.generation = r.generation
    BY <2>2, <1>4 DEF ReadyState, WithCollector
  <2> QED BY <2>1, <2>2, <2>3, <1>5
<1> QED BY <1>6, <1>7, <1>8, <1>9, <1>10 DEF Writes

\* No step makes anybody but its holder the author of a checkpoint.
LEMMA AuthorNext ==
  ASSUME PartitionInv, AuthorInv, [Next]_vars
  PROVE  AuthorInv'
<1>1. ASSUME NEW c \in net, Land(c) PROVE AuthorInv'
  <2>1. PICK d : LandStep(c, d)
    BY <1>1, LandIsStep
  <2> QED BY <2>1, LandElsewhere, LandAuthors
<1>2. ASSUME NEW q \in Procs, Bootstrap(q) \/ Writes(q) \/ Collects(q) \/ Crash(q) PROVE AuthorInv'
  <2>1. CASE Crash(q)
    BY <2>1, ExitSealStep, SealStepInv DEF Crash, store
  <2> QED BY <1>2, <2>1, BootstrapSealStep, WriterSealStep, SealStepInv
<1>3. CASE UNCHANGED vars
  BY <1>3 DEF vars, store, AuthorInv, IsAuthor, HoldsClaim, Authored, Stands, At, Sole, ClaimFollows,
              LastAuthored, IsReady
<1> QED BY <1>1, <1>2, <1>3 DEF Next

\* At first nobody is an author.
LEMMA AuthorInit == Init => AuthorInv
BY DEF Init, AuthorInv, IsAuthor, HoldsClaim

\* A holder of a claim is always the only author of its checkpoints, and the
\* Seal after its last one always another's claim.
THEOREM AuthorInvariant == Spec => []AuthorInv
BY AuthorInit, AuthorNext, PartitionInvariant, PTL DEF Spec

-----------------------------------------------------------------------------
(* Who gives up. *)

\* A step of a process moves that process only.
LEMMA OwnProc ==
  ASSUME NEW p \in Procs, Bootstrap(p) \/ Writes(p) \/ Collects(p) \/ Crash(p)
  PROVE  \E s : Become(p, s)
<1>1. CASE Bootstrap(p)
  BY <1>1 DEF Bootstrap, HeadDiscovered, GenesisEstablished, SealRead, ClaimPublished, TableRead,
              WalTailObserved, TailRead, FenceEstablished, ReplayRead, AnomalyRefreshed,
              FinalRefreshed, SendsFence, Exit
<1>2. CASE Writes(p)
  BY <1>2 DEF Writes, DrainPending, RunEstablished, Checkpoint, SealPublished, Exit
<1>3. CASE Collects(p)
  BY <1>3 DEF Collects, CollectRead, CollectRun, CollectTable, CollectFinished
<1>4. CASE Crash(p)
  BY <1>4 DEF Crash, Exit
<1> QED BY <1>1, <1>2, <1>3, <1>4

\* The process gives up its claim, as superseded or for a contradiction.
GivesUp(p) == proc'[p] \in {Exited("Fenced"), Exited("Contradiction")}

\* The Seal after its last one is another's claim; a writer whose flight is beaten
\* is beaten by the FENCE of such a claim.
SuccessorStands(p) ==
    /\ Newest > LastAuthored(p)
    /\ seals[LastAuthored(p) + 1] = seals[LastAuthored(p)]
    /\ IsReady(p) /\ ~NoAuthority(p) =>
         LET occupant == wal[Run(p).batch]
         IN  /\ occupant # None /\ occupant.kind = "fence"
             /\ occupant.owner > LastAuthored(p)

\* A Seal newer than its last is another's claim.
LEMMA ClaimStands ==
  ASSUME PartitionInv, AuthorInv, NEW p \in Procs, HoldsClaim(p), Newest > LastAuthored(p)
  PROVE  seals[LastAuthored(p) + 1] = seals[LastAuthored(p)]
<1>1. PICK g : g = LastAuthored(p)
  OBVIOUS
<1>2. IsAuthor(p)
  BY DEF IsAuthor
<1>3. g \in Generations /\ ClaimFollows(g)
  BY <1>1, <1>2, AuthorFacts DEF AuthorInv
<1>4. Newest \in Generations
  BY Claimant
<1>5. g + 1 \in Generations /\ g + 1 <= Newest
  BY <1>1, <1>3, <1>4 DEF Generations
<1>6. seals[g + 1] # None
  BY <1>5, HeadFacts DEF PartitionInv, Type, StoreInv
<1> QED BY <1>1, <1>3, <1>5, <1>6 DEF ClaimFollows

\* A process that moves on, or stops for another reason, does not give up.
LEMMA GivesUpBy ==
  ASSUME PartitionInv, NEW p \in Procs, NEW s, Become(p, s), GivesUp(p)
  PROVE  s.at = "Exited" /\ s.reason \in {"Fenced", "Contradiction"}
BY Becomes DEF GivesUp, Exited

\* Nor does one that exits for another reason.
LEMMA GivesUpExit ==
  ASSUME PartitionInv, NEW p \in Procs, NEW reason, Exit(p, reason), GivesUp(p)
  PROVE  reason \in {"Fenced", "Contradiction"}
BY GivesUpBy DEF Exit, Exited

\* A checkpoint that has lost its key: a Seal stands there.
LEMMA NoAuthorityMeans ==
  ASSUME PartitionInv, NEW p \in Procs, NoAuthority(p), IsReady(p)
  PROVE  Newest > LastAuthored(p)
<1>1. PICK c \in net : c.by = p /\ c.kind = "seal" /\ c.status = "lost"
  BY DEF NoAuthority, Stands, At
<1>2. SealCreateOk(c) /\ c.key \in Generations
  BY <1>1, KindOf DEF CreateOk
<1>3. seals[c.key] # None
  BY <1>1, <1>2 DEF SealCreateOk
<1>4. c.key <= Newest /\ Newest \in Nat
  BY <1>2, <1>3, NewestFacts
<1>5. c.key = proc[p].generation + 1
  BY <1>1, Listening DEF IsReady
<1>6. proc[p].generation \in Generations
  BY ReadyFacts
<1>7. LastAuthored(p) = proc[p].generation
  BY <1>6 DEF LastAuthored, NoAuthority, Generations
<1> QED BY <1>4, <1>5, <1>6, <1>7 DEF Generations

\* An opening gives up only to a successor.
LEMMA BootstrapGivesUp ==
  ASSUME PartitionInv, NEW p \in Procs, HoldsClaim(p), Bootstrap(p), GivesUp(p)
  PROVE  ~IsReady(p) /\ Newest > proc[p].claim
<1>1. \A reason : Exit(p, reason) => reason \in {"Fenced", "Contradiction"}
  BY GivesUpExit
<1>2. \A s : Become(p, s) => s.at = "Exited"
  BY GivesUpBy
<1>3. \A fence : ~SendsFence(p, fence)
  <2>1. \A fence, claim, seal :
          [at |-> "EstablishingFence", claim |-> claim, seal |-> seal, fence |-> fence].at # "Exited"
    OBVIOUS
  <2> QED BY <2>1, <1>2 DEF SendsFence
<1>4. \A tail : ~Become(p, ReadNextTable(p, tail)) /\ ~Become(p, ObservingWalTail(p, tail))
  <2>1. \A tail : ObservingWalTail(p, tail).at # "Exited"
    BY DEF ObservingWalTail
  <2>2. \A tail : ReadNextTable(p, tail).at # "Exited"
    BY <2>1 DEF ReadNextTable
  <2> QED BY <2>1, <2>2, <1>2
<1>5. \A claim : ~Become(p, [at |-> "RefreshingAnomaly", claim |-> claim])
  BY <1>2
<1>6. HoldsClaim(p) => /\ proc[p].claim <= Newest /\ Newest \in Generations
                       /\ proc[p].claim \in Generations /\ NewestCut \in Cuts
  BY Claimant
<1>7. CASE HeadDiscovered(p)
  BY <1>2, <1>7 DEF HeadDiscovered
<1>8. CASE GenesisEstablished(p)
  BY <1>1, <1>2, <1>8 DEF GenesisEstablished
<1>9. CASE SealRead(p)
  BY <1>2, <1>9 DEF SealRead
<1>10. CASE ClaimPublished(p)
  BY <1>10 DEF ClaimPublished, HoldsClaim
<1>11. CASE TableRead(p)
  <2>1. PICK r : r = proc[p]
    OBVIOUS
  <2>2. /\ r.at = "ReadingTable" /\ HoldsClaim(p) /\ PreReady(p)
        /\ r.remaining \subseteq Tables
    BY <2>1, <1>11 DEF TableRead, HoldsClaim, PreReady, PreFence, PartitionInv, Type, StateType
  <2>3. r.remaining # {} /\ r.remaining \subseteq r.seal.tables /\ r.seal = seals[r.claim]
    BY <2>1, <2>2 DEF PartitionInv, Local, LocalBoot
  <2>4. PICK t : t = CHOOSE oldest \in r.remaining : \A u \in r.remaining : oldest.birth <= u.birth
    OBVIOUS
  <2>5. t \in r.remaining
    <3>1. {u.birth : u \in r.remaining} \subseteq Nat /\ {u.birth : u \in r.remaining} # {}
      BY <2>2, <2>3 DEF Tables
    <3>2. PICK x \in {u.birth : u \in r.remaining} : \A y \in {u.birth : u \in r.remaining} : x <= y
      BY <3>1, Least
    <3>3. PICK u \in r.remaining : u.birth = x
      BY <3>2
    <3>4. \E v \in r.remaining : \A w \in r.remaining : v.birth <= w.birth
      BY <3>2, <3>3
    <3> QED BY <3>4, <2>4
  <2>6. t \notin tables
    BY <2>1, <2>4, <1>4, <1>11 DEF TableRead
  <2>7. Newest # r.claim
    BY <2>1, <2>2, <2>3, <2>5, <2>6, <1>6 DEF PartitionInv, StoreInv, HeadInv
  <2> QED BY <2>1, <2>2, <2>7, <1>6 DEF IsReady, Generations
<1>12. CASE WalTailObserved(p)
  <2>1. PICK r : r = proc[p]
    OBVIOUS
  <2>2. /\ r.at = "ObservingWalTail" /\ HoldsClaim(p) /\ PreReady(p)
        /\ r.occupied \in Cuts /\ r.seal.cut \in Cuts
    BY <2>1, <1>12
       DEF WalTailObserved, HoldsClaim, PreReady, PreFence, PartitionInv, Type, StateType, SealObjects
  <2>3. FenceCandidate(r.seal.cut, Tail) <= r.occupied
    <3>1. \A s : s.at = "ReadingWalTail" => ~Become(p, s)
      BY <1>2
    <3>2. [at |-> "ReadingWalTail", claim |-> proc[p].claim, seal |-> proc[p].seal,
           fence |-> FenceCandidate(r.seal.cut, Tail), tail |-> Tail].at = "ReadingWalTail"
      OBVIOUS
    <3> QED BY <3>1, <3>2, <2>1, <1>1, <1>3, <1>12 DEF WalTailObserved
  <2>4. Tail \in Nat /\ \A b \in Batches : wal[b] # None => b <= Tail
    BY TailFacts
  <2>5. r.occupied > r.seal.cut /\ r.occupied > Tail
    BY <2>2, <2>3, <2>4, FenceCandidateIs
  <2>6. Reached(r.occupied)
    BY <2>1, <2>2, <2>5 DEF PartitionInv, Local, LocalBoot
  <2>7. r.occupied <= NewestCut
    BY <2>2, <2>4, <2>5, <2>6 DEF Reached
  <2>8. Newest # r.claim
    BY <2>1, <2>2, <2>5, <2>7, <1>6, CurrentCut
  <2> QED BY <2>1, <2>2, <2>8, <1>6 DEF IsReady, Generations
<1>13. CASE TailRead(p)
  BY <1>1, <1>3, <1>5, <1>13 DEF TailRead
<1>14. CASE FenceEstablished(p)
  <2>1. \A s : s.at = "Replaying" => ~Become(p, s)
    BY <1>2
  <2>2. [at |-> "Replaying", claim |-> proc[p].claim, seal |-> proc[p].seal,
         fence |-> proc[p].fence, next |-> proc[p].seal.cut + 1,
         owner |-> proc[p].seal.owner, durable |-> Content(proc[p].seal.tables)].at = "Replaying"
    OBVIOUS
  <2> QED BY <2>1, <2>2, <1>1, <1>4, <1>14 DEF FenceEstablished
<1>15. CASE ReplayRead(p)
  <2>1. PICK r : r = proc[p]
    OBVIOUS
  <2>2. /\ r.at = "Replaying"
        /\ r \in [at : {"Replaying"}, claim : Generations, seal : SealObjects, fence : Batches,
                  next : Batches, owner : Owners \cup {0}, durable : SUBSET Runs]
    BY <2>1, <1>15 DEF ReplayRead, PartitionInv, Type, StateType
  <2>3. PICK x, y, z :
                     \/ Become(p, [at |-> "RefreshingAnomaly", claim |-> r.claim])
                     \/ Become(p, [at |-> "RefreshingFinal", claim |-> r.claim, seal |-> r.seal,
                                   durable |-> x, durable_batch |-> y])
                     \/ Become(p, [r EXCEPT !.next = x, !.owner = y, !.durable = z])
    BY <2>1, <1>15 DEF ReplayRead
  <2>4. ~Become(p, [r EXCEPT !.next = x, !.owner = y, !.durable = z])
    <3>1. PICK s : s = [r EXCEPT !.next = x, !.owner = y, !.durable = z]
      OBVIOUS
    <3>2. s.at = "Replaying"
      BY <3>1, <2>2
    <3> QED BY <3>1, <3>2, <1>2
  <2>5. ~Become(p, [at |-> "RefreshingFinal", claim |-> r.claim, seal |-> r.seal,
                    durable |-> x, durable_batch |-> y])
    <3>1. PICK s : s = [at |-> "RefreshingFinal", claim |-> r.claim, seal |-> r.seal,
                        durable |-> x, durable_batch |-> y]
      OBVIOUS
    <3>2. s.at = "RefreshingFinal"
      BY <3>1
    <3> QED BY <3>1, <3>2, <1>2
  <2> QED BY <2>3, <2>4, <2>5, <1>5
<1>16. CASE AnomalyRefreshed(p)
  BY <1>16 DEF AnomalyRefreshed, PartitionInv, Local, LocalBoot, IsReady
<1>17. CASE FinalRefreshed(p)
  <2>1. Ready(p).at # "Exited"
    BY DEF Ready
  <2>2. proc[p].at = "RefreshingFinal" /\ ~IsCurrent(p)
    BY <2>1, <1>2, <1>17 DEF FinalRefreshed
  <2>3. HoldsClaim(p)
    BY <2>2 DEF HoldsClaim
  <2> QED BY <2>2, <2>3, <1>6 DEF IsCurrent, IsReady, Generations
<1> QED BY <1>7, <1>8, <1>9, <1>10, <1>11, <1>12, <1>13, <1>14, <1>15, <1>16, <1>17 DEF Bootstrap

\* A Ready process stays so, with its claim and its RUNs.
KeepsServing(p) ==
    /\ proc[p].at = "Ready" /\ proc'[p].at = "Ready"
    /\ proc'[p].claim = proc[p].claim /\ proc'[p].durable = proc[p].durable

\* Its own RUN is durable: it holds and acknowledges it.
Acknowledges(p) ==
    /\ proc[p].at = "Ready" /\ proc'[p].at = "Ready"
    /\ proc'[p].claim = proc[p].claim /\ proc'[p].durable = proc[p].durable \cup {Run(p)}
    /\ Run(p) \in landed /\ acked' = acked \cup {Run(p)}

\* What a WAL flight comes to.
LEMMA RunEstablishedMoves ==
  ASSUME PartitionInv, NEW p \in Procs, RunEstablished(p)
  PROVE  \/ Acknowledges(p)
         \/ acked' = acked /\ WalOccupied(p) /\ Exit(p, "Fenced")
         \/ acked' = acked /\ Exit(p, "Stopped")
<1>1. IsReady(p)
  BY DEF RunEstablished
<1>2. CASE /\ WalDurable(p)
           /\ Become(p, [proc[p] EXCEPT !.flight = FALSE, !.durable = @ \cup {Run(p)},
                                        !.durable_batch = @ + 1])
           /\ acked' = acked \cup {Run(p)}
  <2>1. PICK r : r = proc[p]
    OBVIOUS
  <2>2. r \in ReadyState /\ r.at = "Ready"
    BY <1>1, <2>1, ReadyFacts
  <2>3. PICK run : run = Run(p)
    OBVIOUS
  <2> DEFINE s == [r EXCEPT !.flight = FALSE, !.durable = r.durable \cup {run},
                            !.durable_batch = r.durable_batch + 1]
  <2>4. Become(p, s)
    BY <1>2, <2>1, <2>3
  <2>5. s.at = "Ready" /\ s.claim = r.claim /\ s.durable = r.durable \cup {run}
    BY <2>2 DEF ReadyState
  <2> HIDE DEF s
  <2>6. PICK c \in net : c.by = p /\ c.kind = "wal" /\ c.status = "won"
    BY <1>2 DEF WalDurable, Stands, At
  <2>7. c.key = r.durable_batch + 1 /\ c.object = Wal("run", r.claim) /\ WalCreateOk(c)
    BY <2>1, <2>2, <2>6, Listening
  <2>8. c.object.kind = "run" /\ c.object.owner = r.claim
    BY <2>7 DEF Wal
  <2>9. run \in landed
    BY <2>1, <2>3, <2>6, <2>7, <2>8 DEF WalCreateOk, Run
  <2>10. proc'[p] = s
    BY <2>4, Becomes
  <2> QED BY <1>2, <2>1, <2>2, <2>3, <2>5, <2>9, <2>10 DEF Acknowledges
<1> QED BY <1>2 DEF RunEstablished

\* What a Seal flight comes to.
LEMMA SealPublishedMoves ==
  ASSUME PartitionInv, NEW p \in Procs, SealPublished(p)
  PROVE  KeepsServing(p) \/ (NoAuthority(p) /\ Exit(p, "Fenced")) \/ Exit(p, "Stopped")
<1>1. IsReady(p)
  BY DEF SealPublished
<1>2. CASE Become(p, [proc[p] EXCEPT
                  !.generation = @ + 1,
                  !.seal = proc[p].checkpoint,
                  !.checkpoint = None,
                  !.collector = IF @ = None
                                THEN CollectionInput(proc[p].seal, proc[p].checkpoint) ELSE @])
  <2>1. PICK r : r = proc[p]
    OBVIOUS
  <2>2. r \in ReadyState /\ r.at = "Ready"
    BY <1>1, <2>1, ReadyFacts
  <2>3. PICK g : g = r.generation + 1
    OBVIOUS
  <2>4. PICK successor : successor = r.checkpoint
    OBVIOUS
  <2>5. PICK collector : collector = IF r.collector = None THEN CollectionInput(r.seal, successor)
                                     ELSE r.collector
    OBVIOUS
  <2> DEFINE s == [r EXCEPT !.generation = g, !.seal = successor, !.checkpoint = None,
                            !.collector = collector]
  <2>6. Become(p, s)
    BY <1>2, <2>1, <2>2, <2>3, <2>4, <2>5 DEF ReadyState
  <2>7. s.at = "Ready" /\ s.claim = r.claim /\ s.durable = r.durable
    BY <2>2 DEF ReadyState
  <2> HIDE DEF s
  <2>8. proc'[p] = s
    BY <2>6, Becomes
  <2> QED BY <2>1, <2>2, <2>7, <2>8 DEF KeepsServing
<1> QED BY <1>2 DEF SealPublished

\* A flight, a checkpoint or a collection that starts or goes on leaves what a
\* process serves.
LEMMA WriterMoves ==
  ASSUME PartitionInv, NEW p \in Procs,
         DrainPending(p) \/ (\E full \in BOOLEAN : Checkpoint(p, full)) \/ Collects(p)
  PROVE  KeepsServing(p)
<1>1. PICK r : r = proc[p]
  OBVIOUS
<1>2. r.at = "Ready" /\ r \in ReadyState
  BY <1>1, ReadyFacts DEF DrainPending, Checkpoint, Collects, CollectRead, CollectRun, CollectTable,
                          CollectFinished, Collecting, IsReady
<1>3. ASSUME NEW s, Become(p, s), s.at = r.at, s.claim = r.claim, s.durable = r.durable
      PROVE  KeepsServing(p)
  BY <1>1, <1>2, <1>3, Becomes DEF KeepsServing
<1>4. CASE DrainPending(p)
  <2>1. PICK s : s = [r EXCEPT !.flight = TRUE]
    OBVIOUS
  <2>2. s.at = r.at /\ s.claim = r.claim /\ s.durable = r.durable
    BY <2>1, <1>2 DEF ReadyState
  <2>3. Become(p, s)
    BY <2>1, <1>1, <1>4 DEF DrainPending
  <2> QED BY <2>2, <2>3, <1>3
<1>5. ASSUME NEW full \in BOOLEAN, Checkpoint(p, full) PROVE KeepsServing(p)
  <2>1. PICK x : Become(p, [r EXCEPT !.checkpoint = x])
    BY <1>1, <1>5 DEF Checkpoint
  <2>2. PICK s : s = [r EXCEPT !.checkpoint = x]
    OBVIOUS
  <2>3. s.at = r.at /\ s.claim = r.claim /\ s.durable = r.durable
    BY <2>2, <1>2 DEF ReadyState
  <2> QED BY <2>1, <2>2, <2>3, <1>3
<1>6. CASE Collects(p)
  <2>1. PICK x : Become(p, WithCollector(r, x))
    <3>1. CASE CollectTable(p)
      <4>1. PICK x : Become(p, [r EXCEPT !.collector.tables = x])
        BY <3>1, <1>1 DEF CollectTable
      <4> QED BY <4>1 DEF WithCollector
    <3> QED BY <1>1, <1>6, <3>1 DEF Collects, CollectRead, CollectRun, CollectFinished, WithCollector
  <2>2. PICK s : s = WithCollector(r, x)
    OBVIOUS
  <2>3. s.at = r.at /\ s.claim = r.claim /\ s.durable = r.durable
    BY <2>2, <1>2 DEF ReadyState, WithCollector
  <2> QED BY <2>1, <2>2, <2>3, <1>3
<1> QED BY <1>4, <1>5, <1>6

\* A writer gives up only to a successor, a collector never.
LEMMA WriterGivesUp ==
  ASSUME PartitionInv, NEW p \in Procs, Writes(p) \/ Collects(p), GivesUp(p)
  PROVE  /\ Newest > LastAuthored(p)
         /\ ~NoAuthority(p) => LET occupant == wal[Run(p).batch]
                               IN  /\ occupant # None /\ occupant.kind = "fence"
                                   /\ occupant.owner > LastAuthored(p)
<1>1. \A reason : Exit(p, reason) => reason \in {"Fenced", "Contradiction"}
  BY GivesUpExit
<1>2. proc'[p].at = "Exited"
  BY DEF GivesUp, Exited
<1>3. ~KeepsServing(p) /\ ~Acknowledges(p)
  BY <1>2 DEF KeepsServing, Acknowledges
<1>4. PICK r : r = proc[p]
  OBVIOUS
<1>5. CASE RunEstablished(p)
  <2>1. WalOccupied(p) /\ r.at = "Ready" /\ IsReady(p)
    <3>1. r.at = "Ready" /\ IsReady(p)
      BY <1>4, <1>5 DEF RunEstablished, IsReady
    <3>2. ~Exit(p, "Stopped")
      BY <1>1
    <3> QED BY <3>1, <3>2, <1>3, <1>5, RunEstablishedMoves
  <2>2. PICK c \in net : c.by = p /\ c.kind = "wal" /\ c.status # "won" /\ wal[c.key] # None
    BY <2>1 DEF WalOccupied, At
  <2>3. WalCreateOk(c) /\ c.key \in Batches
    BY <2>2, KindOf DEF CreateOk
  <2>4. c.object = Wal("run", r.claim) /\ c.key = r.durable_batch + 1
    BY <2>1, <2>2, <1>4, Listening
  <2>5. c.object.kind = "run" /\ c.object.owner = r.claim
    BY <2>4 DEF Wal
  <2>6. PICK d \in Owners : d > r.claim /\ IsFence(c.key, d)
    BY <2>2, <2>3, <2>5 DEF WalCreateOk, Slot
  <2>7. d <= Newest /\ IsClaim(d) /\ d \in Generations
    BY <2>6, OwnersAreClaims DEF IsFence, Holds, Owners
  <2>8. HoldsClaim(p) /\ Newest \in Generations
    BY <2>1, ReadyFacts
  <2>9. /\ r.claim \in Generations /\ LastAuthored(p) \in Generations
        /\ Authors(r.claim, LastAuthored(p))
    BY <1>4, <2>8, AuthorFacts DEF IsAuthor
  <2>10. d > LastAuthored(p)
    BY <2>6, <2>7, <2>9, LaterClaim
  <2>11. Newest > LastAuthored(p)
    BY <2>7, <2>8, <2>9, <2>10 DEF Generations
  <2>12. Run(p).batch = c.key
    BY <1>4, <2>4 DEF Run
  <2> QED BY <2>6, <2>10, <2>11, <2>12 DEF IsFence, Holds
<1>6. CASE SealPublished(p)
  <2>1. NoAuthority(p) /\ IsReady(p)
    <3>1. IsReady(p)
      BY <1>6 DEF SealPublished
    <3>2. ~Exit(p, "Stopped")
      BY <1>1
    <3> QED BY <3>1, <3>2, <1>3, <1>6, SealPublishedMoves
  <2> QED BY <2>1, NoAuthorityMeans
<1> QED BY <1>3, <1>5, <1>6, WriterMoves DEF Writes

\* The holder of a claim is fenced, or meets a contradiction, only by the claim of
\* another right after the last Seal that it authored, its checkpoints included;
\* and what beats a writer's flight is the FENCE of such a claim.
THEOREM OnlySuccessorsEverFence == Spec => OnlySuccessorsFence
<1>1. ASSUME PartitionInv, AuthorInv, [Next]_vars, NEW p \in Procs, HoldsClaim(p), GivesUp(p)
      PROVE  SuccessorStands(p)
  <2>1. proc'[p] # proc[p]
    BY <1>1 DEF GivesUp, Exited, HoldsClaim
  <2>2. ASSUME NEW c \in net, Land(c) PROVE FALSE
    BY <2>1, <2>2 DEF Land
  <2>3. ASSUME NEW q \in Procs, Bootstrap(q) \/ Writes(q) \/ Collects(q) \/ Crash(q)
        PROVE  SuccessorStands(p)
    <3>1. PICK s : Become(q, s)
      BY <2>3, OwnProc
    <3>2. q = p
      BY <3>1, <2>1, <1>1 DEF Become, PartitionInv, Type
    <3>3. CASE Bootstrap(q)
      <4>1. ~IsReady(p) /\ Newest > proc[p].claim
        BY <3>2, <3>3, <1>1, BootstrapGivesUp
      <4>2. Newest > LastAuthored(p)
        BY <4>1 DEF LastAuthored
      <4> QED BY <4>1, <4>2, <1>1, ClaimStands DEF SuccessorStands
    <3>4. CASE Writes(q) \/ Collects(q)
      BY <3>2, <3>4, <1>1, WriterGivesUp, ClaimStands DEF SuccessorStands
    <3>5. CASE Crash(q)
      BY <3>2, <3>5, <1>1, GivesUpExit DEF Crash
    <3> QED BY <2>3, <3>3, <3>4, <3>5
  <2>4. CASE UNCHANGED vars
    BY <2>1, <2>4 DEF vars
  <2> QED BY <1>1, <2>2, <2>3, <2>4 DEF Next
<1>2. PartitionInv /\ AuthorInv /\ [Next]_vars =>
        [\A p \in Procs :
           HoldsClaim(p) /\ proc'[p] \in {Exited("Fenced"), Exited("Contradiction")}
             => /\ Newest > LastAuthored(p)
                /\ seals[LastAuthored(p) + 1] = seals[LastAuthored(p)]
                /\ IsReady(p) /\ ~NoAuthority(p) =>
                     LET occupant == wal[Run(p).batch]
                     IN  /\ occupant # None /\ occupant.kind = "fence"
                         /\ occupant.owner > LastAuthored(p)]_vars
  BY <1>1 DEF GivesUp, SuccessorStands
<1> QED BY <1>2, PartitionInvariant, AuthorInvariant, PTL DEF Spec, OnlySuccessorsFence

-----------------------------------------------------------------------------
(* The partition implements the log of Registry. *)

\* The epoch of a WAL: the owner of its newest FENCE, 0 without one.
LEMMA EpochOf ==
  ASSUME NEW w \in [Batches -> WalObjects \cup {None}]
  PROVE  LET m == Max({0} \cup {w[b].owner : b \in {c \in Batches : w[c] # None /\ w[c].kind = "fence"}})
         IN  /\ m \in 0 .. GenerationMax
             /\ m # 0 => \E b \in Batches : w[b] # None /\ w[b].kind = "fence" /\ w[b].owner = m
             /\ \A b \in Batches : w[b] # None /\ w[b].kind = "fence" => w[b].owner <= m
<1> DEFINE F == {c \in Batches : w[c] # None /\ w[c].kind = "fence"}
           S == {0} \cup {w[b].owner : b \in F}
<1>1. \A b \in F : w[b].owner \in Generations
  BY DEF WalObjects
<1>2. S \subseteq 0 .. GenerationMax /\ S # {}
  BY <1>1
<1> HIDE DEF S
<1>3. Max(S) \in S /\ \A y \in S : y <= Max(S)
  BY <1>2, Greatest
<1> QED BY <1>2, <1>3 DEF S

\* No FENCE is newer than the epoch.
LEMMA EpochFacts ==
  ASSUME TypeOK
  PROVE  /\ Epoch \in 0 .. GenerationMax
         /\ Epoch # 0 => \E b \in Batches : IsFence(b, Epoch)
         /\ \A b \in Batches, c \in Owners : IsFence(b, c) => c <= Epoch
<1>1. wal \in [Batches -> WalObjects \cup {None}]
  BY DEF TypeOK
<1> QED BY <1>1, EpochOf DEF Epoch, IsFence, Holds

\* The same after a step.
LEMMA EpochFactsNext ==
  ASSUME TypeOK'
  PROVE  /\ Epoch' \in 0 .. GenerationMax
         /\ Epoch' # 0 => \E b \in Batches : wal'[b] # None /\ wal'[b].kind = "fence" /\ wal'[b].owner = Epoch'
         /\ \A b \in Batches : wal'[b] # None /\ wal'[b].kind = "fence" => wal'[b].owner <= Epoch'
<1>1. wal' \in [Batches -> WalObjects \cup {None}]
  BY DEF TypeOK
<1> QED BY <1>1, EpochOf DEF Epoch

\* An owner that nobody supersedes is the epoch.
LEMMA EpochIs ==
  ASSUME TypeOK, NEW b \in Batches, NEW c \in Owners, IsFence(b, c), ~Superseded(c)
  PROVE  Epoch = c
<1>1. c <= Epoch /\ Epoch \in 0 .. GenerationMax
  BY EpochFacts
<1>2. Epoch \in Owners /\ \E f \in Batches : IsFence(f, Epoch)
  BY <1>1, EpochFacts
<1>3. ~(Epoch > c)
  BY <1>2 DEF Superseded
<1> QED BY <1>1, <1>3

\* The epoch moves with the FENCEs only.
LEMMA EpochKept ==
  ASSUME TypeOK, TypeOK',
         \A b \in Batches : wal'[b] = wal[b] \/
           /\ wal[b] # None => wal[b].kind # "fence"
           /\ wal'[b] # None => wal'[b].kind # "fence"
  PROVE  Epoch' = Epoch
<1>1. Epoch \in Nat /\ Epoch' \in Nat
  BY EpochFacts, EpochFactsNext
<1>2. Epoch # 0 => Epoch <= Epoch'
  <2> SUFFICES ASSUME Epoch # 0 PROVE Epoch <= Epoch'
    OBVIOUS
  <2>1. PICK b \in Batches : wal[b] # None /\ wal[b].kind = "fence" /\ wal[b].owner = Epoch
    BY EpochFacts DEF IsFence, Holds
  <2>2. wal'[b] = wal[b]
    BY <2>1
  <2> QED BY <2>1, <2>2, EpochFactsNext
<1>3. Epoch' # 0 => Epoch' <= Epoch
  <2> SUFFICES ASSUME Epoch' # 0 PROVE Epoch' <= Epoch
    OBVIOUS
  <2>1. PICK b \in Batches : wal'[b] # None /\ wal'[b].kind = "fence" /\ wal'[b].owner = Epoch'
    BY EpochFactsNext
  <2>2. wal'[b] = wal[b]
    BY <2>1
  <2>3. wal[b] \in WalObjects
    BY <2>1, <2>2 DEF TypeOK
  <2>4. IsFence(b, wal[b].owner) /\ wal[b].owner \in Owners
    BY <2>1, <2>2, <2>3 DEF IsFence, Holds, WalObjects
  <2> QED BY <2>1, <2>2, <2>4, EpochFacts
<1> QED BY <1>1, <1>2, <1>3

\* A step that the log does not see.
LEMMA Unseen ==
  ASSUME Epoch' = Epoch, landed' = landed, acked' = acked, Serving' = Serving, Served' = Served
  PROVE  [Log!Next]_(Log!vars)
BY DEF Log!vars

\* What a process serves after its step.
LEMMA ServingNext ==
  ASSUME PartitionInv, NEW p \in Procs, NEW s, Become(p, s)
  PROVE  /\ Serving' = [Serving EXCEPT ![p] = IF s.at = "Ready" THEN s.claim ELSE 0]
         /\ Served' = [Served EXCEPT ![p] = IF s.at = "Ready" THEN s.durable ELSE {}]
         /\ Serving[p] = IF proc[p].at = "Ready" THEN proc[p].claim ELSE 0
         /\ Served[p] = IF proc[p].at = "Ready" THEN proc[p].durable ELSE {}
<1>1. \A q \in Procs : proc'[q] = IF q = p THEN s ELSE proc[q]
  BY DEF Become, PartitionInv, Type
<1> QED BY <1>1 DEF Serving, Served, IsReady

\* Nothing, unless it starts or stops to serve or acknowledges.
LEMMA ServingKept ==
  ASSUME PartitionInv, NEW p \in Procs, NEW s, Become(p, s),
         (proc[p].at # "Ready" /\ s.at # "Ready") \/ KeepsServing(p)
  PROVE  Serving' = Serving /\ Served' = Served
<1>1. proc'[p] = s
  BY Becomes
<1>2. \A q \in Procs : q # p => proc'[q] = proc[q]
  BY DEF Become, PartitionInv, Type
<1>3. \A q \in Procs : /\ IsReady(q)' <=> IsReady(q)
                       /\ IsReady(q) => proc'[q].claim = proc[q].claim /\ proc'[q].durable = proc[q].durable
  BY <1>1, <1>2 DEF KeepsServing, IsReady
<1> QED BY <1>3 DEF Serving, Served

\* A process that serves and exits stops.
LEMMA ExitStops ==
  ASSUME PartitionInv, NEW p \in Procs, NEW reason, Exit(p, reason), Quiet, acked' = acked
  PROVE  [Log!Next]_(Log!vars)
<1>1. Become(p, Exited(reason)) /\ Exited(reason).at = "Exited"
  BY DEF Exit, Exited
<1>2. Epoch' = Epoch /\ landed' = landed
  BY DEF Epoch, Quiet
<1>3. CASE proc[p].at # "Ready"
  <2>1. Serving' = Serving /\ Served' = Served
    BY <1>1, <1>3, ServingKept
  <2> QED BY <1>2, <2>1, Unseen
<1>4. CASE proc[p].at = "Ready"
  <2>1. /\ Serving' = [Serving EXCEPT ![p] = 0] /\ Served' = [Served EXCEPT ![p] = {}]
        /\ Serving[p] = proc[p].claim
    BY <1>1, <1>4, ServingNext
  <2>2. Serving[p] # 0
    BY <1>4, <2>1, ReadyFacts DEF IsReady
  <2>3. Log!Stop(p)
    BY <1>2, <2>1, <2>2 DEF Log!Stop
  <2> QED BY <2>3 DEF Log!Next
<1> QED BY <1>3, <1>4

\* An opening serves nothing until its last step.
LEMMA BootstrapMoves ==
  ASSUME PartitionInv, NEW p \in Procs, Bootstrap(p)
  PROVE  /\ proc[p].at # "Ready"
         /\ \/ \E s : Become(p, s) /\ s.at # "Ready"
            \/ proc[p].at = "RefreshingFinal" /\ IsCurrent(p) /\ Become(p, Ready(p))
<1>1. proc[p].at # "Ready"
  BY DEF Bootstrap, HeadDiscovered, GenesisEstablished, SealRead, ClaimPublished, TableRead,
         WalTailObserved, TailRead, FenceEstablished, ReplayRead, AnomalyRefreshed, FinalRefreshed
<1> DEFINE Elsewhere == \E s : Become(p, s) /\ s.at # "Ready"
<1> SUFFICES \/ Elsewhere
             \/ proc[p].at = "RefreshingFinal" /\ IsCurrent(p) /\ Become(p, Ready(p))
  BY <1>1
<1>2. ASSUME NEW reason, Exit(p, reason) PROVE Elsewhere
  BY <1>2 DEF Exit, Exited
<1>3. ASSUME NEW fence, SendsFence(p, fence) PROVE Elsewhere
  BY <1>3 DEF SendsFence
<1>4. ASSUME NEW x, Become(p, ReadNextTable(p, x)) \/ Become(p, ObservingWalTail(p, x)) PROVE Elsewhere
  <2>1. ObservingWalTail(p, x).at # "Ready" /\ ObservingWalTail(p, 0).at # "Ready"
    BY DEF ObservingWalTail
  <2>2. ReadNextTable(p, x).at # "Ready"
    BY <2>1 DEF ReadNextTable
  <2> QED BY <2>1, <2>2, <1>4
<1>5. Become(p, [at |-> "RefreshingAnomaly", claim |-> proc[p].claim]) => Elsewhere
  OBVIOUS
<1>6. CASE HeadDiscovered(p)
  BY <1>6 DEF HeadDiscovered
<1>7. CASE GenesisEstablished(p)
  <2>1. \/ Become(p, [at |-> "ReadingSeal", generation |-> 1])
        \/ Become(p, [at |-> "DiscoveringHead"])
        \/ Exit(p, "Stopped")
    BY <1>7 DEF GenesisEstablished
  <2> QED BY <2>1, <1>2
<1>8. CASE SealRead(p)
  BY <1>8 DEF SealRead
<1>9. CASE ClaimPublished(p)
  <2>1. \/ Become(p, ReadNextTable(p, proc[p].seal.tables)) \/ Exit(p, "Fenced") \/ Exit(p, "Stopped")
    BY <1>9 DEF ClaimPublished
  <2> QED BY <2>1, <1>2, <1>4
<1>10. CASE TableRead(p)
  <2>1. (\E x : Become(p, ReadNextTable(p, x))) \/ Exit(p, "Contradiction")
    BY <1>10 DEF TableRead
  <2> QED BY <2>1, <1>2, <1>4
<1>11. CASE WalTailObserved(p)
  <2>1. \/ \E reason : Exit(p, reason)
        \/ \E fence : SendsFence(p, fence)
        \/ \E fence, tail : Become(p, [at |-> "ReadingWalTail", claim |-> proc[p].claim,
                                       seal |-> proc[p].seal, fence |-> fence, tail |-> tail])
    BY <1>11 DEF WalTailObserved
  <2>2. ASSUME NEW fence, NEW tail,
               Become(p, [at |-> "ReadingWalTail", claim |-> proc[p].claim,
                          seal |-> proc[p].seal, fence |-> fence, tail |-> tail])
        PROVE  Elsewhere
    BY <2>2
  <2> QED BY <2>1, <2>2, <1>2, <1>3
<1>12. CASE TailRead(p)
  <2>1. \/ Exit(p, "Retryable") \/ SendsFence(p, proc[p].fence)
        \/ Become(p, [at |-> "RefreshingAnomaly", claim |-> proc[p].claim])
    BY <1>12 DEF TailRead
  <2> QED BY <2>1, <1>2, <1>3, <1>5
<1>13. CASE FenceEstablished(p)
  <2>1. \/ Become(p, [at |-> "Replaying", claim |-> proc[p].claim, seal |-> proc[p].seal,
                      fence |-> proc[p].fence, next |-> proc[p].seal.cut + 1,
                      owner |-> proc[p].seal.owner, durable |-> Content(proc[p].seal.tables)])
        \/ Become(p, ObservingWalTail(p, proc[p].fence)) \/ Exit(p, "Stopped")
    BY <1>13 DEF FenceEstablished
  <2> QED BY <2>1, <1>2, <1>4
<1>14. CASE ReplayRead(p)
  <2>1. PICK r : r = proc[p]
    OBVIOUS
  <2>2. r \in [at : {"Replaying"}, claim : Generations, seal : SealObjects, fence : Batches,
               next : Batches, owner : Owners \cup {0}, durable : SUBSET Runs]
    BY <2>1, <1>14 DEF ReplayRead, PartitionInv, Type, StateType
  <2>3. PICK x, y, z :
           \/ Become(p, [at |-> "RefreshingAnomaly", claim |-> r.claim])
           \/ Become(p, [at |-> "RefreshingFinal", claim |-> r.claim, seal |-> r.seal,
                         durable |-> x, durable_batch |-> y])
           \/ Become(p, [r EXCEPT !.next = x, !.owner = y, !.durable = z])
    BY <2>1, <1>14 DEF ReplayRead
  <2>4. PICK s : s = [r EXCEPT !.next = x, !.owner = y, !.durable = z]
    OBVIOUS
  <2>5. s.at = "Replaying"
    BY <2>2, <2>4
  <2>6. PICK t : t = [at |-> "RefreshingFinal", claim |-> r.claim, seal |-> r.seal,
                      durable |-> x, durable_batch |-> y]
    OBVIOUS
  <2>7. t.at = "RefreshingFinal"
    BY <2>6
  <2>8. \/ Become(p, [at |-> "RefreshingAnomaly", claim |-> r.claim]) \/ Become(p, t) \/ Become(p, s)
    BY <2>3, <2>4, <2>6
  <2> QED BY <2>1, <2>5, <2>7, <2>8, <1>5
<1>15. CASE AnomalyRefreshed(p)
  <2>1. \E reason : Exit(p, reason)
    BY <1>15 DEF AnomalyRefreshed
  <2> QED BY <2>1, <1>2
<1>16. CASE FinalRefreshed(p)
  <2>1. \/ \E reason : Exit(p, reason)
        \/ proc[p].at = "RefreshingFinal" /\ IsCurrent(p) /\ Become(p, Ready(p))
    BY <1>16 DEF FinalRefreshed
  <2> QED BY <2>1, <1>2
<1> QED BY <1>6, <1>7, <1>8, <1>9, <1>10, <1>11, <1>12, <1>13, <1>14, <1>15, <1>16 DEF Bootstrap

\* The last step of an opening that is still current starts to serve the log.
LEMMA BecomesServer ==
  ASSUME PartitionInv, NEW p \in Procs, proc[p].at = "RefreshingFinal", IsCurrent(p),
         Become(p, Ready(p)), Quiet, acked' = acked
  PROVE  [Log!Next]_(Log!vars)
<1>1. PICK r : r = proc[p]
  OBVIOUS
<1>2. /\ r.claim \in Generations /\ r.durable_batch \in Batches /\ r.seal.cut \in Cuts
      /\ HoldsClaim(p) /\ PreReady(p) /\ Newest = r.claim
  BY <1>1 DEF PartitionInv, Type, StateType, HoldsClaim, PreReady, IsCurrent, SealObjects
<1>3. /\ IsFence(r.durable_batch, r.claim)
      /\ Superseded(r.claim) \/ Top(r.durable_batch, r.claim)
      /\ r.seal.cut < r.durable_batch /\ r.durable = LandedTo(r.durable_batch)
  BY <1>1, <1>2 DEF PartitionInv, Local, LocalBoot
<1>4. ~Superseded(r.claim)
  BY <1>2, OwnersAreClaims
<1>5. Epoch = r.claim
  BY <1>2, <1>3, <1>4, EpochIs DEF PartitionInv, Type
<1>6. NewestCut = r.seal.cut
  BY <1>1, <1>2, CurrentCut
<1>7. r.durable = landed
  <2> SUFFICES ASSUME NEW run \in landed PROVE run.batch <= r.durable_batch
    BY <1>3 DEF LandedTo
  <2>1. run.batch \in Batches
    BY DEF PartitionInv, Type, TypeOK, Runs
  <2>2. CASE run.batch <= NewestCut
    BY <2>1, <2>2, <1>2, <1>3, <1>6
  <2>3. CASE IsRun(run.batch, run.owner)
    <3>1. ~(run.batch > r.durable_batch)
      <4> SUFFICES ASSUME run.batch > r.durable_batch PROVE FALSE
        OBVIOUS
      <4>1. IsRun(run.batch, r.claim)
        BY <2>1, <2>3, <1>2, <1>3, <1>4 DEF PartitionInv, StoreInv, TopInv, IsRun, Holds
      <4> QED BY <2>1, <4>1, <1>1, <1>2 DEF PartitionInv, Local, LocalNet
    <3> QED BY <3>1, <2>1, <1>2
  <2> QED BY <2>2, <2>3 DEF PartitionInv, StoreInv, LandedInv
<1>8. Ready(p).at = "Ready" /\ Ready(p).claim = r.claim /\ Ready(p).durable = r.durable
  BY <1>1 DEF Ready
<1>9. /\ Serving' = [Serving EXCEPT ![p] = Epoch] /\ Served' = [Served EXCEPT ![p] = landed]
      /\ Serving[p] = 0
  BY <1>5, <1>7, <1>8, ServingNext
<1>10. \A q \in Procs : Serving[q] # Epoch
  <2> SUFFICES ASSUME NEW q \in Procs PROVE Serving[q] # Epoch
    OBVIOUS
  <2>1. q # p /\ IsReady(q) => proc[q].claim # r.claim
    BY <1>1, <1>2, ReadyFacts DEF PartitionInv, UniqueInv, ClaimsAreUnique
  <2>2. Serving[q] = IF IsReady(q) THEN proc[q].claim ELSE 0
    BY DEF Serving
  <2>3. Epoch # 0 /\ ~IsReady(p)
    BY <1>2, <1>5 DEF IsReady
  <2> QED BY <2>1, <2>2, <2>3, <1>5
<1>11. Epoch' = Epoch /\ landed' = landed
  BY DEF Epoch, Quiet
<1>12. Epoch # 0
  BY <1>2, <1>5
<1>13. Log!Serve(p)
  BY <1>9, <1>10, <1>11, <1>12 DEF Log!Serve
<1> QED BY <1>13 DEF Log!Next

\* A process acknowledges the RUN that follows what it serves.
LEMMA ServerAcknowledges ==
  ASSUME PartitionInv, NEW p \in Procs, NEW s, Become(p, s), Acknowledges(p), Quiet
  PROVE  [Log!Next]_(Log!vars)
<1>1. PICK r : r = proc[p]
  OBVIOUS
<1>2. PICK run : run = Run(p)
  OBVIOUS
<1>3. /\ r.at = "Ready" /\ s.at = "Ready" /\ s.claim = r.claim /\ s.durable = r.durable \cup {run}
      /\ run \in landed /\ acked' = acked \cup {run}
  BY <1>1, <1>2, Becomes DEF Acknowledges
<1>4. ReadyKnows(r) /\ r.durable_batch \in Batches
  BY <1>1, <1>3, ReadyFacts DEF IsReady
<1>5. run.batch = r.durable_batch + 1 /\ run.owner = r.claim
  BY <1>1, <1>2 DEF Run
<1>6. r.durable = LandedTo(r.durable_batch)
  BY <1>4 DEF ReadyKnows
<1>7. run \in Runs /\ \A earlier \in landed : earlier.batch \in Batches
  BY <1>3 DEF PartitionInv, Type, TypeOK, Runs
<1>8. run \notin r.durable /\ \A earlier \in landed : earlier.batch < run.batch => earlier \in r.durable
  BY <1>4, <1>5, <1>6, <1>7 DEF LandedTo
<1>9. /\ Serving' = [Serving EXCEPT ![p] = r.claim] /\ Served' = [Served EXCEPT ![p] = r.durable \cup {run}]
      /\ Serving[p] = r.claim /\ Served[p] = r.durable
  BY <1>1, <1>3, ServingNext
<1>10. Serving' = Serving
  BY <1>9 DEF Serving
<1>11. Epoch' = Epoch /\ landed' = landed
  BY DEF Epoch, Quiet
<1>12. Log!Acknowledge(p, run)
  BY <1>3, <1>5, <1>8, <1>9, <1>10, <1>11 DEF Log!Acknowledge
<1> QED BY <1>7, <1>12 DEF Log!Next

\* A step of a process is a step of the log, or none.
LEMMA OwnStepRefines ==
  ASSUME PartitionInv, PartitionInv', NEW p \in Procs,
         Bootstrap(p) \/ Writes(p) \/ Collects(p) \/ Crash(p)
  PROVE  [Log!Next]_(Log!vars)
<1>1. TypeOK /\ TypeOK'
  BY DEF PartitionInv, Type
<1>2. landed' = landed /\ Epoch' = Epoch
  <2>1. CASE Quiet
    BY <2>1 DEF Quiet, Epoch
  <2>2. CASE CollectRun(p)
    <3>1. PICK n \in Batches : /\ wal[n] # None /\ wal[n].kind = "run"
                               /\ wal' = [wal EXCEPT ![n] = None] /\ landed' = landed
      BY <2>2, DeletesRun
    <3>2. \A b \in Batches : wal'[b] = IF b = n THEN None ELSE wal[b]
      BY <3>1, <1>1 DEF TypeOK
    <3>3. \A b \in Batches : wal'[b] = wal[b] \/
             /\ wal[b] # None => wal[b].kind # "fence"
             /\ wal'[b] # None => wal'[b].kind # "fence"
      BY <3>1, <3>2
    <3> QED BY <3>1, <3>3, <1>1, EpochKept
  <2> QED BY <2>1, <2>2, OwnStep
<1>3. PICK s : Become(p, s)
  BY OwnProc
<1>4. proc'[p] = s
  BY <1>3, Becomes
<1>5. ASSUME KeepsServing(p), acked' = acked PROVE [Log!Next]_(Log!vars)
  <2>1. Serving' = Serving /\ Served' = Served
    BY <1>3, <1>5, ServingKept
  <2> QED BY <2>1, <1>2, <1>5, Unseen
<1>6. CASE Bootstrap(p)
  <2>1. Quiet /\ acked' = acked
    BY <1>6 DEF Bootstrap, Quiet, store, history, HeadDiscovered, GenesisEstablished, SealRead,
                ClaimPublished, TableRead, WalTailObserved, TailRead, FenceEstablished, ReplayRead,
                AnomalyRefreshed, FinalRefreshed
  <2>2. CASE proc[p].at = "RefreshingFinal" /\ IsCurrent(p) /\ Become(p, Ready(p))
    BY <2>1, <2>2, BecomesServer
  <2>3. ASSUME NEW t, Become(p, t), t.at # "Ready" PROVE [Log!Next]_(Log!vars)
    <3>1. proc[p].at # "Ready"
      BY <1>6, BootstrapMoves
    <3>2. Serving' = Serving /\ Served' = Served
      BY <3>1, <2>3, ServingKept
    <3> QED BY <3>2, <2>1, <1>2, Unseen
  <2> QED BY <1>6, <2>2, <2>3, BootstrapMoves
<1>7. CASE DrainPending(p) \/ (\E full \in BOOLEAN : Checkpoint(p, full)) \/ Collects(p)
  <2>1. acked' = acked
    BY <1>7 DEF DrainPending, Checkpoint, Collects, CollectRead, CollectRun, CollectTable,
                CollectFinished, history
  <2>2. KeepsServing(p)
    BY <1>7, WriterMoves
  <2> QED BY <2>1, <2>2, <1>5
<1>8. CASE RunEstablished(p)
  <2>1. Quiet
    BY <1>8 DEF RunEstablished, Quiet, store
  <2>2. CASE Acknowledges(p)
    BY <2>1, <2>2, <1>3, ServerAcknowledges
  <2>3. CASE acked' = acked /\ (Exit(p, "Fenced") \/ Exit(p, "Stopped"))
    BY <2>1, <2>3, ExitStops
  <2> QED BY <1>8, <2>2, <2>3, RunEstablishedMoves
<1>9. CASE SealPublished(p)
  <2>1. Quiet /\ acked' = acked
    BY <1>9 DEF SealPublished, Quiet, store, history
  <2>2. CASE Exit(p, "Fenced") \/ Exit(p, "Stopped")
    BY <2>1, <2>2, ExitStops
  <2> QED BY <1>5, <1>9, <2>1, <2>2, SealPublishedMoves
<1>10. CASE Crash(p)
  <2>1. Quiet /\ acked' = acked /\ Exit(p, "Stopped")
    BY <1>10 DEF Crash, Quiet, store, history
  <2> QED BY <2>1, ExitStops
<1> QED BY <1>6, <1>7, <1>8, <1>9, <1>10 DEF Writes

\* A create that lands extends the log, takes it over, or is no step of it.
LEMMA LandRefines ==
  ASSUME PartitionInv, PartitionInv', NEW c \in net, Land(c)
  PROVE  [Log!Next]_(Log!vars)
<1>1. PICK d : LandStep(c, d)
  BY LandIsStep
<1>2. /\ LandEffect(c) /\ proc' = proc /\ acked' = acked /\ c.status = "sent"
      /\ TypeOK /\ TypeOK' /\ Type /\ StoreInv
  BY <1>1 DEF LandStep, PartitionInv, Type
<1>3. Serving' = Serving /\ Served' = Served
  BY <1>2 DEF Serving, Served, IsReady
<1>4. c.kind \in {"seal", "wal"} /\ (c.kind = "wal" => c.object.kind \in {"run", "fence"})
  BY KindOf
<1>5. CASE Occupant(c) # None \/ c.kind = "seal"
  <2>1. wal' = wal /\ landed' = landed
    BY <1>2, <1>5 DEF LandEffect, Quiet
  <2> QED BY <2>1, <1>2, <1>3, Unseen DEF Epoch
<1>6. ASSUME Occupant(c) = None, c.kind = "wal"
      PROVE  /\ c \in WalCreates /\ WalCreateOk(c) /\ c.key \in Batches /\ c.object.owner \in Owners
             /\ wal[c.key] = None /\ c.object # None
             /\ \A b \in Batches : wal'[b] = IF b = c.key THEN c.object ELSE wal[b]
  <2>1. /\ c \in WalCreates /\ WalCreateOk(c) /\ c.key \in Batches /\ c.object.owner \in Owners
        /\ c.object \in WalObjects /\ wal[c.key] = None /\ wal' = [wal EXCEPT ![c.key] = c.object]
    BY <1>2, <1>6, KindOf DEF CreateOk, Occupant, LandEffect
  <2> QED BY <2>1, <1>2, PartitionAssumption DEF TypeOK
<1>7. CASE Occupant(c) = None /\ c.kind = "wal" /\ c.object.kind = "run"
  <2>1. PICK run : run = [batch |-> c.key, owner |-> c.object.owner]
    OBVIOUS
  <2>2. landed' = landed \cup {run} /\ run \in Runs
    BY <1>2, <1>6, <1>7, <2>1 DEF LandEffect, Runs
  <2>3. ~Reached(c.key) /\ ~Superseded(c.object.owner) /\ \E f \in Batches : IsFence(f, c.object.owner)
    BY <1>2, <1>6, <1>7, RunIsInForce DEF WalCreateOk
  <2>4. Epoch = c.object.owner
    BY <1>2, <1>6, <1>7, <2>3, EpochIs
  <2>5. Epoch' = Epoch
    <3>1. \A b \in Batches : wal'[b] = wal[b] \/
             /\ wal[b] # None => wal[b].kind # "fence"
             /\ wal'[b] # None => wal'[b].kind # "fence"
      BY <1>6, <1>7
    <3> QED BY <3>1, <1>2, EpochKept
  <2>6. ASSUME NEW earlier \in landed PROVE earlier.batch < c.key
    <3>1. earlier.batch \in Batches
      BY <1>2 DEF TypeOK, Runs
    <3>2. earlier.batch <= NewestCut \/ IsRun(earlier.batch, earlier.owner)
      BY <1>2 DEF StoreInv, LandedInv
    <3>3. NewestCut \in Cuts
      BY <1>2, HeadFacts DEF StoreInv
    <3>4. CASE earlier.batch <= NewestCut
      BY <3>1, <3>3, <3>4, <2>3, <1>6, <1>7 DEF Reached
    <3>5. CASE IsRun(earlier.batch, earlier.owner)
      <4>1. wal[earlier.batch] # None
        BY <3>5 DEF IsRun, Holds
      <4>2. ~(earlier.batch > c.key) /\ earlier.batch # c.key
        BY <4>1, <3>1, <2>3, <1>2, <1>6, <1>7, NothingAbove DEF StoreInv
      <4> QED BY <4>2, <3>1, <1>6, <1>7
    <3> QED BY <3>2, <3>4, <3>5
  <2>7. run.owner = Epoch /\ \A earlier \in landed : earlier.batch < run.batch
    BY <2>1, <2>4, <2>6
  <2>8. Log!Extend(run)
    BY <2>2, <2>5, <2>7, <1>2, <1>3 DEF Log!Extend
  <2> QED BY <2>2, <2>8 DEF Log!Next
<1>8. CASE Occupant(c) = None /\ c.kind = "wal" /\ c.object.kind = "fence"
  <2>1. landed' = landed
    BY <1>2, <1>8 DEF LandEffect
  <2>2. PICK owner \in Owners : owner = c.object.owner
    BY <1>6, <1>8
  <2>3. Epoch \in Nat /\ Epoch' \in Nat
    BY <1>2, EpochFacts, EpochFactsNext
  <2>4. owner <= Epoch'
    BY <2>2, <1>2, <1>6, <1>8, EpochFactsNext
  <2>5. Epoch # 0 => Epoch <= Epoch'
    <3> SUFFICES ASSUME Epoch # 0 PROVE Epoch <= Epoch'
      OBVIOUS
    <3>1. PICK b \in Batches : wal[b] # None /\ wal[b].kind = "fence" /\ wal[b].owner = Epoch
      BY <1>2, EpochFacts DEF IsFence, Holds
    <3>2. wal'[b] = wal[b]
      BY <3>1, <1>6, <1>8
    <3> QED BY <3>1, <3>2, <1>2, EpochFactsNext
  <2>6. Epoch' = owner \/ Epoch' <= Epoch
    <3> SUFFICES ASSUME Epoch' # owner PROVE Epoch' <= Epoch
      OBVIOUS
    <3>1. CASE Epoch' = 0
      BY <3>1, <2>3
    <3>2. CASE Epoch' # 0
      <4>1. PICK b \in Batches : wal'[b] # None /\ wal'[b].kind = "fence" /\ wal'[b].owner = Epoch'
        BY <3>2, <1>2, EpochFactsNext
      <4>2. wal'[b] = wal[b]
        BY <4>1, <2>2, <1>6, <1>8
      <4>3. IsFence(b, wal[b].owner) /\ wal[b].owner \in Owners
        BY <4>1, <4>2, <1>2 DEF IsFence, Holds, TypeOK, WalObjects
      <4> QED BY <4>1, <4>2, <4>3, <1>2, EpochFacts
    <3> QED BY <3>1, <3>2
  <2>7. CASE owner > Epoch
    <3>1. Epoch' = owner
      BY <2>3, <2>4, <2>6, <2>7
    <3>2. PICK run \in Runs : run.owner = owner
      <4>1. [batch |-> c.key, owner |-> owner] \in Runs
        BY <1>6, <1>8 DEF Runs
      <4> QED BY <4>1
    <3>3. Log!TakeOver(run.owner)
      BY <3>1, <3>2, <2>1, <2>7, <1>2, <1>3 DEF Log!TakeOver
    <3> QED BY <3>3 DEF Log!Next
  <2>8. CASE ~(owner > Epoch)
    <3>1. Epoch' = Epoch
      BY <2>2, <2>3, <2>4, <2>5, <2>6, <2>8
    <3> QED BY <3>1, <2>1, <1>2, <1>3, Unseen
  <2> QED BY <2>7, <2>8
<1> QED BY <1>4, <1>5, <1>7, <1>8

\* An empty store is an empty log.
LEMMA InitRefines == Init => Log!Init
<1> SUFFICES ASSUME Init PROVE Log!Init
  OBVIOUS
<1>1. PartitionInv
  BY InitInv
<1>2. TypeOK
  BY <1>1 DEF PartitionInv, Type
<1>3. \A b \in Batches : wal[b] = None
  BY DEF Init
<1>4. Epoch = 0
  BY <1>2, <1>3, EpochFacts DEF IsFence, Holds
<1>5. \A p \in Procs : ~IsReady(p)
  BY DEF Init, IsReady
<1>6. Serving = [p \in Procs |-> 0] /\ Served = [p \in Procs |-> {}]
  BY <1>5 DEF Serving, Served
<1>7. landed = {} /\ acked = {}
  BY DEF Init
<1> QED BY <1>4, <1>6, <1>7 DEF Log!Init

\* The partition implements the log: what processes, late creates, takeovers,
\* checkpoints and collectors do to the store is one log that only the newest
\* fenced owner extends, and each Ready process serves a prefix of it.
THEOREM PartitionImplementsRegistry == Spec => ImplementsRegistry
<1>1. ASSUME PartitionInv, PartitionInv', [Next]_vars PROVE [Log!Next]_(Log!vars)
  <2>1. CASE UNCHANGED vars
    <3>1. wal' = wal /\ landed' = landed /\ acked' = acked /\ proc' = proc
      BY <2>1 DEF vars, store, history
    <3> QED BY <3>1, Unseen DEF Epoch, Serving, Served, IsReady
  <2>2. ASSUME NEW c \in net, Land(c) PROVE [Log!Next]_(Log!vars)
    BY <1>1, <2>2, LandRefines
  <2>3. ASSUME NEW p \in Procs, Bootstrap(p) \/ Writes(p) \/ Collects(p) \/ Crash(p)
        PROVE  [Log!Next]_(Log!vars)
    BY <1>1, <2>3, OwnStepRefines
  <2> QED BY <1>1, <2>1, <2>2, <2>3 DEF Next
<1> QED BY <1>1, InitRefines, PartitionInvariant, PTL DEF Spec, ImplementsRegistry, Log!Spec

=============================================================================
