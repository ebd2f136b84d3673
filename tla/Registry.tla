------------------------------ MODULE Registry ------------------------------
(***************************************************************************)
(* What a partition promises, without generations, coordinates that clash, *)
(* Seals, tables or collectors: one log of RUNs that only the newest owner *)
(* extends, that no crash or takeover shortens, and from which a process   *)
(* that starts to serve reads everything.  Partition implements it.        *)
(***************************************************************************)
EXTENDS Naturals

CONSTANTS
    Servers,  \* processes that may serve the partition
    Entries   \* RUNs: records with a batch and an owner

VARIABLES
    epoch,    \* the owner that may extend the log, 0 before the first
    log,      \* every RUN that took effect
    acked,    \* every RUN whose replies were released
    serving,  \* the owner as which each process serves, 0 while it does not
    forest    \* the RUNs each process serves

vars == <<epoch, log, acked, serving, forest>>

Init ==
    /\ epoch = 0 /\ log = {} /\ acked = {}
    /\ serving = [p \in Servers |-> 0]
    /\ forest = [p \in Servers |-> {}]

\* A FENCE lands: an older owner extends the log no more.
TakeOver(owner) ==
    /\ owner > epoch
    /\ epoch' = owner
    /\ UNCHANGED <<log, acked, serving, forest>>

\* A RUN lands, after every RUN before it.
Extend(run) ==
    /\ run.owner = epoch
    /\ \A earlier \in log : earlier.batch < run.batch
    /\ log' = log \cup {run}
    /\ UNCHANGED <<epoch, acked, serving, forest>>

\* A process serves as the owner of the epoch, the whole log and nothing else.
Serve(p) ==
    /\ serving[p] = 0 /\ epoch # 0
    /\ \A q \in Servers : serving[q] # epoch
    /\ serving' = [serving EXCEPT ![p] = epoch]
    /\ forest' = [forest EXCEPT ![p] = log]
    /\ UNCHANGED <<epoch, log, acked>>

\* A process learns that the next RUN of its own is in the log: it shows the RUN
\* and releases its replies.
Acknowledge(p, run) ==
    /\ serving[p] = run.owner
    /\ run \in log \ forest[p]
    /\ \A earlier \in log : earlier.batch < run.batch => earlier \in forest[p]
    /\ forest' = [forest EXCEPT ![p] = @ \cup {run}]
    /\ acked' = acked \cup {run}
    /\ UNCHANGED <<epoch, log, serving>>

Stop(p) ==
    /\ serving[p] # 0
    /\ serving' = [serving EXCEPT ![p] = 0]
    /\ forest' = [forest EXCEPT ![p] = {}]
    /\ UNCHANGED <<epoch, log, acked>>

Next ==
    \/ \E run \in Entries : TakeOver(run.owner) \/ Extend(run)
    \/ \E p \in Servers : Serve(p) \/ Stop(p)
    \/ \E p \in Servers, run \in Entries : Acknowledge(p, run)

Spec == Init /\ [][Next]_vars

=============================================================================
