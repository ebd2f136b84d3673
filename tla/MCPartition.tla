---------------------------- MODULE MCPartition ----------------------------
(* Processes that take a partition over from each other.                    *)
EXTENDS Partition, TLC

CONSTANTS w0, w1, w2

Symmetry == Permutations(Procs)
=============================================================================
