------------------------------ MODULE MCStore ------------------------------
(* Two bodies of one length and a longer one that is a FENCE.               *)
EXTENDS Store, TLC

CONSTANTS k1, k2, k3, b1, b2, b3

Lengths(b) == IF b = b3 THEN 2 ELSE 1

Symmetry == Permutations(Calls) \cup Permutations({b1, b2})
=============================================================================
