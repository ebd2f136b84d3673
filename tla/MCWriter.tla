------------------------------ MODULE MCWriter ------------------------------
(* A writer over small barriers and a suffix of four coordinates.           *)
EXTENDS Writer, TLC

CONSTANTS p1, p2, c1

Symmetry == Permutations({p1, p2})
=============================================================================
