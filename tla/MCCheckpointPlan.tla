-------------------------- MODULE MCCheckpointPlan --------------------------
(***************************************************************************)
(* Four paths over a capacity of three streams, so that a create meets the *)
(* capacity bound; two rows to a table, and two runs, four tables and      *)
(* eleven units of bytes to a Seal, so that delta and full-base plans      *)
(* alternate and each of the three bounds is met alone.                    *)
(***************************************************************************)
EXTENDS CheckpointPlan

CONSTANTS p1, p2, p3, p4, c1
=============================================================================
