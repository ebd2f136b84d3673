--------------------------- MODULE MCPreparation ---------------------------
(* Two attempts of up to five tables through a pipeline two creates wide.   *)
EXTENDS Preparation
=============================================================================
