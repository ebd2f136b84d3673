----------------------------- MODULE MCListing -----------------------------
(* Five coordinates in three binary digits: 6 and 7 are digits that no u64  *)
(* spells.  The strays are a short name and the spelling of coordinate 0.   *)
EXTENDS Listing

CONSTANT l1

TwoStrays == {<<0>>, <<1, 0, 1>>}
=============================================================================
