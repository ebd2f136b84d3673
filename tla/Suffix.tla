------------------------------- MODULE Suffix -------------------------------
(***************************************************************************)
(* Coordinate arithmetic of the WAL suffix: which coordinates a RUN or a   *)
(* takeover FENCE may occupy after the replay cut of the newest Seal.      *)
(* An absent cut (WalReplayPoint::Genesis) is the number 0: batches start  *)
(* at 1, and span_through itself maps None to 0.                           *)
(***************************************************************************)
EXTENDS Integers

CONSTANTS
    CoordinateMax,  \* the last BatchId (u64::MAX in the code)
    SuffixMax,      \* WAL_SUFFIX_COORDINATES_MAX_V2
    Trigger         \* WAL_SUFFIX_CHECKPOINT_SPAN_TRIGGER

\* bounds.rs asserts at compile time that the trigger is half of the bound;
\* a trigger of one would not cover the two coordinates a shed may be ahead of
\* the durable head.
ASSUME SuffixAssumption ==
    /\ Trigger \in Nat /\ Trigger >= 2
    /\ SuffixMax = 2 * Trigger
    /\ CoordinateMax \in Nat

Batches == 1 .. CoordinateMax

\* Coordinates a replay cut may name, 0 standing for the genesis replay point.
Cuts == 0 .. CoordinateMax

\* BatchId::successor fails at the end of the coordinate space.
HasSuccessor(batch) == batch < CoordinateMax

\* The inclusive number of coordinates after cut through head; a negative
\* difference is the None of checked_sub.
SpanThrough(cut, head) == head - cut

\* Variant: the end of the coordinate space is not looked at.
RunAtTheEnd(cut, run) ==
    /\ SpanThrough(cut, run + 1) > 1
    /\ SpanThrough(cut, run + 1) <= SuffixMax

\* Variant: the successor may lie one past the suffix bound.
RunLeavesNoRoom(cut, run) ==
    /\ HasSuccessor(run)
    /\ SpanThrough(cut, run) >= 1
    /\ SpanThrough(cut, run) <= SuffixMax

\* The RUN fits while its successor stays reserved for a takeover FENCE.
RunLeavesTakeoverRoom(cut, run) ==
    /\ HasSuccessor(run)
    /\ SpanThrough(cut, run + 1) > 1
    /\ SpanThrough(cut, run + 1) <= SuffixMax

\* Why a takeover FENCE can or cannot bound a recoverable suffix.
BoundTakeoverFence(cut, fence) ==
    CASE ~HasSuccessor(fence)                     -> "NoRunCoordinate"
      [] HasSuccessor(fence) /\ SpanThrough(cut, fence) <= 0
                                                  -> "NotAfterCut"
      [] HasSuccessor(fence) /\ SpanThrough(cut, fence) > SuffixMax
                                                  -> "SpanExceeded"
      [] OTHER                                    -> "Bounded"

=============================================================================
