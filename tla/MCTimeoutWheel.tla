--------------------------- MODULE MCTimeoutWheel ---------------------------
(* A four-slot wheel with one item of each kind: lists of up to three      *)
(* items, every interval up to a full turn, and one beyond it.             *)
EXTENDS TimeoutWheel

CONSTANTS timer, peer, other, nil

IntervalRange == {-1, 0, 1, 2, 4, 5}
ShortIntervals == {0, 1, 2}
=============================================================================
