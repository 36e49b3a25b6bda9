----------------------------- MODULE MCItemPool -----------------------------
(* Small pools for TLC: two references are enough for one to be taken      *)
(* before and one after a slot is reused.                                  *)
EXTENDS ItemPool

CONSTANTS r1, r2

=============================================================================
