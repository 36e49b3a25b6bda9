----------------------------- MODULE MCThreadPool -----------------------------
(***************************************************************************)
(* Three workers and two other threads.                                      *)
(***************************************************************************)
EXTENDS ThreadPool

CONSTANTS w1, w2, w3, u1, u2, j1, j2, j3

ThreeWorkers == {w1, w2, w3}
TwoUsers == {u1, u2}
ThreeJobs == {j1, j2, j3}

=============================================================================
