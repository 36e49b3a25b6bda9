------------------------------- MODULE MCGateway -------------------------------
(***************************************************************************)
(* The gateway with a few clients and services.                            *)
(***************************************************************************)
EXTENDS Gateway, TLC

\* Kicks with a delay, shorter and longer than the client timeout of 2 frames.
SomeFrames == {1, 3}
\* A kick at once, one with less than a frame of delay, one with a frame.
AllKicks == {Now, 0, 1}
AtOnce == {Now}
Symmetry == Permutations(Clients)

=============================================================================
