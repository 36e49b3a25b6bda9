---------------------------- MODULE MCKcpSession ----------------------------
(* Small instances of KcpSession for TLC. *)
EXTENDS KcpSession

CONSTANTS p, q, r

\* The first of two KcpConns has a port, the second the same one or another.
SameOrOther == <<{p}, {p, q}>>

ThreePorts == <<{p}, {q}, {r}>>
=============================================================================
