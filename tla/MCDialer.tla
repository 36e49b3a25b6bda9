------------------------------- MODULE MCDialer -------------------------------
(***************************************************************************)
(* Dialers with two or three attempts.                                     *)
(***************************************************************************)
EXTENDS Dialer

TcpTcpKcp == <<"tcp", "tcp", "kcp">>
TcpTcp == <<"tcp", "tcp">>
KcpTcp == <<"kcp", "tcp">>

=============================================================================
