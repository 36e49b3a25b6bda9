------------------------------ MODULE MCTcpPeer ------------------------------
(* Small instances of TcpPeer for TLC. *)
EXTENDS TcpPeer

NoStray == {0}
NoneOrOne == {0, 1}

\* Buffers as they are pushed.
AllBuffers == [at : 0 .. MaxSends * Backlog, len : 0 .. Backlog]
=============================================================================
