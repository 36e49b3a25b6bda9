------------------------------- MODULE TcpPeer -------------------------------
(***************************************************************************)
(* A TCP connection of the loop (xx_epoll2.hpp): the sending half of the   *)
(* TcpPeer at one end (Send, Flush, Write and its BufQueue) and, at the    *)
(* other, the receiving half with the framing of Peer::OnReceive           *)
(* (xx_gateway2/main.cpp). Every peer has both halves, which meet only in  *)
(* OnEpollEvent. The kernel holds "sock", what was written and not read.   *)
(* A package is Header bytes of length and a body; a byte is named by its  *)
(* position in the stream.                                                 *)
(***************************************************************************)
EXTENDS BufQueue

CONSTANTS
    SendLenPerFrame, \* sendLenPerFrame
    ReadBufLen,      \* readBufLen, the capacity of recv
    MaxPackage,      \* maxPackageLength
    Header,          \* the bytes of a package's length
    Bodies,          \* the lengths of bodies that the program sends
    SockCap,         \* the bytes that the kernel holds for a connection
    Stray,           \* how many bytes the entries that Fill leaves unset may add to a writev:
                     \* the vector is on the stack and is not initialised
    RingCap,         \* capacity of a new send queue
    MaxSends,        \* bound: packages that are sent
    Backlog          \* bound: bytes that the program leaves queued

ASSUME TcpAssumption ==
    /\ {SendLenPerFrame, ReadBufLen, Header} \subseteq Nat \ {0}
    /\ {MaxPackage, SockCap, MaxSends, Backlog} \cup Bodies \cup Stray \subseteq Nat
    /\ RingCap \in Nat \ {0, 1}
    /\ Elements = [at : 0 .. MaxSends * Backlog, len : 0 .. Backlog]

VARIABLES
    out,     \* the sender: its queue b, "writing", and "armed", EPOLLOUT in the interest set
    sender,  \* "open", or why it is gone
    sock,
    up,      \* the connection is not broken
    recv,    \* the receiver's buffer
    reader,  \* "open", or why it is gone
    ends,    \* history: where the packages given to Send end in the stream
    handled, \* history: the packages the receiver's callbacks were given
    clean    \* history: no write has taken a byte that was not queued

vars == <<out, sender, sock, up, recv, reader, ends, handled, clean>>

Init ==
    /\ out = [b |-> NewBufQueue(RingCap), writing |-> FALSE, armed |-> FALSE]
    /\ sender = "open" /\ sock = <<>> /\ up = TRUE
    /\ recv = <<>> /\ reader = "open" /\ ends = <<>> /\ handled = <<>> /\ clean = TRUE

-----------------------------------------------------------------------------
(* TcpPeer::Write *)

Room == SockCap - Len(sock)
Junk == 0

FullUnarmed(o) == [o EXCEPT !.writing = TRUE]
Full(o) == [o EXCEPT !.writing = TRUE, !.armed = TRUE]

\* The queue after writev took n bytes of the plan.
Sent(o, plan, n) ==
    IF n = plan.bufLen THEN [o EXCEPT !.b = PopPlanned(o.b, plan)]
    ELSE Full([o EXCEPT !.b = PopBytes(o.b, n)])

\* Every outcome of Write: the peer, the kernel's buffer and whether it failed.
\* writev takes any part of what fits. When Fill tells it of more entries than it
\* has set, what those hold is up to the stack: writev refuses them (EFAULT,
\* EINVAL), or they add up to Stray bytes.
Write(o) ==
    IF o.b.bytes = 0 THEN {[out |-> [o EXCEPT !.armed = FALSE], sock |-> sock, ok |-> TRUE]}
    ELSE IF ~up THEN {[out |-> o, sock |-> sock, ok |-> FALSE]}
    ELSE LET plan == Fill(o.b, SendLenPerFrame)
             unset == plan.set < plan.vsLen
             extra == IF unset THEN Stray ELSE {0}
             most == {plan.ask + x : x \in extra}
             bytes == Unsent(o.b) \o [k \in 1 .. SockCap |-> Junk]
         IN (IF Room = 0 THEN {[out |-> Full(o), sock |-> sock, ok |-> TRUE]} ELSE {})
            \cup {[out |-> Sent(o, plan, n), sock |-> sock \o SubSeq(bytes, 1, n), ok |-> TRUE] :
                    n \in {k \in 1 .. Room : \E x \in most : k <= x}}
            \cup (IF unset THEN {[out |-> o, sock |-> sock, ok |-> FALSE]} ELSE {})

WriteUnlessWriting(o) == IF o.writing THEN {[out |-> o, sock |-> sock, ok |-> TRUE]} ELSE Write(o)

StillClean == clean' = (clean /\ Junk \notin ToSet(sock'))

\* Where package m begins: the position before its first byte.
Before(m) == IF m = 1 THEN 0 ELSE ends[m - 1]
Pushed == Before(Len(ends) + 1)

Send(body) ==
    /\ sender = "open" /\ Len(ends) < MaxSends
    /\ out.b.bytes + Header + body <= Backlog
    /\ ends' = Append(ends, Pushed + Header + body)
    /\ \E w \in WriteUnlessWriting(
            [out EXCEPT !.b = Push(@, [at |-> Pushed, len |-> Header + body])]) :
        /\ out' = w.out /\ sock' = w.sock
    /\ StillClean
    /\ UNCHANGED <<sender, up, recv, reader, handled>>

Flush ==
    /\ sender = "open"
    /\ \E w \in WriteUnlessWriting(out) : out' = w.out /\ sock' = w.sock
    /\ StillClean
    /\ UNCHANGED <<sender, up, recv, reader, ends, handled>>

\* OnEpollEvent with EPOLLOUT. The event may be old: it is reported before
\* other handlers of the same epoll_wait fill the socket.
Writable ==
    /\ sender = "open" /\ out.armed
    /\ \E w \in Write([out EXCEPT !.writing = FALSE]) :
        /\ out' = w.out /\ sock' = w.sock
        /\ sender' = IF w.ok THEN sender ELSE "unwritable"
    /\ StillClean
    /\ UNCHANGED <<up, recv, reader, ends, handled>>

\* OnEpollEvent with EPOLLERR or EPOLLHUP, at either end.
SenderHangsUp ==
    /\ ~up /\ sender = "open" /\ sender' = "hung up"
    /\ UNCHANGED <<out, sock, up, recv, reader, ends, handled, clean>>

ReaderHangsUp ==
    /\ ~up /\ reader = "open" /\ reader' = "hung up"
    /\ UNCHANGED <<out, sender, sock, up, recv, ends, handled, clean>>

\* The program disposes of the sending peer: what is queued is gone, what the
\* kernel holds still arrives.
SenderDisposed ==
    /\ sender = "open" /\ sender' = "disposed"
    /\ UNCHANGED <<out, sock, up, recv, reader, ends, handled, clean>>

\* The network or either end drops the connection, and what was under way.
Breaks ==
    /\ up /\ up' = FALSE /\ sock' = <<>>
    /\ UNCHANGED <<out, sender, recv, reader, ends, handled, clean>>

-----------------------------------------------------------------------------
(* TcpPeer::OnEpollEvent with EPOLLIN, and OnReceive *)

Length(m) == ends[m] - Before(m)

\* The package whose length stands at the start of r. A reader that is not at
\* the start of a package reads a length there that nobody wrote; it is taken for
\* one that is too long, and no property speaks of what comes after it.
Framed(r) == {m \in 1 .. Len(ends) : \A k \in 1 .. Header : r[k] = Before(m) + k}
Nobody == 0
PackageAt(r) == IF Framed(r) = {} THEN Nobody ELSE CHOOSE m \in Framed(r) : TRUE
DataLenWhole(r) == IF PackageAt(r) = Nobody THEN MaxPackage + 1 ELSE Length(PackageAt(r))
DataLen(r) == IF PackageAt(r) = Nobody THEN MaxPackage + 1 ELSE Length(PackageAt(r)) - Header

Oversized(r) == Len(r) >= Header /\ DataLen(r) > MaxPackage
Complete(r) == Len(r) >= Header /\ DataLen(r) <= MaxPackage /\ Len(r) >= Header + DataLen(r)

\* One turn of the loop: the package at the start goes to a callback.
Turned(x) ==
    IF ~Complete(x.recv) THEN x
    ELSE [recv |-> SubSeq(x.recv, Header + DataLen(x.recv) + 1, Len(x.recv)),
          given |-> Append(x.given, PackageAt(x.recv))]

Done(r, given, end) == [recv |-> r, given |-> given, end |-> end]

\* Every outcome of OnReceive on a buffer r: what is left of it, the packages
\* given to callbacks, and whether the peer is still open. A callback may
\* dispose of the peer, which ends the loop at once. A turn takes a byte at least.
OnReceive(r) ==
    LET after[k \in 0 .. Len(r)] ==
            IF k = 0 THEN [recv |-> r, given |-> <<>>] ELSE Turned(after[k - 1])
        last == after[Len(r)]
    IN {Done(r, Turned(after[k]).given, "disposed") :
            k \in {j \in 0 .. Len(r) : Complete(after[j].recv)}}
       \cup {IF Oversized(last.recv) THEN Done(r, last.given, "oversized")
             ELSE Done(last.recv, last.given, "open")}

Readable ==
    /\ up /\ reader = "open" /\ sock # <<>> /\ Len(recv) < ReadBufLen
    /\ \E n \in 1 .. Len(sock) :
        /\ Len(recv) + n <= ReadBufLen
        /\ sock' = SubSeq(sock, n + 1, Len(sock))
        /\ \E d \in OnReceive(recv \o SubSeq(sock, 1, n)) :
            recv' = d.recv /\ handled' = handled \o d.given /\ reader' = d.end
    /\ UNCHANGED <<out, sender, up, ends, clean>>

\* An event finds the buffer full of a package that is not complete.
ReadableWhenFull ==
    /\ up /\ reader = "open" /\ sock # <<>> /\ Len(recv) = ReadBufLen
    /\ reader' = "full"
    /\ UNCHANGED <<out, sender, sock, up, recv, ends, handled, clean>>

\* The other end has closed: read returns 0.
EndOfStream ==
    /\ up /\ reader = "open" /\ sock = <<>> /\ sender # "open"
    /\ reader' = IF Len(recv) = ReadBufLen THEN "full" ELSE "ended"
    /\ UNCHANGED <<out, sender, sock, up, recv, ends, handled, clean>>

Next ==
    \/ \E body \in Bodies : Send(body)
    \/ Flush \/ Writable \/ SenderHangsUp \/ ReaderHangsUp
    \/ SenderDisposed \/ Breaks
    \/ Readable \/ ReadableWhenFull \/ EndOfStream

Spec == Init /\ [][Next]_vars

\* The loop goes on: an event that stays there is reported and handled. Weak
\* fairness of Writable, Readable and ReadableWhenFull, the first two with the
\* states spelled out in which they change anything.
CanWrite ==
    sender = "open" /\ out.armed /\ (out.b.bytes = 0 \/ ~up \/ Room > 0 \/ ~out.writing)
CanRead == up /\ reader = "open" /\ sock # <<>> /\ Len(recv) < ReadBufLen
FairSpec ==
    /\ Spec /\ WF_vars(ReadableWhenFull)
    /\ []<>~CanWrite \/ []<><<Writable>>_vars
    /\ []<>~CanRead \/ []<><<Readable>>_vars

-----------------------------------------------------------------------------
(* Properties *)

\* The comment on BufQueue::bytes: it is the sum of the buffers' lengths less
\* the offset. The offset stays within the first buffer, and the ring keeps
\* exactly its elements constructed (the shared buffers are released once).
BytesExact ==
    LET b == out.b
    IN /\ Sound(b.q)
       /\ b.bytes = Len(Unsent(b))
       /\ IF Count(b.q) = 0 THEN b.offset = 0 ELSE b.offset < Top(b.q).len

\* Whatever the sizes of packages, writes and reads: packages are handed over
\* in the order they were sent, each once, and while both peers live every byte
\* is in one place, in order: handed over, in recv, in the kernel or queued. So
\* it is until a write takes bytes of an entry that Fill has not set, and whether
\* or not writes with such entries are refused, cut short or complete.
StreamExact ==
    clean =>
        /\ handled = [m \in 1 .. Len(handled) |-> m]
        /\ up /\ sender = "open" /\ reader = "open" =>
            [k \in 1 .. Before(Len(handled) + 1) |-> k] \o recv \o sock \o Unsent(out.b)
                = [k \in 1 .. Pushed |-> k]

\* A reader gives up on a stream ("too much that was not handled?") only when
\* some package really is longer than its buffer or than the limit, however the
\* bytes came in, unless the sender put bytes between the packages.
CutOffOnlyIfTooLong ==
    clean =>
        /\ reader = "full" => \E m \in 1 .. Len(ends) : Length(m) > ReadBufLen
        /\ reader = "oversized" => \E m \in 1 .. Len(ends) : Length(m) - Header > MaxPackage

\* While the connection and both peers stay, all that was sent is handed over,
\* without a further Send or Flush: whatever is left queued has EPOLLOUT armed.
\* A stream that is not clean has no packages to speak of.
EverythingArrives ==
    <>[](Len(handled) = Len(ends) \/ ~up \/ sender # "open" \/ reader # "open" \/ ~clean)

\* The comment on Fill in Write, "each time only bufLen bytes are sent": writev is
\* given nothing that was not queued. It is, whenever two buffers or more fit into
\* the frame and the vector: Fill then sets vsLen to the length of the vector.
OnlyQueuedBytes == clean
=============================================================================
