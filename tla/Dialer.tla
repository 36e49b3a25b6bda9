-------------------------------- MODULE Dialer --------------------------------
(***************************************************************************)
(* A dialer on the event loop: xx::Epoll::Dialer, its TcpConns and         *)
(* KcpConns, Context::Wait and the table fdMappings (xx_epoll2.hpp:10-26,  *)
(* 404-442, 739-821, 850-988, 1238-1253). A dial starts one attempt per    *)
(* address; the first that succeeds stops the others and is handed to      *)
(* OnConnect. epoll_wait reports several descriptors at once, and the      *)
(* handler of one event may close and reopen the descriptor of a later     *)
(* one. A handler of the program may stop, dial again or dispose of the    *)
(* dialer at any point.                                                    *)
(***************************************************************************)
EXTENDS Naturals, Sequences, FiniteSets, Functions

CONSTANTS Addrs,     \* the attempts of a dial in order, each "tcp" or "kcp"
          Fds,       \* descriptors that fdMappings has room for
          Timeout,   \* frames given to Dial
          Peerless,  \* protocols for which OnCreatePeer may return nothing
          MaxDials   \* bound: calls of Dial

ASSUME DialerAssumption ==
    /\ Addrs \in Seq({"tcp", "kcp"}) /\ Fds \subseteq Nat /\ IsFiniteSet(Fds)
    /\ Timeout \in Nat \ {0} /\ MaxDials \in Nat /\ Peerless \subseteq {"tcp", "kcp"}

NoItem == 0

VARIABLES
    s,      \* what handlers work on:
            \*   items   living items by number (a Ref resolves to no other): their
            \*           kind, "tcpConn", "kcpConn", "tcpPeer" or "kcpPair" (a KcpConn
            \*           with its KcpPeer), and their descriptor
            \*   map     fdMappings
            \*   open    descriptors that are open
            \*   conns   Dialer::conns
            \*   busy    frames until Dialer::OnTimeout, 0 when not armed
            \*   alive   whether the dialer lives
            \*   made    items made so far
            \*   asked   history: "asked" while a dial waits for its answer, "twice"
            \*           when an answer came that no dial waits for
            \*   dials   history: calls of Dial
    batch,  \* events of this epoll_wait not handled yet: descriptor, the item it
            \* was reported for, and whether it is good news
    fault   \* "assert": an event without an item; "freed": a handler goes on in an
            \* item it has destroyed. The program does not go on from either.

vars == <<s, batch, fault>>

\* AddItem
NewItem(t, kind, fd) ==
    LET new == t.made + 1 IN
    [t EXCEPT !.items = [i \in DOMAIN t.items \cup {new} |->
                           IF i = new THEN [kind |-> kind, fd |-> fd] ELSE t.items[i]],
              !.map[fd] = new, !.made = new]

\* ~Item closes the descriptor and clears the table.
Destroy(t, I) ==
    LET gone == I \cap DOMAIN t.items
        fds == {t.items[i].fd : i \in gone} IN
    [t EXCEPT !.items = Restrict(t.items, DOMAIN t.items \ gone),
              !.map = [f \in Fds |-> IF f \in fds THEN NoItem ELSE t.map[f]],
              !.open = t.open \ fds]

AttemptsButLast(t) == {t.conns[k] : k \in 1 .. Len(t.conns) - 1}
Attempts(t) == {t.conns[k] : k \in 1 .. Len(t.conns)}

-----------------------------------------------------------------------------
(* Dialer *)

StopKeepsTimeout(t) == [Destroy(t, Attempts(t)) EXCEPT !.conns = <<>>]
Stop(t) == [Destroy(t, Attempts(t)) EXCEPT !.conns = <<>>, !.busy = 0]

ConnKind == [tcp |-> "tcpConn", kcp |-> "kcpConn"]

DialUntimed(t) == [Stop(t) EXCEPT !.dials = t.dials + 1, !.asked = "asked"]
DialBegun(t) ==
    [Stop(t) EXCEPT !.busy = Timeout, !.dials = t.dials + 1, !.asked = "asked"]

\* NewTcpConn and NewKcpConn. socket() gives the lowest descriptor that is free,
\* for one address after the other; none has any when they do not suffice.
Descriptors(t) ==
    LET free == Fds \ t.open
        FreeFor(fd, k) == free \ {fd[j] : j \in 1 .. k - 1}
    IN {fd \in [DOMAIN Addrs -> free] :
          \A k \in DOMAIN Addrs :
             fd[k] \in FreeFor(fd, k) /\ \A f \in FreeFor(fd, k) : fd[k] <= f}

Attempt(t, fd) ==
    LET new == t.made + 1 .. t.made + Len(Addrs) IN
    [t EXCEPT
       !.items = [i \in DOMAIN t.items \cup new |->
                    IF i \in new THEN [kind |-> ConnKind[Addrs[i - t.made]], fd |-> fd[i - t.made]]
                                 ELSE t.items[i]],
       !.map = [f \in Fds |-> IF f \in Range(fd)
                              THEN t.made + CHOOSE k \in DOMAIN Addrs : fd[k] = f ELSE t.map[f]],
       !.open = t.open \cup Range(fd),
       !.conns = [k \in DOMAIN Addrs |-> t.made + k],
       !.made = t.made + Len(Addrs)]

\* Dial: every address gets an attempt, or one cannot be started and all stop.
Dialed(t) ==
    LET b == DialBegun(t) IN
    {Attempt(b, fd) : fd \in Descriptors(b)}
        \cup {[b EXCEPT !.busy = 0, !.asked = "no"]}

Stopped(t) == [Stop(t) EXCEPT !.asked = "no"]
Disposed(t) == [Stopped(t) EXCEPT !.alive = FALSE]   \* ~Dialer

\* What a handler of the program leaves behind: nothing new, or a dialer that it
\* stopped, dialed again or disposed of.
Handled(t) ==
    {t} \cup (IF t.alive THEN {Stopped(t), Disposed(t)} ELSE {})
        \cup (IF t.alive /\ t.dials < MaxDials THEN Dialed(t) ELSE {})

\* OnConnect, with a peer or with the empty one.
Answered(t) ==
    Handled([t EXCEPT !.asked = IF t.asked = "asked" THEN "no" ELSE "twice"])

-----------------------------------------------------------------------------
(* OnEpollEvent of the attempts *)

\* A TcpConn that connected destroys itself, its descriptor kept open.
HandOverClosed(t, i) == Destroy(t, {i})
HandOver(t, i) == [Destroy(t, {i}) EXCEPT !.open = t.open]

TcpConnected(t, i) ==
    LET fd == t.items[i].fd
        rest == Stop(HandOver(t, i)) IN
    Answered(NewItem(rest, "tcpPeer", fd)) \cup
    IF "tcp" \in Peerless THEN Answered([rest EXCEPT !.open = rest.open \ {fd}]) ELSE {}

\* A KcpConn that got its conv looks for itself in conns and takes out the last
\* attempt of the list instead, whichever it is; the others are stopped.
KcpStopped(t, i) ==
    Stop([t EXCEPT !.conns = IF i \in Attempts(t) THEN SubSeq(t.conns, 1, Len(t.conns) - 1)
                                                  ELSE t.conns])

\* Without a peer the KcpConn stays, and OnConnect is not called.
KcpConnected(t, i) ==
    LET rest == KcpStopped(t, i) IN
    Answered([rest EXCEPT !.items[i].kind = "kcpPair", !.made = rest.made + 1]) \cup
    IF "kcp" \in Peerless THEN {rest} ELSE {}

-----------------------------------------------------------------------------
(* The loop *)

\* Good news for an attempt is success; a peer only has bad news here: its
\* connection breaks. Events that change nothing are left out.
News(i) == IF s.items[i].kind \in {"tcpConn", "kcpConn"} THEN BOOLEAN ELSE {FALSE}

Wait ==
    /\ batch = {}
    /\ \E ready \in SUBSET DOMAIN s.items : \E good \in [ready -> BOOLEAN] :
          /\ ready # {} /\ \A i \in ready : good[i] \in News(i)
          /\ batch' = {[fd |-> s.items[i].fd, item |-> i, good |-> good[i]] : i \in ready}
    /\ UNCHANGED <<s, fault>>

Take(e) == e \in batch /\ batch' = batch \ {e}

\* assert(h): the item was destroyed by a handler of this batch, and nothing has
\* its descriptor now.
StaleEvent(e) ==
    /\ Take(e) /\ s.map[e.fd] = NoItem
    /\ fault' = "assert" /\ UNCHANGED s

\* A TcpConn takes any event without an error for its success.
TcpConnEvent(e, i) ==
    /\ Take(e) /\ s.items[i].kind = "tcpConn"
    /\ s' \in IF s.alive /\ e.good THEN TcpConnected(s, i) ELSE {Destroy(s, {i})}
    /\ UNCHANGED fault

\* A KcpConn reads: an error disposes of it, and so does an event that was
\* another item's if it says there is data, for there is none.
KcpConnEvent(e, i) ==
    /\ Take(e) /\ s.items[i].kind = "kcpConn"
    /\ IF ~e.good THEN s' = Destroy(s, {i}) /\ UNCHANGED fault
       ELSE IF e.item # i THEN s' \in {s, Destroy(s, {i})} /\ UNCHANGED fault
       ELSE IF ~s.alive THEN fault' = "assert" /\ UNCHANGED s
       ELSE IF i \notin DOMAIN KcpStopped(s, i).items
            THEN fault' = "freed" /\ s' = KcpStopped(s, i)
       ELSE s' \in KcpConnected(s, i) /\ UNCHANGED fault

\* A peer breaks: its OnDisconnect, a handler of the program, then Dispose.
PeerEvent(e, i) ==
    /\ Take(e) /\ s.items[i].kind \in {"tcpPeer", "kcpPair"}
    /\ s' \in {Destroy(t, {i}) : t \in Handled(s)}
    /\ UNCHANGED fault

\* A frame between two waits; Dialer::OnTimeout gives up.
Frame ==
    /\ batch = {} /\ s.busy > 0
    /\ s' \in IF s.busy > 1 THEN {[s EXCEPT !.busy = s.busy - 1]} ELSE Answered(Stop(s))
    /\ UNCHANGED <<batch, fault>>

\* A handler of some other item, in a batch or between, uses the dialer.
Program ==
    /\ s.alive /\ s' \in Handled(s) \ {s}
    /\ UNCHANGED <<batch, fault>>

Init ==
    /\ s = [items |-> << >>, map |-> [f \in Fds |-> NoItem], open |-> {}, conns |-> <<>>,
            busy |-> 0, alive |-> TRUE, made |-> 0, asked |-> "no", dials |-> 0]
    /\ batch = {} /\ fault = "none"

Event == \E e \in batch :
    \/ StaleEvent(e)
    \/ \E i \in DOMAIN s.items \cap {s.map[e.fd]} :
          TcpConnEvent(e, i) \/ KcpConnEvent(e, i) \/ PeerEvent(e, i)

Next == fault = "none" /\ (Wait \/ Event \/ Frame \/ Program)

Spec == Init /\ [][Next]_vars
\* Weak fairness of Event and of Frame, with the guards spelled out: a batch is
\* handled to its end before the next frame, and frames go on.
BatchEnds == []<>(batch = {} \/ fault # "none")
FramesGoOn == []<>(batch # {} \/ s.busy = 0 \/ fault # "none") \/ []<><<Frame>>_vars
FairSpec == Spec /\ BatchEnds /\ FramesGoOn

-----------------------------------------------------------------------------
(* Properties *)

\* Whatever handlers do in the middle of a batch, fdMappings leads from each
\* descriptor to the living item that owns it, and exactly those descriptors are
\* open: none leaks, none is closed under its owner (the hand-over of TcpConn).
MappingExact ==
    /\ \A i \in DOMAIN s.items : s.map[s.items[i].fd] = i
    /\ s.open = {s.items[i].fd : i \in DOMAIN s.items}
    /\ \A f \in Fds : s.map[f] # NoItem => s.map[f] \in DOMAIN s.items

\* One dial gets one answer: not two when two attempts succeed in one batch, nor
\* one after a Stop, nor a timeout after a success (OnConnect).
OneAnswer == s.asked # "twice"

\* No attempt outlives its dial: what is still trying belongs to a dialer that is
\* busy (Dialer::Stop).
NothingLeft ==
    fault = "none" =>
        \A i \in DOMAIN s.items :
            s.items[i].kind \in {"tcpConn", "kcpConn"} => i \in Attempts(s) /\ s.busy > 0

\* Busy says whether an answer is still to come; the gateway dials by it.
BusyExact == fault = "none" => (s.busy > 0 <=> s.asked = "asked")

\* A dial that the program leaves alone gets its answer (Dialer::OnTimeout).
DialEnds ==
    \A n \in 1 .. MaxDials :
        s.dials = n /\ s.asked = "asked" ~> s.dials # n \/ s.asked # "asked" \/ fault # "none"

\* The assertion of Context::Wait: an event finds an item.
NoStaleEvent == fault # "assert"

\* A KcpConn that connects takes itself out of the list and lives on.
FindsItself == fault # "freed"

=============================================================================
