----------------------------- MODULE KcpSession -----------------------------
(***************************************************************************)
(* The KCP handshake over UDP and the sessions it makes (xx_epoll2.hpp):   *)
(* the KcpConns of one process and, in Context::kcps, their KcpPeers; at   *)
(* the other end a KcpListener with its dictionaries shakes and kcps. The  *)
(* network loses, repeats, delays and reorders packets. A KcpConn here is  *)
(* alone in its Dialer; the race between several is the module Dialer's.   *)
(***************************************************************************)
EXTENDS Integers, FiniteSets, SequencesExt

CONSTANTS
    Ports,    \* bound: of each KcpConn that is made, the ip:port pairs its socket may get
    Life,     \* ticks a shake lives: nowMS + 3000
    Failing,  \* states in which a KcpConn meets an error of its socket
    MaxTicks, \* bound: ticks of the listener
    NetCap    \* bound: packets under way

VARIABLES
    conn,      \* the living KcpConns and client peers, by their serial: "state" is
               \* "dialing", "detached" (answered, but no peer was made), "joined"
               \* or "orphan" (only the peer is left); the port of the socket; of
               \* the peer, "conv" and "place" (indexAtKcps); history "before",
               \* the convs that had been accepted when it began to dial
    epKcps,    \* Context::kcps, a peer named by the serial of its KcpConn
    lastSerial,\* autoIncKcpSerial
    listening, \* the KcpListener lives
    shakes,    \* KcpListener::shakes by ip:port
    convId,    \* KcpListener::convId
    kcps,      \* KcpListener::kcps: where each living peer sends to, by conv
    now,       \* nowMS of the listener's Context
    net,       \* packets under way; one that is delivered may come again
    accepted   \* history: the convs of all peers the listener made

clientVars == <<conn, epKcps, lastSerial>>
listenerVars == <<listening, shakes, convId, kcps, now, accepted>>
vars == <<clientVars, listenerVars, net>>

Init ==
    /\ conn = <<>> /\ epKcps = <<>> /\ lastSerial = 0
    /\ listening = TRUE /\ shakes = <<>> /\ convId = 0 /\ kcps = <<>> /\ now = 0
    /\ net = {} /\ accepted = {}

With(f, x, y) == [z \in DOMAIN f \cup {x} |-> IF z = x THEN y ELSE f[z]]
Without(f, x) == [z \in DOMAIN f \ {x} |-> f[z]]

Hello(p, s) == [kind |-> "hello", port |-> p, serial |-> s]
Answer(p, s, k) == [kind |-> "answer", port |-> p, serial |-> s, conv |-> k]
Data(p, k) == [kind |-> "data", port |-> p, conv |-> k]

\* UdpPeer::Send and the network, which may lose the packet or an older one.
Transmit(m) ==
    \/ UNCHANGED net
    \/ net' = net \cup {m} /\ Cardinality(net') <= NetCap
    \/ \E x \in net : net' = (net \ {x}) \cup {m}

HasSocket(s) == s \in DOMAIN conn /\ conn[s].state # "orphan"

-----------------------------------------------------------------------------
(* KcpConn and its KcpPeer *)

\* NewKcpConn and KcpConn::Init, whose OnTimeout sends at once. The socket may
\* get a port that an earlier one had.
Dial(p) ==
    /\ \A s \in DOMAIN conn : HasSocket(s) => conn[s].port # p
    /\ lastSerial' = lastSerial + 1
    /\ conn' = With(conn, lastSerial + 1,
           [state |-> "dialing", port |-> p, conv |-> 0, place |-> 0, before |-> accepted])
    /\ Transmit(Hello(p, lastSerial + 1))
    /\ UNCHANGED <<epKcps, listenerVars>>

\* KcpConn::OnTimeout every 0.2 seconds, for as long as the KcpConn lives.
ResendNever(s) == FALSE /\ UNCHANGED vars
Resend(s) ==
    /\ HasSocket(s) /\ Transmit(Hello(conn[s].port, s))
    /\ UNCHANGED <<clientVars, listenerVars>>

\* The Dialer stops: its timeout, Stop, or another connection that was faster.
GiveUp(s) ==
    /\ HasSocket(s) /\ conn[s].state = "dialing"
    /\ conn' = Without(conn, s)
    /\ UNCHANGED <<epKcps, lastSerial, listenerVars, net>>

Peered(s, k) ==
    [state |-> "joined", port |-> conn[s].port, conv |-> k, place |-> Len(epKcps) + 1,
     before |-> conn[s].before]
ForPort(s, m) == m.kind = "answer" /\ m.port = conn[s].port
Matches(s, m) == m.kind = "answer" /\ m.port = conn[s].port /\ m.serial = s

\* KcpConn::OnReceive without a peer: it leaves its Dialer, which stops, and
\* gets a peer; if none is made it stays, and hears the next answer.
Joins(s, m) ==
    /\ HasSocket(s) /\ conn[s].state # "joined" /\ Matches(s, m)
    /\ \/ /\ conn' = [conn EXCEPT ![s] = Peered(s, m.conv)]
          /\ epKcps' = Append(epKcps, s)
       \/ conn' = [conn EXCEPT ![s].state = "detached"] /\ UNCHANGED epKcps
    /\ UNCHANGED <<lastSerial, listenerVars, net>>

\* Whatever the client's peer sends, ikcp's own packets included.
ClientData(s) ==
    /\ HasSocket(s) /\ conn[s].state = "joined"
    /\ Transmit(Data(conn[s].port, conn[s].conv))
    /\ UNCHANGED <<clientVars, listenerVars>>

\* XX_SWAP_REMOVE: the index written after the swap is the one of the peer that
\* goes, so the peer that moves keeps its old one.
SwapRemoved(s) ==
    LET i == conn[s].place
        swapped == [epKcps EXCEPT ![i] = Last(epKcps), ![Len(epKcps)] = epKcps[i]]
    IN Front(IF i < Len(epKcps) THEN swapped ELSE epKcps)

\* ~KcpPeer: its owner, if it lives, goes with it, and only then does the peer
\* leave Context::kcps.
ClientPeerDies(s) ==
    /\ s \in DOMAIN conn /\ conn[s].state \in {"joined", "orphan"}
    /\ conn' = Without(conn, s)
    /\ epKcps' = IF conn[s].state = "joined" THEN SwapRemoved(s) ELSE epKcps
    /\ UNCHANGED <<lastSerial, listenerVars, net>>

\* UdpPeer::OnEpollEvent: an error or a failed recvfrom disposes of the KcpConn,
\* not of the peer it may have.
ConnFails(s) ==
    /\ HasSocket(s) /\ conn[s].state \in Failing
    /\ conn' = IF conn[s].state = "joined" THEN [conn EXCEPT ![s].state = "orphan"]
               ELSE Without(conn, s)
    /\ UNCHANGED <<epKcps, lastSerial, listenerVars, net>>

-----------------------------------------------------------------------------
(* KcpListener *)

SameConv == 1
NextConv == convId + 1
NewShake(p) == With(shakes, p, [conv |-> NextConv, until |-> now + Life])

\* OnReceive with 4 bytes: the shake of this ip:port, a new one if there is none.
ListenerHello(m) ==
    /\ listening /\ m.kind = "hello"
    /\ IF m.port \in DOMAIN shakes THEN UNCHANGED <<shakes, convId>>
       ELSE shakes' = NewShake(m.port) /\ convId' = NextConv
    /\ Transmit(Answer(m.port, m.serial, shakes'[m.port].conv))
    /\ UNCHANGED <<clientVars, listening, kcps, now, accepted>>

ShakeKept(m) == shakes
ShakeUsed(m) == Without(shakes, m.port)

\* OnReceive with the conv of a shake: the shake is used up, and a peer is made
\* if OnCreatePeer, InitKcp, Init and OnAccept leave one.
ListenerAccepts(m) ==
    /\ listening /\ m.kind = "data" /\ m.conv \notin DOMAIN kcps
    /\ m.port \in DOMAIN shakes /\ shakes[m.port].conv = m.conv
    /\ shakes' = ShakeUsed(m)
    /\ \/ kcps' = With(kcps, m.conv, m.port) /\ accepted' = accepted \cup {m.conv}
       \/ UNCHANGED <<kcps, accepted>>
    /\ UNCHANGED <<clientVars, listening, convId, now, net>>

\* OnReceive with the conv of a peer: it now sends to where this came from.
ListenerInput(m) ==
    /\ listening /\ m.kind = "data" /\ m.conv \in DOMAIN kcps
    /\ kcps' = With(kcps, m.conv, m.port)
    /\ UNCHANGED <<clientVars, listening, shakes, convId, now, accepted, net>>

\* ~KcpPeer, from Input, its timeout or the program.
ServerPeerDies(k) ==
    /\ k \in DOMAIN kcps /\ kcps' = Without(kcps, k)
    /\ UNCHANGED <<clientVars, listening, shakes, convId, now, accepted, net>>

\* ~KcpListener disposes of its peers.
ListenerDies ==
    /\ listening /\ listening' = FALSE /\ shakes' = <<>> /\ kcps' = <<>>
    /\ UNCHANGED <<clientVars, convId, now, accepted, net>>

\* KcpListener::OnTimeout, every frame.
Tick ==
    /\ listening /\ now < MaxTicks /\ now' = now + 1
    /\ shakes' = [p \in {x \in DOMAIN shakes : shakes[x].until >= now'} |-> shakes[p]]
    /\ UNCHANGED <<clientVars, listening, convId, kcps, accepted, net>>

Next ==
    \/ lastSerial + 1 \in DOMAIN Ports /\ \E p \in Ports[lastSerial + 1] : Dial(p)
    \/ \E s \in DOMAIN conn :
        Resend(s) \/ GiveUp(s) \/ ClientData(s) \/ ClientPeerDies(s) \/ ConnFails(s)
    \/ \E m \in net :
        \/ \E s \in DOMAIN conn : Joins(s, m)
        \/ ListenerHello(m) \/ ListenerAccepts(m) \/ ListenerInput(m)
    \/ \E k \in DOMAIN kcps : ServerPeerDies(k)
    \/ ListenerDies \/ Tick

Spec == Init /\ [][Next]_vars

\* The resend timer fires, and a packet that is under way again and again comes
\* through at some time.
Greets(s) == s \in DOMAIN conn /\ \E m \in net : m = Hello(conn[s].port, s) /\ ListenerHello(m)
Answered(s) == \E m \in net : Joins(s, m)
FairSpec ==
    Spec /\ \A s \in DOMAIN Ports : WF_vars(Resend(s)) /\ SF_vars(Greets(s)) /\ SF_vars(Answered(s))

-----------------------------------------------------------------------------
(* Properties *)

\* A conv makes a peer once: data that comes late or again, after its peer has
\* died, does not bring the session back, whatever else is shaken meanwhile.
AcceptedOnce == [][\A k \in DOMAIN kcps' : k \in DOMAIN kcps \/ k \notin accepted]_vars

\* Every place that still names a conv, with the ip:port it names it for.
ShakeConvs == {<<shakes[p].conv, p>> : p \in DOMAIN shakes}
PacketConvs == {<<m.conv, m.port>> : m \in {x \in net : x.kind # "hello"}}
ClientConvs == {<<conn[s].conv, conn[s].port>> : s \in {x \in DOMAIN conn : conn[x].state = "joined"}}
ServerConvs == {<<k, kcps[k]>> : k \in DOMAIN kcps}
Convs == ShakeConvs \cup PacketConvs \cup ClientConvs \cup ServerConvs

\* A conv belongs to one ip:port, in the listener, in the clients and in every
\* packet under way, however old: no client's data reaches another's peer, and
\* no peer starts to send to another's address.
OnePortPerConv == \A x \in Convs, y \in Convs : x[1] = y[1] => x[2] = y[2]

\* "Incremented each time, against the interference of late answers" (serial): a
\* client that joins was given a conv that had not been used up when it began to
\* dial, though an earlier socket at its port had been given one.
NoLateAnswer == \A s \in DOMAIN conn : conn[s].state = "joined" => conn[s].conv \notin conn[s].before

\* The handshake ends, as long as the listener stays: packets are sent again
\* until an answer comes.
HandshakeEnds == []<>(listening => \A s \in DOMAIN conn : conn[s].state # "dialing")

\* ~KcpPeer, "removes it from ep->kcps", and indexAtKcps, "for fast removal by
\* exchange": Context::kcps has the living client peers, each once.
EpKcpsExact ==
    /\ ToSet(epKcps) = {s \in DOMAIN conn : conn[s].state \in {"joined", "orphan"}}
    /\ Len(epKcps) = Cardinality(ToSet(epKcps))
=============================================================================
