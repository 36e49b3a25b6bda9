-------------------------- MODULE KcpSessionProofs --------------------------
(***************************************************************************)
(* For any ports, sockets, losses, repetitions and delays: a conv belongs  *)
(* to one ip:port, makes one peer, and no client joins with one that was   *)
(* used up. All of it rests on a conv being issued once, for one shake,    *)
(* and that shake being used up by the peer it makes.                      *)
(***************************************************************************)
EXTENDS KcpSession, TLAPS

AllPorts == UNION {Ports[i] : i \in DOMAIN Ports}
Packets ==
    [kind : {"hello"}, port : AllPorts, serial : Nat]
        \cup [kind : {"answer"}, port : AllPorts, serial : Nat, conv : Nat]
        \cup [kind : {"data"}, port : AllPorts, conv : Nat]
IsConn(r) ==
    /\ r = [state |-> r.state, port |-> r.port, conv |-> r.conv, place |-> r.place,
            before |-> r.before]
    /\ r.port \in AllPorts /\ r.conv \in Nat

Types ==
    /\ conn = [s \in DOMAIN conn |-> conn[s]] /\ \A s \in DOMAIN conn : IsConn(conn[s])
    /\ convId \in Nat /\ lastSerial \in Nat /\ net \subseteq Packets

\* What is named anywhere has been issued, and a serial in use as well.
Issued ==
    /\ \A x \in Convs : x[1] \in 1 .. convId
    /\ accepted \subseteq 1 .. convId
    /\ DOMAIN conn \subseteq 1 .. lastSerial
    /\ \A m \in net : m.kind # "data" => m.serial <= lastSerial

\* A shake that waits has not made a peer.
ShakesUnused == \A p \in DOMAIN shakes : shakes[p].conv \notin accepted

\* An answer to a living KcpConn is not older than its dialing.
AnswersFresh ==
    /\ \A s \in DOMAIN conn : conn[s].before \subseteq accepted
    /\ \A m \in net : m.kind = "answer" /\ m.serial \in DOMAIN conn =>
        m.conv \notin conn[m.serial].before

IInv == Types /\ Issued /\ OnePortPerConv /\ ShakesUnused /\ AnswersFresh /\ NoLateAnswer

-----------------------------------------------------------------------------
(* What an action leaves of the packets and of the convs that are named *)

\* Sending adds no packet but the one that is sent.
LEMMA Transmitted ==
    ASSUME NEW m, Transmit(m)
    PROVE  net' \subseteq net \cup {m}
BY DEF Transmit

\* Sending names no conv but the packet's.
LEMMA PacketNames ==
    ASSUME NEW m, net' \subseteq net \cup {m}
    PROVE  PacketConvs' \subseteq
               PacketConvs \cup (IF m.kind = "hello" THEN {} ELSE {<<m.conv, m.port>>})
BY DEF PacketConvs

Kept == Convs' \subseteq Convs /\ convId' = convId
IssuedTo(p) == Convs' \subseteq Convs \cup {<<convId + 1, p>>} /\ convId' = convId + 1

\* A step names no new conv, except that a new shake names the next one.
LEMMA NamesStep ==
    ASSUME Types, OnePortPerConv, [Next]_vars
    PROVE  Kept \/ \E p \in AllPorts : IssuedTo(p)
<1> USE DEF Kept, Convs
<1>1. CASE UNCHANGED vars
    BY <1>1 DEF vars, clientVars, listenerVars, ShakeConvs, PacketConvs, ClientConvs, ServerConvs
<1>2. ASSUME NEW p, Dial(p) PROVE Kept
  <2>1. /\ PacketConvs' \subseteq PacketConvs
        /\ UNCHANGED <<shakes, kcps, convId>>
    BY <1>2, Transmitted, PacketNames DEF Dial, Hello, listenerVars
  <2>2. ClientConvs' \subseteq ClientConvs
    BY <1>2 DEF Dial, ClientConvs, With
  <2> QED BY <2>1, <2>2 DEF ShakeConvs, ServerConvs
<1>3. ASSUME NEW s, Resend(s) PROVE Kept
  <2>1. /\ PacketConvs' \subseteq PacketConvs
        /\ UNCHANGED <<shakes, kcps, convId, conn>>
    BY <1>3, Transmitted, PacketNames DEF Resend, Hello, listenerVars, clientVars
  <2> QED BY <2>1 DEF ShakeConvs, ServerConvs, ClientConvs
<1>4. ASSUME NEW s, GiveUp(s) \/ ClientPeerDies(s) PROVE Kept
  <2>1. UNCHANGED <<shakes, kcps, convId, net>> /\ conn' = Without(conn, s)
    BY <1>4 DEF GiveUp, ClientPeerDies, listenerVars
  <2>2. ClientConvs' \subseteq ClientConvs
    BY <2>1 DEF ClientConvs, Without
  <2> QED BY <2>1, <2>2 DEF ShakeConvs, ServerConvs, PacketConvs
<1>5. ASSUME NEW s \in DOMAIN conn, ClientData(s) PROVE Kept
  <2>1. UNCHANGED <<shakes, kcps, convId, conn>> /\ <<conn[s].conv, conn[s].port>> \in ClientConvs
    BY <1>5 DEF ClientData, listenerVars, clientVars, ClientConvs
  <2>2. PacketConvs' \subseteq PacketConvs \cup {<<conn[s].conv, conn[s].port>>}
    BY <1>5, Transmitted, PacketNames DEF ClientData, Data
  <2> QED BY <2>1, <2>2 DEF ShakeConvs, ServerConvs, ClientConvs
<1>6. ASSUME NEW s \in DOMAIN conn, ConnFails(s) PROVE Kept
  <2>1. UNCHANGED <<shakes, kcps, convId, net>>
    BY <1>6 DEF ConnFails, listenerVars
  <2>2. ClientConvs' \subseteq ClientConvs
    <3>1. CASE conn[s].state = "joined"
      <4>1. conn' = [conn EXCEPT ![s].state = "orphan"]
        BY <1>6, <3>1 DEF ConnFails
      <4> QED BY <4>1 DEF ClientConvs, Types, IsConn
    <3>2. CASE conn[s].state # "joined"
      BY <1>6, <3>2 DEF ConnFails, ClientConvs, Without
    <3> QED BY <3>1, <3>2
  <2> QED BY <2>1, <2>2 DEF ShakeConvs, ServerConvs, PacketConvs
<1>7. ASSUME NEW m \in net, NEW s \in DOMAIN conn, Joins(s, m) PROVE Kept
  <2>1. UNCHANGED <<shakes, kcps, convId, net>> /\ <<m.conv, conn[s].port>> \in PacketConvs
    BY <1>7 DEF Joins, Matches, listenerVars, PacketConvs
  <2>2. ClientConvs' \subseteq ClientConvs \cup {<<m.conv, conn[s].port>>}
    <3>1. CASE conn' = [conn EXCEPT ![s] = Peered(s, m.conv)]
      BY <3>1 DEF Peered, ClientConvs, Types, IsConn
    <3>2. CASE conn' = [conn EXCEPT ![s].state = "detached"]
      BY <3>2 DEF ClientConvs, Types, IsConn
    <3> QED BY <1>7, <3>1, <3>2 DEF Joins
  <2> QED BY <2>1, <2>2 DEF ShakeConvs, ServerConvs, PacketConvs
<1>8. ASSUME NEW m \in net, ListenerHello(m) PROVE Kept \/ \E p \in AllPorts : IssuedTo(p)
  <2> DEFINE a == Answer(m.port, m.serial, shakes'[m.port].conv)
  <2>1. UNCHANGED <<kcps, conn>> /\ m.port \in AllPorts
    BY <1>8 DEF ListenerHello, listenerVars, clientVars, Types, Packets
  <2>2. PacketConvs' \subseteq PacketConvs \cup {<<shakes'[m.port].conv, m.port>>}
    BY <1>8, Transmitted, PacketNames DEF ListenerHello, Answer
  <2>3. CASE m.port \in DOMAIN shakes
    <3>1. UNCHANGED <<shakes, convId>>
      BY <1>8, <2>3 DEF ListenerHello
    <3> QED BY <2>1, <2>2, <2>3, <3>1 DEF ShakeConvs, ServerConvs, ClientConvs
  <2>4. CASE m.port \notin DOMAIN shakes
    <3>1. /\ convId' = convId + 1 /\ shakes' = NewShake(m.port)
          /\ shakes'[m.port].conv = convId + 1
      BY <1>8, <2>4 DEF ListenerHello, NewShake, NextConv, With
    <3>2. ShakeConvs' \subseteq ShakeConvs \cup {<<convId + 1, m.port>>}
      BY <3>1 DEF ShakeConvs, NewShake, With
    <3> QED BY <2>1, <2>2, <3>1, <3>2 DEF ServerConvs, ClientConvs, IssuedTo
  <2> QED BY <2>3, <2>4
<1>9. ASSUME NEW m \in net, ListenerAccepts(m) PROVE Kept
  <2>1. UNCHANGED <<conn, convId, net>> /\ <<m.conv, m.port>> \in PacketConvs
    BY <1>9 DEF ListenerAccepts, clientVars, PacketConvs
  <2>2. ShakeConvs' \subseteq ShakeConvs
    BY <1>9 DEF ListenerAccepts, ShakeUsed, ShakeConvs, Without
  <2>3. ServerConvs' \subseteq ServerConvs \cup {<<m.conv, m.port>>}
    BY <1>9 DEF ListenerAccepts, ServerConvs, With
  <2> QED BY <2>1, <2>2, <2>3 DEF ClientConvs, PacketConvs
<1>10. ASSUME NEW m \in net, ListenerInput(m) PROVE Kept
  <2>1. UNCHANGED <<conn, shakes, convId, net>> /\ <<m.conv, m.port>> \in PacketConvs
    BY <1>10 DEF ListenerInput, clientVars, PacketConvs
  <2>2. ServerConvs' \subseteq ServerConvs \cup {<<m.conv, m.port>>}
    BY <1>10 DEF ListenerInput, ServerConvs, With
  <2> QED BY <2>1, <2>2 DEF ShakeConvs, ClientConvs, PacketConvs
<1>11. ASSUME NEW k, ServerPeerDies(k) PROVE Kept
  <2>1. UNCHANGED <<conn, shakes, convId, net>> /\ kcps' = Without(kcps, k)
    BY <1>11 DEF ServerPeerDies, clientVars
  <2> QED BY <2>1 DEF ShakeConvs, ClientConvs, PacketConvs, ServerConvs, Without
<1>12. CASE ListenerDies
  <2>1. UNCHANGED <<conn, convId, net>> /\ shakes' = <<>> /\ kcps' = <<>>
    BY <1>12 DEF ListenerDies, clientVars
  <2> QED BY <2>1 DEF ShakeConvs, ClientConvs, PacketConvs, ServerConvs
<1>13. CASE Tick
  <2>1. UNCHANGED <<conn, convId, net, kcps>>
    BY <1>13 DEF Tick, clientVars
  <2>2. ShakeConvs' \subseteq ShakeConvs
    BY <1>13 DEF Tick, ShakeConvs
  <2> QED BY <2>1, <2>2 DEF ClientConvs, PacketConvs, ServerConvs
<1> QED
    BY <1>1, <1>2, <1>3, <1>4, <1>5, <1>6, <1>7, <1>8, <1>9, <1>10, <1>11, <1>12, <1>13 DEF Next

-----------------------------------------------------------------------------
(* The invariant *)

\* It holds of a listener and clients that have just begun.
LEMMA InitIInv == Init => IInv
BY DEF Init, IInv, Types, Issued, OnePortPerConv, ShakesUnused, AnswersFresh, NoLateAnswer,
       Convs, ShakeConvs, PacketConvs, ClientConvs, ServerConvs

\* A KcpConn in another state is still one.
LEMMA StateChanged ==
    ASSUME NEW r, IsConn(r), NEW st
    PROVE  IsConn([r EXCEPT !.state = st])
<1>1. [r EXCEPT !.state = st] =
          [state |-> st, port |-> r.port, conv |-> r.conv, place |-> r.place, before |-> r.before]
    BY DEF IsConn
<1> QED BY <1>1 DEF IsConn

\* Records and packets keep their form.
LEMMA TypesStep ==
    ASSUME Types, Issued, [Next]_vars
    PROVE  Types'
<1> DEFINE Conned == conn = [s \in DOMAIN conn |-> conn[s]] /\ \A s \in DOMAIN conn : IsConn(conn[s])
<1>1. CASE UNCHANGED <<conn, convId, lastSerial, net>>
    BY <1>1 DEF Types, IsConn
<1>2. ASSUME NEW p \in AllPorts, Dial(p) PROVE Types'
  <2>1. net' \subseteq Packets
    BY <1>2, Transmitted DEF Dial, Hello, Types, Packets
  <2>2. UNCHANGED convId /\ lastSerial' \in Nat
    BY <1>2 DEF Dial, Types, listenerVars
  <2>3. Conned'
    BY <1>2 DEF Dial, Types, IsConn, With
  <2> QED BY <2>1, <2>2, <2>3 DEF Types
<1>3. ASSUME NEW s \in DOMAIN conn, Resend(s) \/ ClientData(s) PROVE Types'
  <2>1. conn[s].port \in AllPorts /\ conn[s].conv \in Nat /\ s \in Nat
    BY DEF Types, IsConn, Issued
  <2>2. UNCHANGED <<conn, lastSerial, convId>>
    BY <1>3 DEF Resend, ClientData, clientVars, listenerVars
  <2>3. net' \subseteq Packets
    BY <1>3, <2>1, Transmitted DEF Resend, ClientData, Hello, Data, Types, Packets
  <2> QED BY <2>2, <2>3 DEF Types, IsConn
<1>4. ASSUME NEW s \in DOMAIN conn, conn' = Without(conn, s), UNCHANGED <<lastSerial, convId, net>>
      PROVE  Types'
  <2>1. DOMAIN conn' = DOMAIN conn \ {s} /\ \A z \in DOMAIN conn' : conn'[z] = conn[z]
    BY <1>4 DEF Without
  <2>2. conn' = [z \in DOMAIN conn' |-> conn'[z]]
    BY <1>4 DEF Without
  <2>3. \A z \in DOMAIN conn' : IsConn(conn'[z])
    BY <2>1 DEF Types
  <2>4. Conned'
    BY <2>2, <2>3
  <2> QED BY <1>4, <2>4 DEF Types
<1>5. ASSUME NEW s \in DOMAIN conn, NEW st, conn' = [conn EXCEPT ![s].state = st],
             UNCHANGED <<lastSerial, convId, net>>
      PROVE  Types'
  <2>1. /\ conn' = [z \in DOMAIN conn' |-> conn'[z]] /\ DOMAIN conn' = DOMAIN conn
        /\ \A z \in DOMAIN conn : z # s => conn'[z] = conn[z]
        /\ conn'[s] = [conn[s] EXCEPT !.state = st]
    BY <1>5 DEF Types
  <2>2. IsConn(conn'[s])
    BY <2>1, StateChanged DEF Types
  <2>3. Conned'
    BY <2>1, <2>2 DEF Types, IsConn
  <2> QED BY <1>5, <2>3 DEF Types
<1>6. ASSUME NEW s \in DOMAIN conn, ConnFails(s) PROVE Types'
    BY <1>4, <1>5, <1>6 DEF ConnFails, listenerVars
<1>7. ASSUME NEW m \in net, NEW s \in DOMAIN conn, Joins(s, m) PROVE Types'
  <2>1. CASE conn' = [conn EXCEPT ![s].state = "detached"]
    BY <1>5, <1>7, <2>1 DEF Joins, listenerVars
  <2>2. CASE conn' = [conn EXCEPT ![s] = Peered(s, m.conv)]
    <3>1. m.conv \in Nat
      BY <1>7 DEF Joins, Matches, Types, Packets
    <3>2. /\ conn' = [z \in DOMAIN conn' |-> conn'[z]] /\ DOMAIN conn' = DOMAIN conn
          /\ \A z \in DOMAIN conn : z # s => conn'[z] = conn[z]
      BY <2>2 DEF Types
    <3>3. IsConn(conn'[s])
      BY <2>2, <3>1 DEF Peered, Types, IsConn
    <3>4. Conned'
      BY <3>2, <3>3 DEF Types, IsConn
    <3> QED BY <1>7, <3>4 DEF Types, Joins, listenerVars
  <2> QED BY <1>7, <2>1, <2>2 DEF Joins
<1>8. ASSUME NEW m \in net, ListenerHello(m) PROVE Types'
  <2>1. UNCHANGED <<conn, lastSerial>>
    BY <1>8 DEF ListenerHello, clientVars
  <2>2. m.port \in AllPorts /\ m.serial \in Nat /\ convId \in Nat
    BY <1>8 DEF ListenerHello, Types, Packets
  <2>3. convId' \in Nat /\ shakes'[m.port].conv \in Nat
    <3>1. CASE m.port \in DOMAIN shakes
      <4>1. <<shakes[m.port].conv, m.port>> \in Convs
        BY <3>1 DEF Convs, ShakeConvs
      <4> QED BY <1>8, <2>2, <3>1, <4>1 DEF ListenerHello, Issued
    <3>2. CASE m.port \notin DOMAIN shakes
      BY <1>8, <2>2, <3>2 DEF ListenerHello, NewShake, NextConv, With
    <3> QED BY <3>1, <3>2
  <2>4. net' \subseteq Packets
    BY <1>8, <2>2, <2>3, Transmitted DEF ListenerHello, Answer, Types, Packets
  <2> QED BY <2>1, <2>3, <2>4 DEF Types, IsConn
<1>9. ASSUME NEW p \in Ports[lastSerial + 1], lastSerial + 1 \in DOMAIN Ports, Dial(p)
      PROVE  Types'
  <2>1. p \in AllPorts
    BY <1>9 DEF AllPorts
  <2> QED BY <1>2, <1>9, <2>1
<1>10. ASSUME NEW s \in DOMAIN conn, GiveUp(s) \/ ClientPeerDies(s) PROVE Types'
    BY <1>4, <1>10 DEF GiveUp, ClientPeerDies, listenerVars
<1>11. CASE \/ \E m \in net : ListenerAccepts(m) \/ ListenerInput(m)
            \/ \E k \in DOMAIN kcps : ServerPeerDies(k)
            \/ ListenerDies \/ Tick \/ UNCHANGED vars
    BY <1>1, <1>11 DEF ListenerAccepts, ListenerInput, ServerPeerDies, ListenerDies, Tick, vars,
        clientVars, listenerVars
<1> QED
    BY <1>3, <1>6, <1>7, <1>8, <1>9, <1>10, <1>11 DEF Next

\* What is named has been issued, to one ip:port.
LEMMA IssuedStep ==
    ASSUME Types, Issued, OnePortPerConv, [Next]_vars
    PROVE  Issued' /\ OnePortPerConv'
<1>1. PICK p : \/ Convs' \subseteq Convs /\ convId' = convId
               \/ Convs' \subseteq Convs \cup {<<convId + 1, p>>} /\ convId' = convId + 1
    BY NamesStep DEF Kept, IssuedTo
<1>2. OnePortPerConv'
    BY <1>1 DEF OnePortPerConv, Issued, Types
<1>3. \A x \in Convs' : x[1] \in 1 .. convId'
    BY <1>1 DEF Issued, Types
<1>4. accepted' \subseteq 1 .. convId'
  <2>1. ASSUME NEW m \in net, ListenerAccepts(m) PROVE m.conv \in 1 .. convId
    <3>1. <<m.conv, m.port>> \in Convs
      BY <2>1 DEF ListenerAccepts, Convs, PacketConvs
    <3> QED BY <3>1 DEF Issued
  <2>2. accepted' = accepted \/ \E m \in net : ListenerAccepts(m) /\ accepted' = accepted \cup {m.conv}
    BY DEF Next, vars, clientVars, listenerVars, Dial, Resend, GiveUp, ClientData, ClientPeerDies,
        ConnFails, Joins, ListenerHello, ListenerAccepts, ListenerInput, ServerPeerDies,
        ListenerDies, Tick
  <2> QED BY <1>1, <2>1, <2>2 DEF Issued, Types
<1>5. DOMAIN conn' \subseteq 1 .. lastSerial' /\ lastSerial <= lastSerial'
  <2>1. ASSUME NEW p1, Dial(p1) PROVE <1>5
    BY <2>1 DEF Dial, With, Issued, Types
  <2>2. CASE lastSerial' = lastSerial /\ DOMAIN conn' \subseteq DOMAIN conn
    BY <2>2 DEF Issued, Types
  <2>3. ASSUME NEW s \in DOMAIN conn,
               GiveUp(s) \/ ClientPeerDies(s) \/ ConnFails(s) \/ \E m \in net : Joins(s, m)
        PROVE  <1>5
    BY <2>2, <2>3 DEF Types, GiveUp, ClientPeerDies, ConnFails, Joins, Without
  <2>4. CASE UNCHANGED <<conn, lastSerial>>
    BY <2>2, <2>4
  <2> QED
    BY <2>1, <2>3, <2>4 DEF Next, vars, clientVars, Resend, ClientData, ListenerHello,
        ListenerAccepts, ListenerInput, ServerPeerDies, ListenerDies, Tick
<1>6. \A m \in net' : m.kind # "data" => m.serial <= lastSerial'
  <2>1. ASSUME NEW p1, Dial(p1) PROVE <1>6
    BY <1>5, <2>1, Transmitted DEF Dial, Hello, Issued, Types, Packets
  <2>2. ASSUME NEW s \in DOMAIN conn, Resend(s) \/ ClientData(s) PROVE <1>6
    BY <2>2, Transmitted DEF Resend, ClientData, Hello, Data, Issued, Types, clientVars
  <2>3. ASSUME NEW m \in net, ListenerHello(m) PROVE <1>6
    BY <2>3, Transmitted DEF ListenerHello, Answer, Issued, clientVars
  <2>4. CASE UNCHANGED <<net, lastSerial>>
    BY <2>4 DEF Issued
  <2> QED
    BY <2>1, <2>2, <2>3, <2>4 DEF Next, vars, clientVars, listenerVars, GiveUp, ClientPeerDies,
        ConnFails, Joins, ListenerAccepts, ListenerInput, ServerPeerDies, ListenerDies, Tick
<1> QED BY <1>2, <1>3, <1>4, <1>5, <1>6 DEF Issued

\* A shake that is left after a step has not made a peer.
LEMMA ShakesUnusedStep ==
    ASSUME Types, Issued, OnePortPerConv, ShakesUnused, [Next]_vars
    PROVE  ShakesUnused'
<1>1. ASSUME NEW m \in net, ListenerHello(m) PROVE ShakesUnused'
  <2>1. convId + 1 \notin accepted
    BY DEF Issued, Types
  <2> QED BY <1>1, <2>1 DEF ListenerHello, NewShake, NextConv, With, ShakesUnused
<1>2. ASSUME NEW m \in net, ListenerAccepts(m) PROVE ShakesUnused'
  <2>1. \A p \in DOMAIN shakes : p # m.port => shakes[p].conv # m.conv
    <3>1. \A p \in DOMAIN shakes : <<shakes[p].conv, p>> \in Convs
      BY DEF Convs, ShakeConvs
    <3>2. m.port \in DOMAIN shakes /\ shakes[m.port].conv = m.conv
      BY <1>2 DEF ListenerAccepts
    <3> QED BY <3>1, <3>2 DEF OnePortPerConv
  <2>2. accepted' \subseteq accepted \cup {m.conv}
    BY <1>2 DEF ListenerAccepts
  <2>3. \A p \in DOMAIN shakes' : p \in DOMAIN shakes /\ p # m.port /\ shakes'[p] = shakes[p]
    BY <1>2 DEF ListenerAccepts, ShakeUsed, Without
  <2> QED BY <2>1, <2>2, <2>3 DEF ShakesUnused
<1>3. CASE ListenerDies \/ Tick
  <2>1. accepted' = accepted /\ \A p \in DOMAIN shakes' : p \in DOMAIN shakes /\ shakes'[p] = shakes[p]
    BY <1>3 DEF ListenerDies, Tick
  <2> QED BY <2>1 DEF ShakesUnused
<1>4. CASE UNCHANGED <<shakes, accepted>>
    BY <1>4 DEF ShakesUnused
<1> QED
    BY <1>1, <1>2, <1>3, <1>4 DEF Next, vars, clientVars, listenerVars, Dial, Resend, GiveUp,
        ClientData, ClientPeerDies, ConnFails, Joins, ListenerInput, ServerPeerDies

\* No living KcpConn has, or is under way to, a conv older than its dialing.
LEMMA AnswersFreshStep ==
    ASSUME Types, Issued, ShakesUnused, ShakesUnused', AnswersFresh, NoLateAnswer, [Next]_vars
    PROVE  AnswersFresh' /\ NoLateAnswer'
<1> DEFINE ConnsFresh == \A s \in DOMAIN conn : conn[s].before \subseteq accepted
           AnswerFresh(m) == m.kind = "answer" /\ m.serial \in DOMAIN conn =>
                                 m.conv \notin conn[m.serial].before
           Older == /\ DOMAIN conn' \subseteq DOMAIN conn
                    /\ \A s \in DOMAIN conn' : conn'[s].before = conn[s].before
           NotJoined == \A s \in DOMAIN conn' : conn'[s].state = "joined" =>
                            conn[s].state = "joined" /\ conn'[s].conv = conn[s].conv
<1>1. accepted \subseteq accepted'
    BY DEF Next, vars, clientVars, listenerVars, Dial, Resend, GiveUp, ClientData, ClientPeerDies,
        ConnFails, Joins, ListenerHello, ListenerAccepts, ListenerInput, ServerPeerDies,
        ListenerDies, Tick
<1>2. ASSUME NEW p, Dial(p) PROVE AnswersFresh' /\ NoLateAnswer'
  <2>1. /\ DOMAIN conn' = DOMAIN conn \cup {lastSerial + 1} /\ accepted' = accepted
        /\ \A s \in DOMAIN conn : s # lastSerial + 1 => conn'[s] = conn[s]
        /\ conn'[lastSerial + 1].before = accepted /\ conn'[lastSerial + 1].state = "dialing"
    BY <1>2 DEF Dial, With, listenerVars
  <2>2. net' \subseteq net \cup {Hello(p, lastSerial + 1)}
    BY <1>2, Transmitted DEF Dial
  <2>3. \A m \in net : m.kind = "answer" => m.serial # lastSerial + 1
    BY DEF Issued, Types, Packets
  <2>4. AnswersFresh'
    BY <2>1, <2>2, <2>3 DEF Hello, AnswersFresh
  <2> QED BY <2>1, <2>4 DEF NoLateAnswer
<1>3. ASSUME Older, \A m \in net' : m \in net \/ m.kind # "answer" PROVE AnswersFresh'
    BY <1>1, <1>3 DEF AnswersFresh
<1>4. ASSUME Older, NotJoined PROVE NoLateAnswer'
    BY <1>4 DEF NoLateAnswer
<1>5. ASSUME NEW s, Resend(s) \/ ClientData(s) PROVE AnswersFresh' /\ NoLateAnswer'
  <2>1. Older /\ NotJoined
    BY <1>5 DEF Resend, ClientData, clientVars
  <2>2. \A m \in net' : m \in net \/ m.kind # "answer"
    BY <1>5, Transmitted DEF Resend, ClientData, Hello, Data
  <2> QED BY <1>3, <1>4, <2>1, <2>2
<1>6. ASSUME NEW s \in DOMAIN conn, GiveUp(s) \/ ClientPeerDies(s) \/ ConnFails(s)
      PROVE  AnswersFresh' /\ NoLateAnswer'
  <2>1. Older /\ NotJoined
    <3>1. CASE conn' = Without(conn, s)
      BY <3>1 DEF Without
    <3>2. CASE conn' = [conn EXCEPT ![s].state = "orphan"]
      BY <3>2 DEF Types, IsConn
    <3> QED BY <1>6, <3>1, <3>2 DEF GiveUp, ClientPeerDies, ConnFails
  <2>2. net' = net
    BY <1>6 DEF GiveUp, ClientPeerDies, ConnFails
  <2> QED BY <1>3, <1>4, <2>1, <2>2
<1>7. ASSUME NEW m \in net, NEW s \in DOMAIN conn, Joins(s, m) PROVE AnswersFresh' /\ NoLateAnswer'
  <2>1. net' = net /\ m.conv \notin conn[s].before
    BY <1>7 DEF Joins, Matches, AnswersFresh
  <2>2. CASE conn' = [conn EXCEPT ![s].state = "detached"]
    <3>1. Older /\ NotJoined
      BY <2>2 DEF Types, IsConn
    <3> QED BY <1>3, <1>4, <2>1, <3>1
  <2>3. CASE conn' = [conn EXCEPT ![s] = Peered(s, m.conv)]
    <3>1. /\ DOMAIN conn' = DOMAIN conn /\ conn'[s] = Peered(s, m.conv)
          /\ \A z \in DOMAIN conn : z # s => conn'[z] = conn[z]
      BY <2>3 DEF Types
    <3>2. conn'[s].before = conn[s].before /\ conn'[s].conv = m.conv
      BY <3>1 DEF Peered
    <3>3. AnswersFresh'
      BY <1>3, <2>1, <3>1, <3>2
    <3> QED BY <2>1, <3>1, <3>2, <3>3 DEF NoLateAnswer
  <2> QED BY <1>7, <2>2, <2>3 DEF Joins
<1>8. ASSUME NEW m \in net, ListenerHello(m) PROVE AnswersFresh' /\ NoLateAnswer'
  <2>1. UNCHANGED <<conn, accepted>>
    BY <1>8 DEF ListenerHello, clientVars
  <2>2. net' \subseteq net \cup {Answer(m.port, m.serial, shakes'[m.port].conv)}
    BY <1>8, Transmitted DEF ListenerHello
  <2>3. shakes'[m.port].conv \notin accepted
    <3>1. m.port \in DOMAIN shakes'
      BY <1>8 DEF ListenerHello, NewShake, With
    <3> QED BY <2>1, <3>1 DEF ShakesUnused
  <2>4. AnswersFresh'
    BY <2>1, <2>2, <2>3 DEF Answer, AnswersFresh
  <2> QED BY <2>1, <2>4 DEF NoLateAnswer
<1>9. CASE UNCHANGED <<conn, net>>
    BY <1>3, <1>4, <1>9
<1> QED
    BY <1>2, <1>5, <1>6, <1>7, <1>8, <1>9 DEF Next, vars, clientVars, ListenerAccepts,
        ListenerInput, ServerPeerDies, ListenerDies, Tick

\* The invariant holds throughout.
LEMMA Invariance == Spec => []IInv
<1>1. IInv /\ [Next]_vars => IInv'
    BY TypesStep, IssuedStep, ShakesUnusedStep, AnswersFreshStep DEF IInv
<1> QED BY <1>1, InitIInv, PTL DEF Spec

-----------------------------------------------------------------------------
(* What follows from it *)

\* A conv belongs to one ip:port wherever it is still named: in the listener, in
\* the clients and in packets, however old.
THEOREM ConvsKeepTheirPort == Spec => []OnePortPerConv
BY Invariance, PTL DEF IInv

\* A client that joins was given a conv that had not made a peer when it began
\* to dial: the serial keeps late answers out.
THEOREM LateAnswersIgnored == Spec => []NoLateAnswer
BY Invariance, PTL DEF IInv

\* A conv makes a peer once: late or repeated data do not bring a session back.
THEOREM SessionsOnce == Spec => AcceptedOnce
<1> DEFINE Once == \A k \in DOMAIN kcps' : k \in DOMAIN kcps \/ k \notin accepted
<1>1. ASSUME IInv, [Next]_vars PROVE [Once]_vars
  <2>1. ASSUME NEW m \in net, ListenerAccepts(m) PROVE Once
    <3>1. m.conv \notin accepted
      BY <1>1, <2>1 DEF ListenerAccepts, IInv, ShakesUnused
    <3> QED BY <2>1, <3>1 DEF ListenerAccepts, With
  <2>2. ASSUME NEW m \in net, ListenerInput(m) PROVE Once
    BY <2>2 DEF ListenerInput, With
  <2>3. ASSUME NEW k, ServerPeerDies(k) PROVE Once
    BY <2>3 DEF ServerPeerDies, Without
  <2>4. CASE ListenerDies
    BY <2>4 DEF ListenerDies
  <2>5. CASE kcps' = kcps
    BY <2>5
  <2> QED
    BY <1>1, <2>1, <2>2, <2>3, <2>4, <2>5 DEF Next, clientVars, listenerVars, Dial, Resend, GiveUp,
        ClientData, ClientPeerDies, ConnFails, Joins, ListenerHello, Tick
<1> QED BY <1>1, Invariance, PTL DEF Spec, AcceptedOnce
=============================================================================
