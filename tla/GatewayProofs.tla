---------------------------- MODULE GatewayProofs ----------------------------
(***************************************************************************)
(* Proofs about Gateway for any clients, services, timeouts and kicks.     *)
(***************************************************************************)
EXTENDS Gateway, TLAPS

USE GatewayAssumption DEF GatewayAssumption

-----------------------------------------------------------------------------
(* Types *)

\* The gateway starts with well-typed variables.
LEMMA InitType == Init => TypeOK
<1> SUFFICES ASSUME Init PROVE TypeOK
    OBVIOUS
<1>1. mode \in [Clients -> {"absent", "idle", "served", "leaving", "gone"}]
    BY DEF Init
<1>2. left \in [Clients -> Nat] /\ serviceIds \in [Clients -> SUBSET Services]
    BY DEF Init
<1>3. view \in [Services -> [Clients -> {"unknown", "online", "offline", "twice", "stray"}]]
    BY DEF Init, Unheard
<1> QED
    BY <1>1, <1>2, <1>3 DEF Init, TypeOK

\* Every handler keeps the types.
LEMMA NextType == TypeOK /\ [Next]_vars => TypeOK'
<1> SUFFICES ASSUME TypeOK, [Next]_vars PROVE TypeOK'
    OBVIOUS
<1> USE DEF TypeOK
<1>1. ASSUME NEW c \in Clients, Accept(c) PROVE TypeOK'
    BY <1>1 DEF Accept, Rearm, Tell, AfterAccept, serviceVars
<1>2. ASSUME NEW c \in Clients, AcceptUnready(c) PROVE TypeOK'
    BY <1>2 DEF AcceptUnready
<1>3. ASSUME NEW c \in Clients, ClientCommand(c) PROVE TypeOK'
    BY <1>3 DEF ClientCommand, Rearm, serviceVars
<1>4. ASSUME NEW c \in Clients, CutOff(c) PROVE TypeOK'
    BY <1>4 DEF CutOff, Dispose, HearsPackages
<1>5. ASSUME NEW c \in Clients, ClientLost(c) PROVE TypeOK'
    BY <1>5 DEF ClientLost, Farewell, Dispose, Addressees, AfterDisconnect
<1>6. ASSUME NEW c \in Clients, NEW s \in Services, ClientPackage(c, s) PROVE TypeOK'
    BY <1>6 DEF ClientPackage, Rearm, Tell, AfterPackage, serviceVars
<1>7. ASSUME NEW s \in Services, DialOk(s) PROVE TypeOK'
    BY <1>7 DEF DialOk, clientVars
<1>8. ASSUME NEW s \in Services, DialFails(s) PROVE TypeOK'
    BY <1>8 DEF DialFails, clientVars
<1>9. ASSUME NEW s \in Services, ServiceLost(s) PROVE TypeOK'
    BY <1>9 DEF ServiceLost, Down, Unheard, clientVars
<1>10. ASSUME NEW s \in Services, Pong(s) PROVE TypeOK'
    BY <1>10 DEF Pong, clientVars
<1>11. ASSUME NEW s \in Services, NEW c \in Clients, ServiceOpen(s, c) PROVE TypeOK'
    BY <1>11 DEF ServiceOpen, Tell, AfterOpen, serviceVars
<1>12. ASSUME NEW s \in Services, NEW c \in Clients, ServiceClose(s, c) PROVE TypeOK'
    BY <1>12 DEF ServiceClose, Tell, serviceVars
<1>13. ASSUME NEW s \in Services, NEW c \in Clients, KickNow(s, c) PROVE TypeOK'
    BY <1>13 DEF KickNow, Dispose, serviceVars
<1>14. ASSUME NEW s \in Services, NEW c \in Clients, NEW d \in KickFrames \ {Now},
              KickLater(s, c, d)
       PROVE TypeOK'
    BY <1>14 DEF KickLater, Farewell, LastTimeout, Addressees, AfterDisconnect
<1>15. CASE Tick
    BY <1>15 DEF Tick, Farewell, Addressees, AfterDisconnect, SaysFarewell
<1>16. CASE DialTimer
    BY <1>16 DEF DialTimer, Redials, clientVars
<1>17. CASE PingTimer
    BY <1>17 DEF PingTimer, Unheard, clientVars
<1>18. ASSUME NEW C \in SUBSET Services, NEW moved \in SUBSET Services, Reload(C, moved)
       PROVE TypeOK'
    BY <1>18 DEF Reload, Created, Down, Unheard, clientVars
<1>19. CASE UNCHANGED vars
    BY <1>19 DEF vars, clientVars, serviceVars
<1> QED
    BY <1>1, <1>2, <1>3, <1>4, <1>5, <1>6, <1>7, <1>8, <1>9, <1>10, <1>11, <1>12, <1>13,
       <1>14, <1>15, <1>16, <1>17, <1>18, <1>19
    DEF Next, ClientStep, ServiceStep, Operator

\* The gateway's variables keep their types, and its dialers, dials, peers and
\* pings stay within the configuration.
THEOREM TypeCorrect == Spec => []TypeOK
BY InitType, NextType, PTL DEF Spec

-----------------------------------------------------------------------------
(* One end for each client, whatever clients and operators do. A farewell   *)
(* goes only to a client with an onDisconnect, and a command only finds a   *)
(* client that still has it: so nobody is told of an end twice.             *)

FarewellInv ==
    /\ \A c \in mapped : mode[c] \in {"served", "gone"}
    /\ \A s \in Services, c \in Clients :
          /\ view[s][c] \in {"unknown", "online", "offline"}
          /\ view[s][c] = "offline" => mode[c] \in {"leaving", "gone"}

\* Every handler keeps the invariant on farewells, cut-offs and kicks included.
LEMMA NextFarewell == TypeOK /\ FarewellInv /\ [Next]_vars => FarewellInv'
<1> SUFFICES ASSUME TypeOK, FarewellInv, [Next]_vars PROVE FarewellInv'
    OBVIOUS
<1> USE DEF TypeOK, FarewellInv
<1>1. ASSUME NEW c \in Clients, Accept(c) PROVE FarewellInv'
    BY <1>1 DEF Accept, Tell, AfterAccept
<1>2. ASSUME NEW c \in Clients, AcceptUnready(c) PROVE FarewellInv'
    BY <1>2 DEF AcceptUnready
<1>3. ASSUME NEW c \in Clients, ClientCommand(c) PROVE FarewellInv'
    BY <1>3 DEF ClientCommand
<1>4. ASSUME NEW c \in Clients, CutOff(c) PROVE FarewellInv'
    BY <1>4 DEF CutOff, Dispose, Alive
<1>5. ASSUME NEW c \in Clients, ClientLost(c) PROVE FarewellInv'
    BY <1>5 DEF ClientLost, Alive, SaysFarewell, Dispose, Farewell, Addressees, AfterDisconnect
<1>6. ASSUME NEW c \in Clients, NEW s \in Services, ClientPackage(c, s) PROVE FarewellInv'
    BY <1>6 DEF ClientPackage, Tell, AfterPackage, HearsPackages
<1>7. ASSUME NEW s \in Services, DialOk(s) PROVE FarewellInv'
    BY <1>7 DEF DialOk, clientVars
<1>8. ASSUME NEW s \in Services, DialFails(s) PROVE FarewellInv'
    BY <1>8 DEF DialFails, clientVars
<1>9. ASSUME NEW s \in Services, ServiceLost(s) PROVE FarewellInv'
    BY <1>9 DEF ServiceLost, Down, Unheard, clientVars
<1>10. ASSUME NEW s \in Services, Pong(s) PROVE FarewellInv'
    BY <1>10 DEF Pong, clientVars
<1>11. ASSUME NEW s \in Services, NEW c \in Clients, ServiceOpen(s, c) PROVE FarewellInv'
    BY <1>11 DEF ServiceOpen, Found, Alive, Tell, AfterOpen
<1>12. ASSUME NEW s \in Services, NEW c \in Clients, ServiceClose(s, c) PROVE FarewellInv'
    BY <1>12 DEF ServiceClose, Found, Alive, Tell
<1>13. ASSUME NEW s \in Services, NEW c \in Clients, KickNow(s, c) PROVE FarewellInv'
    BY <1>13 DEF KickNow, Found, Alive, Dispose
<1>14. ASSUME NEW s \in Services, NEW c \in Clients, NEW d \in KickFrames \ {Now},
              KickLater(s, c, d)
       PROVE FarewellInv'
    BY <1>14 DEF KickLater, Found, Alive, Farewell, Addressees, AfterDisconnect
<1>15. CASE Tick
    BY <1>15 DEF Tick, SaysFarewell, Farewell, Addressees, AfterDisconnect
<1>16. CASE DialTimer
    BY <1>16 DEF DialTimer, clientVars
<1>17. CASE PingTimer
    BY <1>17 DEF PingTimer, Unheard, clientVars
<1>18. ASSUME NEW C \in SUBSET Services, NEW moved \in SUBSET Services,
              Reload(C, moved)
       PROVE FarewellInv'
    BY <1>18 DEF Reload, Down, Unheard, clientVars
<1>19. CASE UNCHANGED vars
    BY <1>19 DEF vars, clientVars, serviceVars
<1> QED
    BY <1>1, <1>2, <1>3, <1>4, <1>5, <1>6, <1>7, <1>8, <1>9, <1>10, <1>11, <1>12, <1>13,
       <1>14, <1>15, <1>16, <1>17, <1>18, <1>19
    DEF Next, ClientStep, ServiceStep, Operator

\* No session of a service hears of one end twice, nor of a package after it, for
\* any clients, services and kicks, orderly or not.
THEOREM FarewellOnce == Spec => []OneFarewell
<1>1. Init => FarewellInv
    BY DEF Init, FarewellInv, Unheard
<1>2. FarewellInv => OneFarewell
    BY DEF FarewellInv, OneFarewell
<1> QED
    BY <1>1, <1>2, TypeCorrect, NextFarewell, PTL DEF Spec

-----------------------------------------------------------------------------
(* No exception from the dial timer. operator[] asks for service 0 and for  *)
(* services on whitelists; an orderly operator keeps both configured.       *)

KeysInv ==
    /\ ~crashed /\ keys = cfg /\ Zero \in cfg
    /\ \A c \in Clients : serviceIds[c] \subseteq cfg

\* Every handler keeps the entries to the configuration, orderly reloads included.
LEMMA NextKeys ==
    ASSUME Orderly = TRUE PROVE TypeOK /\ KeysInv /\ [Next]_vars => KeysInv'
<1> SUFFICES ASSUME TypeOK, KeysInv, [Next]_vars PROVE KeysInv'
    OBVIOUS
<1> USE DEF TypeOK, KeysInv
<1>1. ASSUME NEW c \in Clients, Accept(c) PROVE KeysInv'
    BY <1>1 DEF Accept, serviceVars
<1>2. ASSUME NEW c \in Clients, AcceptUnready(c) PROVE KeysInv'
    BY <1>2 DEF AcceptUnready
<1>3. ASSUME NEW c \in Clients, ClientCommand(c) PROVE KeysInv'
    BY <1>3 DEF ClientCommand, serviceVars
<1>4. ASSUME NEW c \in Clients, CutOff(c) PROVE KeysInv'
    BY <1>4 DEF CutOff
<1>5. ASSUME NEW c \in Clients, ClientLost(c) PROVE KeysInv'
    BY <1>5 DEF ClientLost, Farewell, Addressees, SaysFarewell
<1>6. ASSUME NEW c \in Clients, NEW s \in Services, ClientPackage(c, s) PROVE KeysInv'
    BY <1>6 DEF ClientPackage, serviceVars
<1>7. ASSUME NEW s \in Services, DialOk(s) PROVE KeysInv'
    BY <1>7 DEF DialOk, clientVars
<1>8. ASSUME NEW s \in Services, DialFails(s) PROVE KeysInv'
    BY <1>8 DEF DialFails, clientVars
<1>9. ASSUME NEW s \in Services, ServiceLost(s) PROVE KeysInv'
    BY <1>9 DEF ServiceLost, clientVars
<1>10. ASSUME NEW s \in Services, Pong(s) PROVE KeysInv'
    BY <1>10 DEF Pong, clientVars
<1>11. ASSUME NEW s \in Services, NEW c \in Clients, ServiceOpen(s, c) PROVE KeysInv'
    BY <1>11 DEF ServiceOpen, serviceVars
<1>12. ASSUME NEW s \in Services, NEW c \in Clients, ServiceClose(s, c) PROVE KeysInv'
    BY <1>12 DEF ServiceClose, serviceVars
<1>13. ASSUME NEW s \in Services, NEW c \in Clients, KickNow(s, c) PROVE KeysInv'
    BY <1>13 DEF KickNow, serviceVars
<1>14. ASSUME NEW s \in Services, NEW c \in Clients, NEW d \in KickFrames \ {Now},
              KickLater(s, c, d)
       PROVE KeysInv'
    BY <1>14 DEF KickLater, Found, Farewell, Addressees
<1>15. CASE Tick
    BY <1>15 DEF Tick, Farewell, Addressees, SaysFarewell
<1>16. CASE DialTimer
    BY <1>16 DEF DialTimer, clientVars
<1>17. CASE PingTimer
    BY <1>17 DEF PingTimer, clientVars
<1>18. ASSUME NEW C \in SUBSET Services, NEW moved \in SUBSET Services,
              Reload(C, moved)
       PROVE KeysInv'
    BY <1>18 DEF Reload, Created, Down, clientVars
<1>19. CASE UNCHANGED vars
    BY <1>19 DEF vars, clientVars, serviceVars
<1> QED
    BY <1>1, <1>2, <1>3, <1>4, <1>5, <1>6, <1>7, <1>8, <1>9, <1>10, <1>11, <1>12, <1>13,
       <1>14, <1>15, <1>16, <1>17, <1>18, <1>19
    DEF Next, ClientStep, ServiceStep, Operator

\* Every key of serviceDialerPeers has a dialer when the dial timer looks, as
\* long as reloads keep service 0 and the services on whitelists.
THEOREM DialTimerIsSafe == ASSUME Orderly = TRUE PROVE Spec => []NeverCrashes
<1>1. Init => KeysInv
    BY DEF Init, KeysInv
<1>2. TypeOK /\ KeysInv /\ [Next]_vars => KeysInv'
    BY NextKeys
<1>3. KeysInv => NeverCrashes
    BY DEF KeysInv, NeverCrashes
<1> QED
    BY <1>1, <1>2, <1>3, TypeCorrect, PTL DEF Spec

-----------------------------------------------------------------------------
(* Dictionaries and services agree with the connections, when no client is  *)
(* cut off or kicked without a delay. A connected service that was told of  *)
(* a client is among those that its farewell addresses.                     *)

GhostInv ==
    /\ MapExact
    /\ \A s \in Services, c \in Clients :
          view[s][c] = "online" =>
              mode[c] = "served" /\ s \in up /\ s \in Addressees(c)

\* Every handler keeps dictionaries, whitelists and sessions in agreement.
LEMMA NextGhost ==
    ASSUME Orderly = TRUE, Now \notin KickFrames
    PROVE  TypeOK /\ GhostInv /\ [Next]_vars => GhostInv'
<1> SUFFICES ASSUME TypeOK, GhostInv, [Next]_vars PROVE GhostInv'
    OBVIOUS
<1> USE DEF TypeOK, GhostInv, MapExact, Addressees
<1>1. ASSUME NEW c \in Clients, Accept(c) PROVE GhostInv'
    BY <1>1 DEF Accept, Tell, AfterAccept, serviceVars
<1>2. ASSUME NEW c \in Clients, AcceptUnready(c) PROVE GhostInv'
    BY <1>2 DEF AcceptUnready
<1>3. ASSUME NEW c \in Clients, ClientCommand(c) PROVE GhostInv'
    BY <1>3 DEF ClientCommand, serviceVars
<1>4. ASSUME NEW c \in Clients, CutOff(c) PROVE GhostInv'
    BY <1>4 DEF CutOff
<1>5. ASSUME NEW c \in Clients, ClientLost(c) PROVE GhostInv'
    BY <1>5 DEF ClientLost, Alive, SaysFarewell, Dispose, Farewell, AfterDisconnect
<1>6. ASSUME NEW c \in Clients, NEW s \in Services, ClientPackage(c, s) PROVE GhostInv'
    BY <1>6 DEF ClientPackage, Tell, AfterPackage, HearsPackages, serviceVars
<1>7. ASSUME NEW s \in Services, DialOk(s) PROVE GhostInv'
    BY <1>7 DEF DialOk, clientVars
<1>8. ASSUME NEW s \in Services, DialFails(s) PROVE GhostInv'
    BY <1>8 DEF DialFails, clientVars
<1>9. ASSUME NEW s \in Services, ServiceLost(s) PROVE GhostInv'
    BY <1>9 DEF ServiceLost, Down, Unheard, clientVars
<1>10. ASSUME NEW s \in Services, Pong(s) PROVE GhostInv'
    BY <1>10 DEF Pong, clientVars
<1>11. ASSUME NEW s \in Services, NEW c \in Clients, ServiceOpen(s, c) PROVE GhostInv'
    BY <1>11 DEF ServiceOpen, Found, Alive, Tell, AfterOpen, serviceVars
<1>12. ASSUME NEW s \in Services, NEW c \in Clients, ServiceClose(s, c) PROVE GhostInv'
    BY <1>12 DEF ServiceClose, Found, Alive, Tell, serviceVars
<1>13. ASSUME NEW s \in Services, NEW c \in Clients, KickNow(s, c) PROVE GhostInv'
    BY <1>13 DEF KickNow
<1>14. ASSUME NEW s \in Services, NEW c \in Clients, NEW d \in KickFrames \ {Now},
              KickLater(s, c, d)
       PROVE GhostInv'
    BY <1>14 DEF KickLater, Found, Alive, Farewell, AfterDisconnect
<1>15. CASE Tick
    BY <1>15 DEF Tick, SaysFarewell, Farewell, AfterDisconnect
<1>16. CASE DialTimer
    BY <1>16 DEF DialTimer, clientVars
<1>17. CASE PingTimer
    BY <1>17 DEF PingTimer, Unheard, clientVars
<1>18. ASSUME NEW C \in SUBSET Services, NEW moved \in SUBSET Services,
              Reload(C, moved)
       PROVE GhostInv'
    BY <1>18 DEF Reload, Down, Unheard, clientVars
<1>19. CASE UNCHANGED vars
    BY <1>19 DEF vars, clientVars, serviceVars
<1> QED
    BY <1>1, <1>2, <1>3, <1>4, <1>5, <1>6, <1>7, <1>8, <1>9, <1>10, <1>11, <1>12, <1>13,
       <1>14, <1>15, <1>16, <1>17, <1>18, <1>19
    DEF Next, ClientStep, ServiceStep, Operator

\* Dictionaries, whitelists and sessions agree in every orderly behaviour.
LEMMA GhostInvariant ==
    ASSUME Orderly = TRUE, Now \notin KickFrames PROVE Spec => []GhostInv
<1>1. Init => GhostInv
    BY DEF Init, GhostInv, MapExact, Unheard
<1>2. TypeOK /\ GhostInv /\ [Next]_vars => GhostInv'
    BY NextGhost
<1> QED
    BY <1>1, <1>2, TypeCorrect, PTL DEF Spec

\* The dictionaries hold exactly the clients being served: nothing leaks.
THEOREM MapIsExact ==
    ASSUME Orderly = TRUE, Now \notin KickFrames PROVE Spec => []MapExact
<1>1. GhostInv => MapExact
    BY DEF GhostInv
<1> QED
    BY <1>1, GhostInvariant, PTL

\* A connected service that was told of a client and not of its end is told of a
\* client that is being served.
THEOREM NoGhosts ==
    ASSUME Orderly = TRUE, Now \notin KickFrames PROVE Spec => []NoGhostClients
<1>1. TypeOK /\ GhostInv => NoGhostClients
    BY DEF TypeOK, GhostInv, MapExact, NoGhostClients
<1> QED
    BY <1>1, TypeCorrect, GhostInvariant, PTL

=============================================================================
