------------------------------- MODULE Gateway -------------------------------
(***************************************************************************)
(* The gateway (src/xx_gateway2/main.cpp): clients connect over TCP or     *)
(* KCP, get an id and are announced to service 0; services open, close and *)
(* kick clients by command; packages are forwarded along the whitelist a   *)
(* client was given. Everything runs on one event loop, so a handler is    *)
(* one action; what interleaves are the arrivals from many connections,    *)
(* the timers and the reloads of the configuration. Commands of a service  *)
(* may be about any client, however late they arrive.                      *)
(***************************************************************************)
EXTENDS Naturals, FiniteSets

CONSTANTS Clients,        \* connections that will ever be made; each gets an id of its own
          Services,       \* service ids that a configuration may hold
          Zero,           \* service id 0, the default service
          ClientTimeout,  \* cfg.clientTimeoutMS in frames
          KickFrames,     \* bound: delays of a kick in frames, see Now
          Now,            \* the delay 0 of a kick
          Chatty,         \* clients that go on sending commands after a kick
          Orderly         \* clients and operators give the gateway no reason to cut
                          \* a client off (see CutOff) or to drop a service in use

ASSUME GatewayAssumption ==
    /\ Zero \in Services /\ ClientTimeout \in Nat \ {0}
    /\ KickFrames \subseteq Nat \cup {Now} /\ Now \notin Nat
    /\ Chatty \subseteq Clients /\ Orderly \in BOOLEAN

VARIABLES
    mode,     \* a client's connection: "absent", then "idle" (no callback was set)
              \* or "served", then maybe "leaving" (kicked with a delay), then "gone"
    left,     \* frames until its OnTimeout, 0 when its timeout is not armed
    serviceIds, \* the whitelist of each client
    mapped,   \* keys of clientTcpPeers and clientKcpPeers
    cfg,      \* the services of the configuration in force
    keys,     \* keys of serviceDialerPeers
    dialers,  \* keys with a dialer
    busy,     \* dialers that are dialing
    up,       \* keys with a living service peer
    waiting,  \* service peers with waitPingBack
    view,     \* history: what the messages of this session told service s about c
    crashed   \* an empty Ref was dereferenced: the exception ends the process

clientVars == <<mode, left, serviceIds, mapped>>
serviceVars == <<cfg, keys, dialers, busy, up, waiting>>
vars == <<clientVars, serviceVars, view, crashed>>

Unheard == [c \in Clients |-> "unknown"]

\* The constructor: a dialer for each configured service, already dialing.
Init ==
    /\ mode = [c \in Clients |-> "absent"] /\ left = [c \in Clients |-> 0]
    /\ serviceIds = [c \in Clients |-> {}] /\ mapped = {}
    /\ cfg \in {S \in SUBSET Services : Zero \in S}
    /\ keys = cfg /\ dialers = cfg /\ busy = cfg
    /\ up = {} /\ waiting = {}
    /\ view = [s \in Services |-> Unheard] /\ crashed = FALSE

Alive(c) == mode[c] \in {"idle", "served", "leaving"}
Found(c) == c \in mapped /\ Alive(c)     \* find() and Lock() of a command

-----------------------------------------------------------------------------
(* Messages to services and what they tell *)

AfterAccept(v) == "online"
AfterOpen(v) == "online"
AfterDisconnect(v) == IF v \in {"offline", "twice"} THEN "twice" ELSE "offline"
AfterPackage(v) == IF v = "offline" THEN "stray" ELSE v

Tell(s, c, after) == view' = [view EXCEPT ![s][c] = after]

\* The whitelist, with 0 added so that service 0 always hears of it.
AddresseesWhitelist(c) == serviceIds[c]
Addressees(c) == serviceIds[c] \cup {Zero}

\* cp->onDisconnect of the clients in E: out of the map, and a disconnect to
\* every addressee that is connected. The lookup by operator[] leaves a key
\* behind for a service that has none. A whitelist is not read after this.
FarewellKeepsEntry(E) ==
    /\ mapped' = mapped
    /\ serviceIds' = [c \in Clients |-> IF c \in E THEN {} ELSE serviceIds[c]]
    /\ keys' = keys \cup UNION {Addressees(c) : c \in E}
    /\ view' = [s \in Services |-> [c \in Clients |->
                  IF c \in E /\ s \in up \cap Addressees(c)
                  THEN AfterDisconnect(view[s][c]) ELSE view[s][c]]]

Farewell(E) ==
    /\ mapped' = mapped \ E
    /\ serviceIds' = [c \in Clients |-> IF c \in E THEN {} ELSE serviceIds[c]]
    /\ keys' = keys \cup UNION {Addressees(c) : c \in E}
    /\ view' = [s \in Services |-> [c \in Clients |->
                  IF c \in E /\ s \in up \cap Addressees(c)
                  THEN AfterDisconnect(view[s][c]) ELSE view[s][c]]]

\* Dispose: the connection is closed and nothing else happens.
Dispose(E) ==
    /\ mode' = [c \in Clients |-> IF c \in E THEN "gone" ELSE mode[c]]
    /\ left' = [c \in Clients |-> IF c \in E THEN 0 ELSE left[c]]

\* The peers of the services in S are gone, and with them their sessions.
DownKeepsWaiting(S) ==
    /\ up' = up \ S /\ waiting' = waiting
    /\ view' = [s \in Services |-> IF s \in S THEN Unheard ELSE view[s]]

Down(S) ==
    /\ up' = up \ S /\ waiting' = waiting \ S
    /\ view' = [s \in Services |-> IF s \in S THEN Unheard ELSE view[s]]

-----------------------------------------------------------------------------
(* Clients *)

Rearm(c) == left' = [left EXCEPT ![c] = ClientTimeout]

\* OnAccept
Accept(c) ==
    /\ mode[c] = "absent" /\ Zero \in up
    /\ mode' = [mode EXCEPT ![c] = "served"]
    /\ mapped' = mapped \cup {c}
    /\ Rearm(c)
    /\ Tell(Zero, c, AfterAccept(view[Zero][c]))
    /\ UNCHANGED <<serviceIds, serviceVars, crashed>>

\* Without service 0 the handler returns early; the connection stays.
AcceptUnready(c) ==
    /\ mode[c] = "absent" /\ Zero \notin up
    /\ mode' = [mode EXCEPT ![c] = "idle"]
    /\ keys' = keys \cup {Zero}
    /\ UNCHANGED <<left, serviceIds, mapped, cfg, dialers, busy, up, waiting, view, crashed>>

\* onReceiveCommand: echoed, and the timeout starts over, also after a kick.
ClientCommand(c) ==
    /\ mode[c] = "served" \/ (mode[c] = "leaving" /\ c \in Chatty)
    /\ Rearm(c)
    /\ UNCHANGED <<mode, serviceIds, mapped, serviceVars, view, crashed>>

\* onReceivePackage: forwarded to a whitelisted service that is connected.
HearsPackagesAlways(c) == mode[c] \in {"served", "leaving"}
HearsPackages(c) == mode[c] = "served"

ClientPackage(c, s) ==
    /\ HearsPackages(c) /\ s \in serviceIds[c] \cap up
    /\ Rearm(c)
    /\ Tell(s, c, AfterPackage(view[s][c]))
    /\ UNCHANGED <<mode, serviceIds, mapped, serviceVars, crashed>>

\* A package to any other service, and a length that breaks the framing, gets
\* the client disposed of without its onDisconnect.
CutOff(c) ==
    /\ ~Orderly /\ Alive(c)
    /\ Dispose({c})
    /\ \E asked \in SUBSET (IF HearsPackages(c) THEN serviceIds[c] \ up ELSE {}) :
          Cardinality(asked) <= 1 /\ keys' = keys \cup asked
    /\ UNCHANGED <<serviceIds, mapped, cfg, dialers, busy, up, waiting, view, crashed>>

\* Only a client that is served still has its onDisconnect.
SaysFarewellAlways(c) == mode[c] \in {"served", "leaving"}
SaysFarewell(c) == mode[c] = "served"

\* The connection breaks: OnDisconnect, then Dispose.
ClientLost(c) ==
    /\ Alive(c)
    /\ Farewell({d \in {c} : SaysFarewell(d)})
    /\ Dispose({c})
    /\ UNCHANGED <<cfg, dialers, busy, up, waiting, crashed>>

\* A frame passes; Peer::OnTimeout for the clients whose time is up.
Tick ==
    LET late == {c \in Clients : left[c] = 1} IN
    /\ Farewell({c \in late : SaysFarewell(c)})
    /\ mode' = [c \in Clients |-> IF c \in late THEN "gone" ELSE mode[c]]
    /\ left' = [c \in Clients |-> IF left[c] = 0 THEN 0 ELSE left[c] - 1]
    /\ UNCHANGED <<cfg, dialers, busy, up, waiting, crashed>>

-----------------------------------------------------------------------------
(* Services *)

\* The dial timer: every key without a peer is dialed unless its dialer is busy.
\* A key that operator[] left behind has no dialer: its empty Ref throws.
RedialsForgotten == {}
Redials == keys \ (up \cup busy)

DialTimer ==
    /\ crashed' = ~(keys \ up \subseteq dialers)
    /\ busy' = busy \cup (Redials \cap dialers)
    /\ UNCHANGED <<clientVars, cfg, keys, dialers, up, waiting, view>>

\* TcpConn succeeds: onConnect stores the peer and sends it the gateway's id.
DialOk(s) ==
    /\ s \in busy
    /\ busy' = busy \ {s} /\ up' = up \cup {s} /\ keys' = keys \cup {s}
    /\ UNCHANGED <<clientVars, cfg, dialers, waiting, view, crashed>>

\* Dialer::OnTimeout; onConnect ignores the empty peer.
DialFails(s) ==
    /\ s \in busy /\ busy' = busy \ {s}
    /\ UNCHANGED <<clientVars, cfg, keys, dialers, up, waiting, view, crashed>>

\* sp->onDisconnect, or a command that sp->Dispose answers: for the gateway's
\* state the two are the same, and no whitelist loses the service.
ServiceLost(s) ==
    /\ s \in up /\ Down({s})
    /\ UNCHANGED <<clientVars, cfg, keys, dialers, busy, crashed>>

\* The ping timer: a ping to every service, Dispose for those that owe an answer.
PingTimer ==
    /\ up' = up \ waiting /\ waiting' = up \ waiting
    /\ view' = [s \in Services |-> IF s \in waiting THEN Unheard ELSE view[s]]
    /\ UNCHANGED <<clientVars, cfg, keys, dialers, busy, crashed>>

Pong(s) ==
    /\ s \in up /\ waiting' = waiting \ {s}
    /\ UNCHANGED <<clientVars, cfg, keys, dialers, busy, up, view, crashed>>

\* "open" and "close" from service s about client c, wherever c is by now.
ServiceOpen(s, c) ==
    /\ s \in up /\ Found(c)
    /\ serviceIds' = [serviceIds EXCEPT ![c] = @ \cup {s}]
    /\ Tell(s, c, AfterOpen(view[s][c]))
    /\ UNCHANGED <<mode, left, mapped, serviceVars, crashed>>

ServiceClose(s, c) ==
    /\ s \in up /\ Found(c)
    /\ serviceIds' = [serviceIds EXCEPT ![c] = @ \ {s}]
    /\ Tell(s, c, IF s = Zero THEN view[s][c] ELSE "unknown")
    /\ UNCHANGED <<mode, left, mapped, serviceVars, crashed>>

\* "kick" without a delay disposes of the client at once.
KickNow(s, c) ==
    /\ Now \in KickFrames /\ s \in up /\ Found(c)
    /\ Dispose({c})
    /\ UNCHANGED <<serviceIds, mapped, serviceVars, view, crashed>>

\* "kick" with a delay: the farewell now, the callbacks cleared, and a timeout of
\* delayMS in frames, which is 0 and so none when the delay is short of a frame.
LastTimeoutCleared(c, d) == left' = [left EXCEPT ![c] = 0]
LastTimeout(c, d) == left' = [left EXCEPT ![c] = d]

KickLater(s, c, d) ==
    /\ s \in up /\ Found(c)
    /\ Farewell({c})
    /\ mode' = [mode EXCEPT ![c] = "leaving"]
    /\ LastTimeout(c, d)
    /\ UNCHANGED <<cfg, dialers, busy, up, waiting, crashed>>

\* ReloadConfig to the services C, of which those in moved have a new address:
\* what is left out or moved loses its entry, dialer and peer without a word;
\* what is new or moved gets a dialer, dialing, unless its key has one.
CreatedNew(C, moved) == C \ cfg
Created(C, moved) == (C \ cfg) \cup moved

Reload(C, moved) ==
    LET removed == (cfg \ C) \cup moved
        created == Created(C, moved) IN
    /\ moved \subseteq cfg \cap C
    /\ Orderly => \A s \in cfg \ C : s # Zero /\ \A c \in Clients : s \notin serviceIds[c]
    /\ cfg' = C
    /\ keys' = (keys \ removed) \cup created
    /\ dialers' = (dialers \ removed) \cup created
    /\ busy' = (busy \ removed) \cup (created \ (dialers \ removed))
    /\ Down(removed)
    /\ UNCHANGED <<clientVars, crashed>>

-----------------------------------------------------------------------------
(* The event loop: one handler at a time, until an exception ends it *)

ClientStep == \E c \in Clients :
    \/ Accept(c) \/ AcceptUnready(c) \/ ClientCommand(c) \/ CutOff(c) \/ ClientLost(c)
    \/ \E s \in Services : ClientPackage(c, s)

ServiceStep == \E s \in Services :
    \/ DialOk(s) \/ DialFails(s) \/ ServiceLost(s) \/ Pong(s)
    \/ \E c \in Clients :
          \/ ServiceOpen(s, c) \/ ServiceClose(s, c) \/ KickNow(s, c)
          \/ \E d \in KickFrames \ {Now} : KickLater(s, c, d)

Operator == \E C \in SUBSET Services, moved \in SUBSET Services : Reload(C, moved)

Next == ~crashed /\ (ClientStep \/ ServiceStep \/ Tick \/ DialTimer \/ PingTimer \/ Operator)

Spec == Init /\ [][Next]_vars

\* The loop gives every frame and every timer its turn, and a service that is
\* dialed again and again does answer at some time.
FairSpec ==
    /\ Spec
    /\ WF_vars(~crashed /\ Tick)
    /\ WF_vars(~crashed /\ DialTimer)
    /\ \A s \in Services : SF_vars(~crashed /\ DialOk(s))

-----------------------------------------------------------------------------
(* Properties *)

\* Types; dialers are those of the configuration, a peer or a dial has a dialer
\* behind it, and waitPingBack dies with its peer (serviceDialerPeers).
TypeOK ==
    /\ mode \in [Clients -> {"absent", "idle", "served", "leaving", "gone"}]
    /\ left \in [Clients -> Nat] /\ serviceIds \in [Clients -> SUBSET Services]
    /\ mapped \subseteq Clients /\ cfg \subseteq Services /\ crashed \in BOOLEAN
    /\ view \in [Services -> [Clients -> {"unknown", "online", "offline", "twice", "stray"}]]
    /\ dialers = cfg /\ cfg \subseteq keys /\ keys \subseteq Services
    /\ busy \subseteq cfg \ up /\ up \subseteq cfg /\ waiting \subseteq up

\* In an orderly system the dictionaries hold exactly the clients that are being
\* served: no kick, timeout, lost connection or reload leaks an entry.
MapExact == \A c \in Clients : c \in mapped <=> mode[c] = "served"

\* In an orderly system a connected service that was told of a client and not of
\* its end could still command it: no service keeps a ghost.
NoGhostClients ==
    \A s \in up, c \in Clients : view[s][c] = "online" => mode[c] = "served" /\ c \in mapped

\* No order of losses, late commands and orderly reloads makes the dial timer
\* meet an entry without a dialer (operator[] on serviceDialerPeers).
NeverCrashes == ~crashed

\* Whatever clients and operators do, no session of a service hears of one end
\* twice, nor of a package after the end (the callbacks that a kick clears).
OneFarewell == \A s \in Services, c \in Clients : view[s][c] \notin {"twice", "stray"}

\* A client that was kicked and sends no more commands is disconnected in the
\* end (the timeout set by the kick).
KickTakesEffect ==
    \A c \in Clients \ Chatty : mode[c] = "leaving" ~> mode[c] = "gone" \/ crashed

\* A configured service that the gateway lost is connected again and again.
ServiceComesBack ==
    \A s \in Services : []<>(s \in up \/ s \notin cfg \/ crashed)

=============================================================================
