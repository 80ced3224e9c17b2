--------------------------- MODULE ProbeResources ---------------------------
(***************************************************************************)
(* What the probes of one agent hold open: the TCP servers and the UDP     *)
(* sockets of negotiate.ts.  The server (PairFailover) probes each pair by *)
(* itself, so that probes of this agent with different peers overlap; each *)
(* probe of one peer begins after the last one of that peer was ended.     *)
(***************************************************************************)
EXTENDS Naturals

CONSTANTS
    Others,     \* the peers of this agent
    MaxOpen     \* bound: sockets, servers and tasks of one peer

CONSTANT None
ResourceConstants == None \notin Others /\ MaxOpen \in Nat \ {0}

VARIABLES
    probe,           \* what the server probes with each peer
    tcpProbeServer,  \* tcpProbeServer.peerId, None when there is none
    servers,         \* how many TCP servers that were started for a peer are up
    udpProbeSockets, \* the peers that udpProbeSockets has an entry for
    udpOpen,         \* how many UDP sockets that were bound for a peer are open
    binds,           \* handleProbeDirectStart of a peer, before its bind ends
    gos,             \* handleProbeDirectGo of a peer, before it closes its socket
    late             \* history: the peers with a probe that ended before its bind did

tcp == <<tcpProbeServer, servers>>
udp == <<udpProbeSockets, udpOpen>>
vars == <<probe, tcpProbeServer, servers, udpProbeSockets, udpOpen, binds, gos, late>>

Probing(p, what) == probe' = [probe EXCEPT ![p] = what]
Overtaken(ended) == late' = late \cup {p \in ended : binds[p] > 0}

-----------------------------------------------------------------------------
\* A deviation: the server that is up is stopped only if it is another peer's.
CloseTcpProbeServer_OfOthers(p) ==
    IF tcpProbeServer \notin {p, None}
    THEN /\ tcpProbeServer' = None
         /\ servers' = [servers EXCEPT ![tcpProbeServer] = @ - 1]
    ELSE UNCHANGED tcp

\* closeTcpProbeServer(peerId): only the server that the variable holds.
CloseTcpProbeServer(p) ==
    IF tcpProbeServer = p
    THEN /\ tcpProbeServer' = None
         /\ servers' = [servers EXCEPT ![p] = @ - 1]
    ELSE UNCHANGED tcp

\* A deviation: the entry goes and the socket stays.
CloseUdpProbeSocket_EntryOnly(p) ==
    /\ udpProbeSockets' = udpProbeSockets \ {p}
    /\ UNCHANGED udpOpen

\* closeUdpProbeSocket: the socket of the entry, if there is one.
CloseUdpProbeSocket(p) ==
    IF p \in udpProbeSockets
    THEN /\ udpProbeSockets' = udpProbeSockets \ {p}
         /\ udpOpen' = [udpOpen EXCEPT ![p] = @ - 1]
    ELSE UNCHANGED udp

\* handleProbeRelayServe: a server that is up for another peer is not stopped.
ProbeRelayServe(p) ==
    /\ probe[p] = "idle" /\ servers[p] < MaxOpen
    /\ Probing(p, "relay")
    /\ \/ /\ servers' = [servers EXCEPT ![p] = @ + 1]
          /\ tcpProbeServer' = p
       \/ UNCHANGED tcp \* the bind fails
    /\ UNCHANGED <<udp, binds, gos, late>>

\* handleProbeDirectStart up to its await.
ProbeDirectStart(p) ==
    /\ probe[p] = "idle" /\ binds[p] < MaxOpen /\ udpOpen[p] + binds[p] < MaxOpen
    /\ Probing(p, "direct")
    /\ binds' = [binds EXCEPT ![p] = @ + 1]
    /\ UNCHANGED <<tcp, udp, gos, late>>

\* The bind ends; an entry that is there is overwritten, not closed.
BindDone(p) ==
    /\ binds[p] > 0
    /\ binds' = [binds EXCEPT ![p] = @ - 1]
    /\ \/ /\ udpOpen' = [udpOpen EXCEPT ![p] = @ + 1]
          /\ udpProbeSockets' = udpProbeSockets \cup {p}
       \/ UNCHANGED udp \* it fails
    /\ UNCHANGED <<probe, tcp, gos, late>>

\* handleProbeDirectGo, which waits for the nonce of the other side.
ProbeDirectGo(p) ==
    /\ probe[p] = "direct" /\ p \in udpProbeSockets /\ gos[p] < MaxOpen
    /\ gos' = [gos EXCEPT ![p] = @ + 1]
    /\ UNCHANGED <<probe, tcp, udp, binds, late>>

\* The wait is over: the entry that the peer has by then is closed.
GoDone(p) ==
    /\ gos[p] > 0
    /\ gos' = [gos EXCEPT ![p] = @ - 1]
    /\ CloseUdpProbeSocket(p)
    /\ UNCHANGED <<probe, tcp, binds, late>>

\* A verdict, an abort or a forced mode: the server's probe is over, if there
\* was one, and the agent closes what it finds.
EndProbe(p) ==
    /\ Probing(p, "idle")
    /\ CloseTcpProbeServer(p)
    /\ CloseUdpProbeSocket(p)
    /\ Overtaken({p})
    /\ UNCHANGED <<binds, gos>>

\* The WebSocket is lost: the server ends the agent's probes, and the agent
\* closes all it finds (resetNegotiateState).
Disconnect ==
    /\ probe' = [p \in Others |-> "idle"]
    /\ tcpProbeServer' = None
    /\ servers' = [p \in Others |-> servers[p] - (IF p = tcpProbeServer THEN 1 ELSE 0)]
    /\ udpProbeSockets' = {}
    /\ udpOpen' = [p \in Others |-> udpOpen[p] - (IF p \in udpProbeSockets THEN 1 ELSE 0)]
    /\ Overtaken(Others)
    /\ UNCHANGED <<binds, gos>>

-----------------------------------------------------------------------------
Init ==
    /\ probe = [p \in Others |-> "idle"]
    /\ tcpProbeServer = None
    /\ servers = [p \in Others |-> 0]
    /\ udpProbeSockets = {}
    /\ udpOpen = [p \in Others |-> 0]
    /\ binds = [p \in Others |-> 0]
    /\ gos = [p \in Others |-> 0]
    /\ late = {}

Next ==
    \/ \E p \in Others : ProbeRelayServe(p)
    \/ \E p \in Others : ProbeDirectStart(p)
    \/ \E p \in Others : BindDone(p)
    \/ \E p \in Others : ProbeDirectGo(p)
    \/ \E p \in Others : GoDone(p)
    \/ \E p \in Others : EndProbe(p)
    \/ Disconnect

Spec == Init /\ [][Next]_vars

-----------------------------------------------------------------------------
(* Properties.                                                             *)

\* The server that the variable holds is up, and is that of a probe that is on.
HeldServerProbes ==
    tcpProbeServer # None =>
        probe[tcpProbeServer] = "relay" /\ servers[tcpProbeServer] > 0

\* A UDP socket is open only while its peer's probe is on, and one of a peer
\* at a time, whatever the probes with other peers do.  It takes that no probe
\* with this peer ended before its bind: that bind's socket is never closed.
UdpReleased ==
    \A p \in Others \ late : udpOpen[p] > 0 => probe[p] = "direct" /\ udpOpen[p] = 1
=============================================================================
