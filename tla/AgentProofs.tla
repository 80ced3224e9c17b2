---------------------------- MODULE AgentProofs ----------------------------
(* Proofs about an agent: its monitor, what its probes hold open, and the  *)
(* path of a peer.  The parts share no variable, so each has an invariant  *)
(* of its own; a step of one part leaves the others' variables, and so     *)
(* their invariants.                                                       *)
EXTENDS MCAgent, TLAPS

-----------------------------------------------------------------------------
(* The monitor.                                                            *)

\* The misses are counted up to the threshold, and a peer in direct mode is dead
\* exactly at it.
CountInv ==
    /\ directMissed \in 0..MissThreshold
    /\ mode = "direct" => (rxAlive <=> directMissed < MissThreshold)
    /\ rxAlive \in BOOLEAN
    /\ mode \in {"direct", "relay"}

LEMMA ThresholdIsPositive == MissThreshold \in Nat /\ MissThreshold > 0
BY MonitorBounds

\* The three outcomes of a tick: bytes came, none came, or there is nothing to judge.
LEMMA JudgeStep ==
    ASSUME CountInv, NEW stats, NEW asleep, Judge(stats, asleep)
    PROVE  CountInv'
<1>1. CASE UNCHANGED peer
  BY <1>1 DEF CountInv, peer
<1>2. CASE directMissed' = 0 /\ rxAlive' = TRUE /\ UNCHANGED mode
  BY <1>2, ThresholdIsPositive DEF CountInv
<1>3. CASE /\ directMissed' = IF directMissed = MissThreshold THEN MissThreshold ELSE directMissed + 1
           /\ rxAlive' = (rxAlive /\ directMissed' < MissThreshold)
           /\ mode = "direct" /\ UNCHANGED mode
  <2>1. directMissed' \in 0..MissThreshold
    BY <1>3, ThresholdIsPositive DEF CountInv
  <2>2. rxAlive' <=> rxAlive /\ directMissed' < MissThreshold
    BY <1>3
  <2>3. directMissed' < MissThreshold => directMissed < MissThreshold
    BY <1>3, ThresholdIsPositive DEF CountInv
  <2>4. rxAlive' \in BOOLEAN
    BY <1>3
  <2> QED
    BY <1>3, <2>1, <2>2, <2>3, <2>4 DEF CountInv
<1>4. CASE UNCHANGED <<directMissed, rxAlive, mode>>
  BY <1>4 DEF CountInv
<1>5. CASE asleep \/ mode = "relay"
  BY <1>1, <1>5 DEF Judge
<1>6. CASE ~(asleep \/ mode = "relay")
  <2>1. CASE known /\ ~tainted /\ rxBytes[stats] > rxBytes["last"]
    BY <1>2, <1>6, <2>1 DEF Judge
  <2>2. CASE known /\ ~(~tainted /\ rxBytes[stats] > rxBytes["last"]) /\ mode = "direct"
    BY <1>3, <1>6, <2>2 DEF Judge
  <2>3. CASE ~known
    BY <1>4, <1>6, <2>3 DEF Judge
  <2> QED
    BY <1>6, <2>1, <2>2, <2>3 DEF CountInv
<1> QED
  BY <1>5, <1>6

LEMMA CountStep == CountInv /\ [Next]_vars => CountInv'
<1> SUFFICES ASSUME CountInv, [Next]_vars PROVE CountInv'
  OBVIOUS
<1>1. ASSUME NEW s \in {"direct", "relay", "none"}, TurnSource(s) PROVE CountInv'
  BY <1>1 DEF TurnSource, peer, CountInv
<1>2. CASE DirectPacket \/ RelayFrame \/ FreezePeer \/ UnfreezePeer
  BY <1>2 DEF DirectPacket, RelayFrame, FreezePeer, UnfreezePeer, peer, CountInv
<1>3. ASSUME NEW m \in {"direct", "relay"}, SetPeerMode(m) PROVE CountInv'
  <2>1. directMissed' = 0 /\ mode' = m /\ rxAlive' = (m = "direct")
    BY <1>3 DEF SetPeerMode
  <2>2. rxAlive' \in BOOLEAN /\ (rxAlive' <=> m = "direct")
    BY <2>1
  <2> QED
    BY <2>1, <2>2, ThresholdIsPositive DEF CountInv
<1>4. ASSUME NEW r \in Reads, Count(r) \/ FailRead(r) \/ EndReport(r) PROVE CountInv'
  BY <1>4 DEF Count, FailRead, EndReport, peer, CountInv
<1>5. CASE CacheExpires \/ BeginTick \/ BeginReport
  BY <1>5 DEF CacheExpires, BeginTick, BeginReport, peer, CountInv
<1>6. CASE TickFromCache
  BY <1>6, JudgeStep DEF TickFromCache
<1>7. ASSUME NEW r \in Reads, EndTick(r) PROVE CountInv'
  BY <1>7, JudgeStep DEF EndTick
<1>8. CASE UNCHANGED vars
  BY <1>8 DEF vars, peer, CountInv
<1> QED
  BY <1>1, <1>2, <1>3, <1>4, <1>5, <1>6, <1>7, <1>8 DEF Next, Stats, Tick

\* In direct mode a peer is dead exactly after MISS_THRESHOLD misses (monitor.ts, tick
\* and setPeerMode).
THEOREM DeathIsCounted == AgentSpec => []DeadIsCounted
<1>1. AgentInit => CountInv
  BY ThresholdIsPositive DEF AgentInit, Init, CountInv
<1>2. CountInv => DeadIsCounted
  BY ThresholdIsPositive DEF CountInv, DeadIsCounted
<1>3. CountInv /\ [AgentNext]_agentVars => CountInv'
  BY CountStep DEF AgentNext, agentVars
<1> QED
  BY <1>1, <1>2, <1>3, PTL DEF AgentSpec

-----------------------------------------------------------------------------
(* The sockets of the probes.                                              *)

\* What is held open, of all peers.
OpenInv ==
    /\ probe \in [Others -> {"idle", "relay", "direct"}]
    /\ servers \in [Others -> Nat] /\ tcpProbeServer \in Others \cup {None}
    /\ udpOpen \in [Others -> Nat] /\ binds \in [Others -> Nat]
    /\ udpProbeSockets \subseteq Others
    /\ \A p \in udpProbeSockets : udpOpen[p] > 0

\* A peer none of whose probes ended before its bind has one socket or one bind
\* while its probe is on, and the entry is that socket's.
OneSocket(p) ==
    /\ udpOpen[p] + binds[p] <= 1
    /\ udpOpen[p] + binds[p] = 1 => probe[p] = "direct"
    /\ udpOpen[p] = 1 => p \in udpProbeSockets

SocketsInv ==
    /\ OpenInv
    /\ HeldServerProbes
    /\ \A p \in Others \ late : OneSocket(p)

LEMMA NobodyIsNoPeer == None \notin Others
BY SocketsAssumption DEF Sockets!ResourceConstants

\* Closing the server that the variable holds: the variable and the count agree.
LEMMA ClosesServer ==
    ASSUME OpenInv, HeldServerProbes, NEW p \in Others, Sockets!CloseTcpProbeServer(p)
    PROVE  /\ servers' \in [Others -> Nat] /\ tcpProbeServer' \in Others \cup {None}
           /\ tcpProbeServer' # p
           /\ tcpProbeServer' # None => /\ tcpProbeServer' = tcpProbeServer
                                        /\ servers'[tcpProbeServer] = servers[tcpProbeServer]
<1>1. CASE tcpProbeServer = p
  <2>1. servers[p] > 0 /\ servers[p] \in Nat
    BY <1>1, NobodyIsNoPeer DEF HeldServerProbes, Sockets!HeldServerProbes, OpenInv
  <2>2. servers[p] - 1 \in Nat
    BY <2>1
  <2>3. tcpProbeServer' = None /\ servers' = [servers EXCEPT ![p] = servers[p] - 1]
    BY <1>1 DEF Sockets!CloseTcpProbeServer
  <2> QED
    BY <2>2, <2>3, NobodyIsNoPeer DEF OpenInv
<1>2. CASE tcpProbeServer # p
  BY <1>2 DEF Sockets!CloseTcpProbeServer, Sockets!tcp, OpenInv
<1> QED
  BY <1>1, <1>2

\* Closing the socket of the entry: the counts of the others stay, and a peer with
\* one socket has none left.
LEMMA ClosesSocket ==
    ASSUME OpenInv, NEW p \in Others, Sockets!CloseUdpProbeSocket(p)
    PROVE  /\ udpOpen' \in [Others -> Nat]
           /\ udpProbeSockets' = udpProbeSockets \ {p}
           /\ \A q \in Others \ {p} : udpOpen'[q] = udpOpen[q]
           /\ udpOpen'[p] = IF p \in udpProbeSockets THEN udpOpen[p] - 1 ELSE udpOpen[p]
<1>1. CASE p \in udpProbeSockets
  <2>1. udpOpen[p] - 1 \in Nat
    BY <1>1 DEF OpenInv
  <2> QED
    BY <1>1, <2>1 DEF Sockets!CloseUdpProbeSocket, OpenInv
<1>2. CASE p \notin udpProbeSockets
  BY <1>2 DEF Sockets!CloseUdpProbeSocket, Sockets!udp, OpenInv
<1> QED
  BY <1>1, <1>2

LEMMA ServeStep ==
    ASSUME SocketsInv, NEW p \in Others, Sockets!ProbeRelayServe(p)
    PROVE  SocketsInv'
<1>1. /\ probe[p] = "idle" /\ probe' = [probe EXCEPT ![p] = "relay"]
      /\ UNCHANGED <<udpProbeSockets, udpOpen, binds, late>>
  BY DEF Sockets!ProbeRelayServe, Sockets!Probing, Sockets!udp
<1>2. OpenInv /\ HeldServerProbes
  BY DEF SocketsInv
<1>3. /\ servers' \in [Others -> Nat] /\ tcpProbeServer' \in Others \cup {None}
      /\ \/ tcpProbeServer' = p /\ servers'[p] > 0
         \/ tcpProbeServer' = tcpProbeServer /\ servers' = servers
  <2>1. CASE UNCHANGED <<tcpProbeServer, servers>>
    BY <1>2, <2>1 DEF OpenInv
  <2>2. CASE servers' = [servers EXCEPT ![p] = @ + 1] /\ tcpProbeServer' = p
    BY <1>2, <2>2 DEF OpenInv
  <2> QED
    BY <2>1, <2>2 DEF Sockets!ProbeRelayServe, Sockets!tcp
<1>4. OpenInv'
  BY <1>1, <1>2, <1>3 DEF OpenInv
<1>5. HeldServerProbes'
  BY <1>1, <1>2, <1>3 DEF HeldServerProbes, Sockets!HeldServerProbes, OpenInv
<1>6. ASSUME NEW q \in Others \ late' PROVE OneSocket(q)'
  <2>1. OneSocket(q) /\ q \in Others
    BY <1>1, <1>6 DEF SocketsInv
  <2>2. probe'[q] = probe[q] \/ probe[q] = "idle"
    BY <1>1, <1>2 DEF OpenInv
  <2> QED
    BY <1>1, <2>1, <2>2 DEF OneSocket
<1> QED
  BY <1>4, <1>5, <1>6 DEF SocketsInv

LEMMA StartStep ==
    ASSUME SocketsInv, NEW p \in Others, Sockets!ProbeDirectStart(p)
    PROVE  SocketsInv'
<1>1. /\ probe[p] = "idle" /\ probe' = [probe EXCEPT ![p] = "direct"]
      /\ binds' = [binds EXCEPT ![p] = @ + 1]
      /\ UNCHANGED <<tcpProbeServer, servers, udpProbeSockets, udpOpen, late>>
  BY DEF Sockets!ProbeDirectStart, Sockets!Probing, Sockets!udp, Sockets!tcp
<1>2. OpenInv /\ HeldServerProbes
  BY DEF SocketsInv
<1>3. OpenInv'
  BY <1>1, <1>2 DEF OpenInv
<1>4. HeldServerProbes'
  BY <1>1, <1>2 DEF HeldServerProbes, Sockets!HeldServerProbes, OpenInv
<1>5. ASSUME NEW q \in Others \ late' PROVE OneSocket(q)'
  <2>1. OneSocket(q) /\ q \in Others
    BY <1>1, <1>5 DEF SocketsInv
  <2>2. CASE q = p
    <3>1. udpOpen[p] = 0 /\ binds[p] = 0
      BY <1>1, <1>2, <2>1, <2>2 DEF OneSocket, OpenInv
    <3>2. udpOpen'[p] = 0 /\ binds'[p] = 1 /\ probe'[p] = "direct"
      BY <1>1, <1>2, <3>1 DEF OpenInv
    <3> QED
      BY <2>2, <3>2 DEF OneSocket
  <2>3. CASE q # p
    BY <1>1, <1>2, <2>1, <2>3 DEF OneSocket, OpenInv
  <2> QED
    BY <2>2, <2>3
<1> QED
  BY <1>3, <1>4, <1>5 DEF SocketsInv

LEMMA BindStep ==
    ASSUME SocketsInv, NEW p \in Others, Sockets!BindDone(p)
    PROVE  SocketsInv'
<1>1. /\ binds[p] > 0 /\ binds' = [binds EXCEPT ![p] = @ - 1]
      /\ UNCHANGED <<probe, tcpProbeServer, servers, late>>
      /\ \/ /\ udpOpen' = [udpOpen EXCEPT ![p] = @ + 1]
            /\ udpProbeSockets' = udpProbeSockets \cup {p}
         \/ UNCHANGED <<udpProbeSockets, udpOpen>>
  BY DEF Sockets!BindDone, Sockets!udp, Sockets!tcp
<1>2. OpenInv /\ HeldServerProbes
  BY DEF SocketsInv
<1>3. binds' \in [Others -> Nat] /\ binds'[p] = binds[p] - 1
      /\ \A q \in Others \ {p} : binds'[q] = binds[q]
  BY <1>1, <1>2 DEF OpenInv
<1>4. /\ udpOpen' \in [Others -> Nat] /\ udpProbeSockets' \subseteq Others
      /\ \A q \in udpProbeSockets' : udpOpen'[q] > 0
      /\ \A q \in Others \ {p} : udpOpen'[q] = udpOpen[q] /\ udpProbeSockets \subseteq udpProbeSockets'
      /\ \/ udpOpen'[p] = udpOpen[p] + 1 /\ p \in udpProbeSockets'
         \/ udpOpen'[p] = udpOpen[p] /\ udpProbeSockets' = udpProbeSockets
  BY <1>1, <1>2 DEF OpenInv
<1>5. OpenInv'
  BY <1>1, <1>2, <1>3, <1>4 DEF OpenInv
<1>6. HeldServerProbes'
  BY <1>1, <1>2 DEF HeldServerProbes, Sockets!HeldServerProbes
<1>7. ASSUME NEW q \in Others \ late' PROVE OneSocket(q)'
  <2>1. OneSocket(q) /\ q \in Others
    BY <1>1, <1>7 DEF SocketsInv
  <2>2. binds[q] \in Nat /\ udpOpen[q] \in Nat
    BY <1>2, <2>1 DEF OpenInv
  <2>3. CASE q = p
    BY <1>1, <1>3, <1>4, <2>1, <2>2, <2>3 DEF OneSocket
  <2>4. CASE q # p
    BY <1>1, <1>3, <1>4, <2>1, <2>2, <2>4 DEF OneSocket
  <2> QED
    BY <2>3, <2>4
<1> QED
  BY <1>5, <1>6, <1>7 DEF SocketsInv

LEMMA GoStep ==
    ASSUME SocketsInv, NEW p \in Others, Sockets!GoDone(p)
    PROVE  SocketsInv'
<1>1. UNCHANGED <<probe, tcpProbeServer, servers, binds, late>>
      /\ Sockets!CloseUdpProbeSocket(p)
  BY DEF Sockets!GoDone, Sockets!tcp
<1>2. OpenInv /\ HeldServerProbes
  BY DEF SocketsInv
<1>3. /\ udpOpen' \in [Others -> Nat]
      /\ udpProbeSockets' = udpProbeSockets \ {p}
      /\ \A q \in Others \ {p} : udpOpen'[q] = udpOpen[q]
      /\ udpOpen'[p] = IF p \in udpProbeSockets THEN udpOpen[p] - 1 ELSE udpOpen[p]
  BY <1>1, <1>2, ClosesSocket
<1>4. OpenInv'
  BY <1>1, <1>2, <1>3 DEF OpenInv
<1>5. HeldServerProbes'
  BY <1>1, <1>2 DEF HeldServerProbes, Sockets!HeldServerProbes
<1>6. ASSUME NEW q \in Others \ late' PROVE OneSocket(q)'
  <2>1. OneSocket(q) /\ q \in Others
    BY <1>1, <1>6 DEF SocketsInv
  <2>2. binds[q] \in Nat /\ udpOpen[q] \in Nat
    BY <1>2, <2>1 DEF OpenInv
  <2>3. CASE q = p
    BY <1>1, <1>3, <2>1, <2>2, <2>3 DEF OneSocket
  <2>4. CASE q # p
    BY <1>1, <1>3, <2>1, <2>2, <2>4 DEF OneSocket
  <2> QED
    BY <2>3, <2>4
<1> QED
  BY <1>4, <1>5, <1>6 DEF SocketsInv

\* The end of a probe closes all that its peer has, if no bind of it is under way.
LEMMA EndStep ==
    ASSUME SocketsInv, NEW p \in Others, Sockets!EndProbe(p)
    PROVE  SocketsInv'
<1>1. /\ probe' = [probe EXCEPT ![p] = "idle"] /\ UNCHANGED binds
      /\ Sockets!CloseTcpProbeServer(p) /\ Sockets!CloseUdpProbeSocket(p)
      /\ late' = late \cup {q \in {p} : binds[q] > 0}
  BY DEF Sockets!EndProbe, Sockets!Probing, Sockets!Overtaken
<1>2. OpenInv /\ HeldServerProbes
  BY DEF SocketsInv
<1>3. /\ servers' \in [Others -> Nat] /\ tcpProbeServer' \in Others \cup {None}
      /\ tcpProbeServer' # p
      /\ tcpProbeServer' # None => /\ tcpProbeServer' = tcpProbeServer
                                   /\ servers'[tcpProbeServer] = servers[tcpProbeServer]
  BY <1>1, <1>2, ClosesServer
<1>4. /\ udpOpen' \in [Others -> Nat]
      /\ udpProbeSockets' = udpProbeSockets \ {p}
      /\ \A q \in Others \ {p} : udpOpen'[q] = udpOpen[q]
      /\ udpOpen'[p] = IF p \in udpProbeSockets THEN udpOpen[p] - 1 ELSE udpOpen[p]
  BY <1>1, <1>2, ClosesSocket
<1>5. /\ probe' \in [Others -> {"idle", "relay", "direct"}]
      /\ \A q \in Others \ {p} : probe'[q] = probe[q]
  BY <1>1, <1>2 DEF OpenInv
<1>6. OpenInv'
  BY <1>1, <1>2, <1>3, <1>4, <1>5 DEF OpenInv
<1>7. HeldServerProbes'
  BY <1>2, <1>3, <1>5 DEF HeldServerProbes, Sockets!HeldServerProbes
<1>8. ASSUME NEW q \in Others \ late' PROVE OneSocket(q)'
  <2>1. OneSocket(q) /\ q \in Others /\ (q = p => ~(binds[p] > 0))
    BY <1>1, <1>8 DEF SocketsInv
  <2>2. binds[q] \in Nat /\ udpOpen[q] \in Nat
    BY <1>2, <2>1 DEF OpenInv
  <2>3. CASE q = p
    <3>1. binds'[p] = 0 /\ udpOpen'[p] = 0
      BY <1>1, <1>4, <2>1, <2>2, <2>3 DEF OneSocket
    <3> QED
      BY <2>3, <3>1 DEF OneSocket
  <2>4. CASE q # p
    BY <1>1, <1>4, <1>5, <2>1, <2>2, <2>4 DEF OneSocket
  <2> QED
    BY <2>3, <2>4
<1> QED
  BY <1>6, <1>7, <1>8 DEF SocketsInv

LEMMA DisconnectStep == ASSUME SocketsInv, Sockets!Disconnect PROVE SocketsInv'
<1>1. /\ probe' = [p \in Others |-> "idle"]
      /\ tcpProbeServer' = None
      /\ servers' = [p \in Others |-> servers[p] - (IF p = tcpProbeServer THEN 1 ELSE 0)]
      /\ udpProbeSockets' = {}
      /\ udpOpen' = [p \in Others |-> udpOpen[p] - (IF p \in udpProbeSockets THEN 1 ELSE 0)]
      /\ late' = late \cup {q \in Others : binds[q] > 0}
      /\ UNCHANGED binds
  BY DEF Sockets!Disconnect, Sockets!Overtaken
<1>2. OpenInv /\ HeldServerProbes
  BY DEF SocketsInv
<1>3. ASSUME NEW p \in Others PROVE servers'[p] \in Nat
  <2>1. p = tcpProbeServer => servers[p] > 0
    BY <1>2, NobodyIsNoPeer DEF HeldServerProbes, Sockets!HeldServerProbes
  <2> QED
    BY <1>1, <1>2, <2>1 DEF OpenInv
<1>4. ASSUME NEW p \in Others PROVE udpOpen'[p] \in Nat
  BY <1>1, <1>2 DEF OpenInv
<1>5. servers' \in [Others -> Nat] /\ udpOpen' \in [Others -> Nat]
  <2>1. servers' = [p \in Others |-> servers'[p]] /\ udpOpen' = [p \in Others |-> udpOpen'[p]]
    BY <1>1
  <2> QED
    BY <1>3, <1>4, <2>1
<1>6. OpenInv'
  BY <1>1, <1>2, <1>5 DEF OpenInv
<1>7. HeldServerProbes'
  BY <1>1 DEF HeldServerProbes, Sockets!HeldServerProbes
<1>8. ASSUME NEW q \in Others \ late' PROVE OneSocket(q)'
  <2>1. OneSocket(q) /\ q \in Others /\ ~(binds[q] > 0)
    BY <1>1, <1>8 DEF SocketsInv
  <2>2. binds[q] \in Nat /\ udpOpen[q] \in Nat
    BY <1>2, <2>1 DEF OpenInv
  <2>3. binds'[q] = 0 /\ binds[q] = 0
    BY <1>1, <2>1, <2>2
  <2>4. udpOpen'[q] = IF q \in udpProbeSockets THEN udpOpen[q] - 1 ELSE udpOpen[q]
    <3>1. udpOpen'[q] = udpOpen[q] - (IF q \in udpProbeSockets THEN 1 ELSE 0)
      BY <1>1, <2>1
    <3> QED
      BY <2>2, <3>1
  <2>5. udpOpen'[q] = 0
    <3>1. udpOpen[q] <= 1 /\ (udpOpen[q] = 1 => q \in udpProbeSockets)
      BY <2>1, <2>2, <2>3 DEF OneSocket
    <3>2. q \in udpProbeSockets => udpOpen[q] > 0
      BY <1>2 DEF OpenInv
    <3> QED
      BY <2>2, <2>4, <3>1, <3>2
  <2> QED
    BY <2>3, <2>5 DEF OneSocket
<1> QED
  BY <1>6, <1>7, <1>8 DEF SocketsInv

LEMMA SocketsStay ==
    ASSUME SocketsInv,
           UNCHANGED <<probe, tcpProbeServer, servers, udpProbeSockets, udpOpen, binds, late>>
    PROVE  SocketsInv'
BY DEF SocketsInv, OpenInv, HeldServerProbes, Sockets!HeldServerProbes, OneSocket

LEMMA SocketsStep == SocketsInv /\ [AgentNext]_agentVars => SocketsInv'
<1> SUFFICES ASSUME SocketsInv, [AgentNext]_agentVars PROVE SocketsInv'
  OBVIOUS
<1>1. CASE Sockets!Next
  <2>1. ASSUME NEW p \in Others, Sockets!ProbeDirectGo(p) PROVE SocketsInv'
    BY <2>1, SocketsStay DEF Sockets!ProbeDirectGo, Sockets!tcp, Sockets!udp
  <2> QED
    BY <1>1, <2>1, ServeStep, StartStep, BindStep, GoStep, EndStep, DisconnectStep
       DEF Sockets!Next
<1>2. CASE UNCHANGED socketVars
  BY <1>2, SocketsStay DEF socketVars
<1> QED
  BY <1>1, <1>2 DEF AgentNext, agentVars

LEMMA SocketsInvariant == AgentSpec => []SocketsInv
<1>1. AgentInit => SocketsInv
  BY DEF AgentInit, Sockets!Init, SocketsInv, OpenInv, HeldServerProbes,
         Sockets!HeldServerProbes, OneSocket
<1> QED
  BY <1>1, SocketsStep, PTL DEF AgentSpec

\* The TCP server that tcpProbeServer holds is up and is that of a relay probe that is
\* on, however the probes with several peers overlap (handleProbeRelayServe and
\* closeTcpProbeServer of negotiate.ts).
THEOREM HeldServerIsProbing == AgentSpec => []HeldServerProbes
<1>1. SocketsInv => HeldServerProbes
  BY DEF SocketsInv
<1> QED
  BY <1>1, SocketsInvariant, PTL

\* A UDP socket is open only while its peer's probe is on, one of a peer at a time,
\* unless a probe of this peer ended before its bind did (handleProbeDirectStart and
\* closeUdpProbeSocket of negotiate.ts).
THEOREM SocketsAreReleased == AgentSpec => []UdpReleased
<1>1. SocketsInv => UdpReleased
  <2> SUFFICES ASSUME SocketsInv, NEW p \in Others \ late, udpOpen[p] > 0
               PROVE  probe[p] = "direct" /\ udpOpen[p] = 1
    BY DEF UdpReleased, Sockets!UdpReleased
  <2>1. OneSocket(p) /\ udpOpen[p] \in Nat /\ binds[p] \in Nat
    BY DEF SocketsInv, OpenInv
  <2> QED
    BY <2>1 DEF OneSocket
<1> QED
  BY <1>1, SocketsInvariant, PTL

-----------------------------------------------------------------------------
(* The path of a peer, as long as polls and switches do not overlap.       *)

Endpoints == Addresses \cup {None}
PollTasks == [at : {"list", "poll", "create", "set", "update"}, found : Endpoints,
              isNew : BOOLEAN, skip : BOOLEAN]
SwitchTasks == [at : {"switch", "switched"}, target : {"relay", "direct"},
                to : Endpoints \cup {"relay"}]
PathTasks == {Path!Idle} \cup PollTasks \cup SwitchTasks

\* What a task that is under way knows.  A poll that found no interface is one of a
\* peer that is not known, so that it is not on the relay; another one leaves the
\* endpoint of a peer on the relay alone.
TaskInv(t) ==
    LET task == tasks[t] IN
    /\ task.at = "poll" /\ ~task.isNew => exists
    /\ task.at \in {"set", "update"} => exists
    /\ task.at \in {"poll", "create", "set"} /\ task.isNew => path = "direct"
    /\ task.at = "create" => task.isNew
    /\ task.at = "set" /\ path = "relay" => task.skip
    /\ task.at \in {"switch", "switched"} =>
          exists /\ kept /\ (task.target = "relay" => task.to = "relay")
    /\ task.at = "switched" => endpoint = task.to

PeerInv ==
    /\ config \in Endpoints /\ directEndpoint \in Endpoints
    /\ exists \in BOOLEAN /\ kept \in BOOLEAN /\ path \in {"relay", "direct"}
    /\ path = "relay" => kept
    /\ kept => exists

\* Only between the two steps of a switch does the kernel not have the relay's
\* endpoint for a peer on the relay.
PathInv ==
    /\ PeerInv
    /\ tasks \in [Tasks -> PathTasks]
    /\ \A t \in Tasks : TaskInv(t)
    /\ path = "relay" /\ (\A t \in Tasks : tasks[t].at # "switched") => endpoint = "relay"

LEMMA NoEndpointIsNoRelay == "relay" \notin Endpoints
BY PathAssumption DEF Path!EndpointConstants, Endpoints

\* Tasks are told apart by what they wait for.
LEMMA TaskKinds ==
    ASSUME NEW x \in PathTasks
    PROVE  /\ x = Path!Idle <=> x.at = "idle"
           /\ x.at \in {"list", "poll", "create", "set", "update"} => x \in PollTasks
           /\ x.at \in {"switch", "switched"} => x \in SwitchTasks
BY DEF PathTasks, PollTasks, SwitchTasks, Path!Idle

\* A step of the one task that is under way: the others are idle and know nothing.
LEMMA OneTaskMoves ==
    ASSUME PathInv, Path!Serially, Path!Serially',
           NEW t \in Tasks, NEW x \in PathTasks, tasks' = [tasks EXCEPT ![t] = x],
           tasks[t] # Path!Idle \/ x # Path!Idle,
           PeerInv', TaskInv(t)',
           path' = "relay" /\ x.at # "switched" => endpoint' = "relay"
    PROVE  PathInv'
<1>1. tasks' \in [Tasks -> PathTasks] /\ tasks'[t] = x
      /\ \A u \in Tasks \ {t} : tasks'[u] = tasks[u]
  BY DEF PathInv
<1>2. ASSUME NEW u \in Tasks \ {t} PROVE tasks'[u] = Path!Idle
  <2>1. tasks[u] = tasks'[u]
    BY <1>1
  <2>2. CASE tasks[t] # Path!Idle
    BY <2>1, <2>2 DEF Path!Serially
  <2>3. CASE x # Path!Idle
    BY <1>1, <2>3 DEF Path!Serially, Path!Idle
  <2> QED
    BY <2>2, <2>3
<1>3. ASSUME NEW u \in Tasks PROVE TaskInv(u)'
  <2>1. CASE u = t
    BY <2>1
  <2>2. CASE u # t
    <3>1. tasks'[u].at = "idle"
      BY <1>2, <2>2 DEF Path!Idle
    <3> QED
      BY <3>1 DEF TaskInv
  <2> QED
    BY <2>1, <2>2
<1> QED
  BY <1>1, <1>3 DEF PathInv

\* A step that moves no task: the peer's mode stays, or is direct.
LEMMA NoTaskMoves ==
    ASSUME PathInv, UNCHANGED <<tasks, exists, endpoint>>,
           PeerInv', kept' = kept, path' \in {path, "direct"}
    PROVE  PathInv'
<1>1. ASSUME NEW u \in Tasks PROVE TaskInv(u)'
  <2>1. TaskInv(u)
    BY DEF PathInv
  <2> QED
    BY <2>1 DEF TaskInv
<1> QED
  BY <1>1 DEF PathInv

\* The steps of a poll.
LEMMA PollStepKeeps ==
    ASSUME PathInv, Path!Serially, Path!Serially', NEW t \in Tasks,
           Path!GetConfig(t) \/ Path!PollStep(t)
    PROVE  PathInv'
<1> DEFINE task == tasks[t]
<1>1. /\ PeerInv /\ task \in PathTasks /\ TaskInv(t) /\ tasks \in [Tasks -> PathTasks]
      /\ path = "relay" /\ (\A u \in Tasks : tasks[u].at # "switched") => endpoint = "relay"
  BY DEF PathInv
<1>2. ASSUME task.at # "switched", path = "relay" PROVE endpoint = "relay"
  <2>1. ASSUME NEW u \in Tasks, tasks[u].at = "switched" PROVE FALSE
    <3>1. tasks[u] # Path!Idle
      BY <2>1 DEF Path!Idle
    <3>2. u # t
      BY <1>2, <2>1
    <3>3. CASE task # Path!Idle
      BY <3>1, <3>2, <3>3 DEF Path!Serially
    <3>4. CASE task = Path!Idle
      <4>1. Path!GetConfig(t) \/ FALSE
        BY <3>4 DEF Path!PollStep, Path!ListInterfaces, Path!Decide, Path!CreateInterface,
                    Path!SetInterface, Path!InitPeerState, Path!At, Path!Idle
      <4>2. tasks'[t].at = "list" /\ tasks'[u] = tasks[u]
        BY <1>1, <3>2, <4>1 DEF Path!GetConfig, Path!Become
      <4>3. tasks'[t] # Path!Idle /\ tasks'[u] # Path!Idle
        BY <3>1, <4>2 DEF Path!Idle
      <4> QED
        BY <3>2, <4>3 DEF Path!Serially, Path!Idle
    <3> QED
      BY <3>3, <3>4
  <2> QED
    BY <1>1, <1>2, <2>1
<1>3. CASE Path!GetConfig(t)
  <2> DEFINE x == [at |-> "list", found |-> config, isNew |-> FALSE, skip |-> FALSE]
  <2>1. /\ task = Path!Idle /\ tasks' = [tasks EXCEPT ![t] = x]
        /\ UNCHANGED <<config, exists, endpoint, kept, path, directEndpoint>>
    BY <1>3 DEF Path!GetConfig, Path!Become, Path!state
  <2>2. x \in PathTasks /\ x # Path!Idle
    BY <1>1 DEF PathTasks, PollTasks, PeerInv, Path!Idle
  <2>3. PeerInv'
    BY <1>1, <2>1 DEF PeerInv
  <2>4. tasks'[t] = x
    BY <1>1, <2>1
  <2>5. TaskInv(t)'
    BY <2>4 DEF TaskInv
  <2>6. path' = "relay" => endpoint' = "relay"
    BY <1>2, <2>1 DEF Path!Idle
  <2> HIDE DEF x
  <2> QED
    BY <2>1, <2>2, <2>3, <2>5, <2>6, OneTaskMoves
<1>4. CASE Path!ListInterfaces(t)
  <2> DEFINE x == [task EXCEPT !.at = "poll", !.isNew = ~exists]
  <2>1. /\ task.at = "list" /\ tasks' = [tasks EXCEPT ![t] = x]
        /\ UNCHANGED <<config, exists, endpoint, kept, path, directEndpoint>>
    BY <1>4 DEF Path!ListInterfaces, Path!Become, Path!At, Path!state
  <2>2. task \in PollTasks /\ task # Path!Idle
    BY <1>1, <2>1, TaskKinds DEF Path!Idle
  <2>3. x \in PollTasks /\ x.at = "poll" /\ x.isNew = ~exists
    BY <1>1, <2>2 DEF PollTasks, PeerInv
  <2>4. PeerInv' /\ tasks'[t] = x
    BY <1>1, <2>1 DEF PeerInv
  <2>5. TaskInv(t)'
    BY <1>1, <2>1, <2>3, <2>4 DEF TaskInv, PeerInv
  <2>6. path' = "relay" => endpoint' = "relay"
    BY <1>2, <2>1
  <2> HIDE DEF x
  <2> QED
    BY <2>1, <2>2, <2>3, <2>4, <2>5, <2>6, OneTaskMoves DEF PathTasks
<1>5. CASE Path!Decide(t)
  <2> DEFINE to == IF task.isNew THEN "create" ELSE "set"
             skip == ~task.isNew /\ (path = "relay" \/ probed)
             x == [task EXCEPT !.at = to, !.skip = skip]
  <2>1. /\ task.at = "poll" /\ tasks' = [tasks EXCEPT ![t] = x]
        /\ UNCHANGED <<config, exists, endpoint, kept, path, directEndpoint>>
    BY <1>5 DEF Path!Decide, Path!Become, Path!At, Path!state
  <2>2. task \in PollTasks /\ task # Path!Idle
    BY <1>1, <2>1, TaskKinds DEF Path!Idle
  <2>3. skip \in BOOLEAN /\ to \in {"create", "set"}
    OBVIOUS
  <2>4. x \in PollTasks /\ x.at = to /\ x.isNew = task.isNew /\ x.skip = skip
    BY <2>2, <2>3 DEF PollTasks
  <2>5. PeerInv' /\ tasks'[t] = x
    BY <1>1, <2>1 DEF PeerInv
  <2>6. TaskInv(t)'
    <3>1. task.isNew \in BOOLEAN /\ (~task.isNew => exists) /\ (task.isNew => path = "direct")
      BY <1>1, <2>1, <2>2 DEF TaskInv, PollTasks
    <3>2. tasks'[t].at = to /\ tasks'[t].isNew = task.isNew /\ tasks'[t].skip = skip
      BY <2>4, <2>5
    <3>3. CASE task.isNew
      BY <2>1, <3>1, <3>2, <3>3 DEF TaskInv
    <3>4. CASE ~task.isNew
      <4>1. tasks'[t].at = "set" /\ exists' /\ (path' = "relay" => tasks'[t].skip)
            /\ ~tasks'[t].isNew
        BY <2>1, <3>1, <3>2, <3>4
      <4> QED
        BY <4>1 DEF TaskInv
    <3> QED
      BY <3>3, <3>4
  <2>7. path' = "relay" => endpoint' = "relay"
    BY <1>2, <2>1
  <2> HIDE DEF x
  <2> QED
    BY <2>1, <2>2, <2>4, <2>5, <2>6, <2>7, OneTaskMoves DEF PathTasks
<1>6. CASE Path!CreateInterface(t)
  <2> DEFINE to == IF exists THEN "update" ELSE "set"
             x == [task EXCEPT !.at = to]
  <2>1. /\ task.at = "create" /\ tasks' = [tasks EXCEPT ![t].at = to] /\ exists' = TRUE
        /\ UNCHANGED <<config, endpoint, kept, path, directEndpoint>>
    BY <1>6 DEF Path!CreateInterface, Path!Goto, Path!At, Path!state
  <2>2. task \in PollTasks /\ task # Path!Idle
    BY <1>1, <2>1, TaskKinds DEF Path!Idle
  <2>3. tasks' = [tasks EXCEPT ![t] = x]
    BY <2>1
  <2>4. x \in PollTasks /\ x.at = to /\ x.isNew = task.isNew
    BY <2>2 DEF PollTasks
  <2>5. PeerInv' /\ tasks'[t] = x
    BY <1>1, <2>1, <2>3 DEF PeerInv
  <2>6. TaskInv(t)'
    <3>1. path = "direct"
      BY <1>1, <2>1 DEF TaskInv
    <3>2. tasks'[t].at \in {"update", "set"} /\ exists' = TRUE /\ path' = "direct"
      BY <2>1, <2>4, <2>5, <3>1
    <3> QED
      BY <3>2 DEF TaskInv
  <2>7. path' = "relay" => endpoint' = "relay"
    BY <1>2, <2>1
  <2> HIDE DEF x
  <2> QED
    BY <2>2, <2>3, <2>4, <2>5, <2>6, <2>7, OneTaskMoves DEF PathTasks
<1>7. CASE Path!SetInterface(t)
  <2> DEFINE x == [task EXCEPT !.at = "update"]
  <2>1. /\ task.at = "set" /\ tasks' = [tasks EXCEPT ![t].at = "update"]
        /\ endpoint' = IF task.found = None \/ task.skip THEN endpoint ELSE task.found
        /\ UNCHANGED <<config, exists, kept, path, directEndpoint>>
    BY <1>7 DEF Path!SetInterface, Path!Goto, Path!At, Path!state
  <2>2. task \in PollTasks /\ task # Path!Idle
    BY <1>1, <2>1, TaskKinds DEF Path!Idle
  <2>3. tasks' = [tasks EXCEPT ![t] = x]
    BY <2>1
  <2>4. x \in PollTasks /\ x.at = "update"
    BY <2>2 DEF PollTasks
  <2>5. PeerInv' /\ tasks'[t] = x
    BY <1>1, <2>1, <2>3 DEF PeerInv
  <2>6. TaskInv(t)'
    <3>1. exists
      BY <1>1, <2>1 DEF TaskInv
    <3> QED
      BY <2>1, <2>4, <2>5, <3>1 DEF TaskInv
  <2>7. path' = "relay" => endpoint' = "relay"
    <3>1. path = "relay" => task.skip
      BY <1>1, <2>1 DEF TaskInv
    <3> QED
      BY <1>2, <2>1, <3>1
  <2> HIDE DEF x
  <2> QED
    BY <2>2, <2>3, <2>4, <2>5, <2>6, <2>7, OneTaskMoves DEF PathTasks
<1>8. CASE Path!InitPeerState(t)
  <2>1. /\ task.at = "update" /\ tasks' = [tasks EXCEPT ![t] = Path!Idle]
        /\ kept' = TRUE /\ directEndpoint' = task.found
        /\ path' = IF kept THEN path ELSE "direct"
        /\ UNCHANGED <<config, exists, endpoint>>
    BY <1>8 DEF Path!InitPeerState, Path!Become, Path!At
  <2>2. task \in PollTasks /\ task # Path!Idle /\ exists
    BY <1>1, <2>1, TaskKinds DEF Path!Idle, TaskInv
  <2>3. PeerInv'
    BY <1>1, <2>1, <2>2 DEF PeerInv, PollTasks
  <2>4. tasks'[t].at = "idle"
    BY <1>1, <2>1 DEF Path!Idle
  <2>5. TaskInv(t)'
    BY <2>4 DEF TaskInv
  <2>6. path' = "relay" => endpoint' = "relay"
    BY <1>2, <2>1
  <2> QED
    BY <2>1, <2>2, <2>3, <2>5, <2>6, OneTaskMoves DEF PathTasks
<1> QED
  BY <1>3, <1>4, <1>5, <1>6, <1>7, <1>8 DEF Path!PollStep

\* The server's word begins a switch, or makes the mode direct at once.
LEMMA OrderKeeps ==
    ASSUME PathInv, Path!Serially, Path!Serially', NEW t \in Tasks,
           NEW target \in {"relay", "direct"}, Path!SwitchPeerMode(t, target),
           UNCHANGED <<config, exists, endpoint, kept, directEndpoint>>
    PROVE  PathInv'
<1> DEFINE to == IF target = "relay" THEN "relay" ELSE directEndpoint
           x == [at |-> "switch", target |-> target, to |-> to]
<1>1. /\ PeerInv /\ tasks \in [Tasks -> PathTasks] /\ tasks[t] = Path!Idle
  BY DEF PathInv, Path!SwitchPeerMode
<1>2. CASE UNCHANGED tasks /\ path' \in {path, "direct"}
  <2>1. PeerInv'
    BY <1>1, <1>2 DEF PeerInv
  <2> QED
    BY <1>2, <2>1, NoTaskMoves
<1>3. CASE kept /\ tasks' = [tasks EXCEPT ![t] = x] /\ path' = path
  <2>1. PeerInv'
    BY <1>1, <1>3 DEF PeerInv
  <2>2. x \in PathTasks /\ x # Path!Idle /\ x.at = "switch"
    BY <1>1 DEF PathTasks, SwitchTasks, Path!Idle, PeerInv
  <2>3. tasks'[t] = x
    BY <1>1, <1>3
  <2>4. TaskInv(t)'
    BY <1>1, <1>3, <2>3 DEF TaskInv, PeerInv
  <2>5. ASSUME NEW u \in Tasks PROVE tasks[u].at # "switched"
    <3>1. CASE u = t
      BY <1>1, <3>1 DEF Path!Idle
    <3>2. CASE u # t
      <4>1. tasks'[u] = tasks[u]
        BY <1>1, <1>3, <3>2
      <4>2. tasks'[u] = Path!Idle
        BY <2>2, <2>3, <3>2 DEF Path!Serially, Path!Idle
      <4> QED
        BY <4>1, <4>2 DEF Path!Idle
    <3> QED
      BY <3>1, <3>2
  <2>6. path' = "relay" => endpoint' = "relay"
    BY <1>3, <2>5 DEF PathInv
  <2> HIDE DEF x
  <2> QED
    BY <1>3, <2>1, <2>2, <2>4, <2>6, OneTaskMoves
<1> QED
  BY <1>2, <1>3 DEF Path!SwitchPeerMode, Path!Become

\* The two steps of a switch.
LEMMA SwitchStepKeeps ==
    ASSUME PathInv, Path!Serially, Path!Serially', NEW t \in Tasks, Path!SwitchStep(t)
    PROVE  PathInv'
<1> DEFINE task == tasks[t]
<1>1. PeerInv /\ task \in PathTasks /\ TaskInv(t) /\ tasks \in [Tasks -> PathTasks]
  BY DEF PathInv
<1>2. CASE Path!SetAwgEndpoint(t)
  <2> DEFINE x == [task EXCEPT !.at = "switched"]
  <2>1. /\ task.at = "switch" /\ tasks' = [tasks EXCEPT ![t].at = "switched"]
        /\ endpoint' = IF exists THEN task.to ELSE endpoint
        /\ UNCHANGED <<config, exists, kept, path, directEndpoint>>
    BY <1>2 DEF Path!SetAwgEndpoint, Path!Goto, Path!At, Path!state
  <2>2. task \in SwitchTasks /\ task # Path!Idle
    BY <1>1, <2>1, TaskKinds DEF Path!Idle
  <2>3. tasks' = [tasks EXCEPT ![t] = x]
    BY <2>1
  <2>4. x \in SwitchTasks /\ x.at = "switched" /\ x.target = task.target /\ x.to = task.to
    BY <2>2 DEF SwitchTasks
  <2>5. PeerInv' /\ tasks'[t] = x
    BY <1>1, <2>1, <2>3 DEF PeerInv
  <2>6. TaskInv(t)'
    BY <1>1, <2>1, <2>4, <2>5 DEF TaskInv
  <2> HIDE DEF x
  <2> QED
    BY <2>2, <2>3, <2>4, <2>5, <2>6, OneTaskMoves DEF PathTasks
<1>3. CASE Path!SetPeerMode(t)
  <2>1. /\ task.at = "switched" /\ tasks' = [tasks EXCEPT ![t] = Path!Idle]
        /\ path' = task.target
        /\ UNCHANGED <<config, exists, endpoint, kept, directEndpoint>>
    BY <1>3 DEF Path!SetPeerMode, Path!Become, Path!At
  <2>2. task \in SwitchTasks /\ task # Path!Idle
    BY <1>1, <2>1, TaskKinds DEF Path!Idle
  <2>3. kept /\ endpoint = task.to /\ (task.target = "relay" => task.to = "relay")
    BY <1>1, <2>1 DEF TaskInv
  <2>4. PeerInv'
    BY <1>1, <2>1, <2>2, <2>3 DEF PeerInv, SwitchTasks
  <2>5. tasks'[t].at = "idle"
    BY <1>1, <2>1 DEF Path!Idle
  <2>6. TaskInv(t)'
    BY <2>5 DEF TaskInv
  <2>7. path' = "relay" => endpoint' = "relay"
    BY <2>1, <2>3
  <2> QED
    BY <2>1, <2>2, <2>4, <2>6, <2>7, OneTaskMoves DEF PathTasks
<1> QED
  BY <1>2, <1>3 DEF Path!SwitchStep

LEMMA RestartKeeps == ASSUME PathInv, Path!Restart PROVE PathInv'
<1>1. /\ kept' = FALSE /\ path' = "direct" /\ directEndpoint' = None
      /\ tasks' = [t \in Tasks |-> Path!Idle] /\ UNCHANGED <<config, exists, endpoint>>
  BY DEF Path!Restart
<1>2. PeerInv'
  BY <1>1 DEF PathInv, PeerInv, Endpoints
<1>3. tasks' \in [Tasks -> PathTasks]
  BY <1>1 DEF PathTasks
<1>4. \A t \in Tasks : tasks'[t].at = "idle"
  BY <1>1 DEF Path!Idle
<1>5. \A t \in Tasks : TaskInv(t)'
  BY <1>4 DEF TaskInv
<1> QED
  BY <1>1, <1>2, <1>3, <1>5 DEF PathInv

LEMMA PathStep ==
    Path!Serially /\ Path!Serially' /\ PathInv /\ [AgentNext]_agentVars => PathInv'
<1> SUFFICES ASSUME Path!Serially, Path!Serially', PathInv, [AgentNext]_agentVars
             PROVE  PathInv'
  OBVIOUS
<1>1. CASE Path!Next
  <2>1. ASSUME NEW a \in Addresses, Path!Move(a) PROVE PathInv'
    <3>1. config' = a /\ UNCHANGED <<exists, endpoint, kept, path, directEndpoint, tasks>>
      BY <2>1 DEF Path!Move, Path!state
    <3>2. PeerInv'
      BY <3>1 DEF PathInv, PeerInv, Endpoints
    <3> QED
      BY <3>1, <3>2, NoTaskMoves
  <2>2. CASE Path!BeginProbe \/ Path!EndProbe
    <3>1. UNCHANGED <<config, exists, endpoint, kept, path, directEndpoint, tasks>>
      BY <2>2 DEF Path!BeginProbe, Path!EndProbe, Path!Order, Path!state
    <3>2. PeerInv'
      BY <3>1 DEF PathInv, PeerInv
    <3> QED
      BY <3>1, <3>2, NoTaskMoves
  <2>3. ASSUME NEW t \in Tasks, NEW target \in {"relay", "direct"},
               Path!ProbeVerdict(t, target) \/ Path!ForceMode(t, target)
        PROVE  PathInv'
    BY <2>3, OrderKeeps DEF Path!ProbeVerdict, Path!ForceMode, Path!Order
  <2> QED
    BY <1>1, <2>1, <2>2, <2>3, PollStepKeeps, SwitchStepKeeps, RestartKeeps DEF Path!Next, Path!TaskStep
<1>2. CASE UNCHANGED pathVars
  <2>1. UNCHANGED <<config, exists, endpoint, kept, path, directEndpoint, tasks>>
    BY <1>2 DEF pathVars
  <2>2. PeerInv'
    BY <2>1 DEF PathInv, PeerInv
  <2> QED
    BY <2>1, <2>2, NoTaskMoves
<1> QED
  BY <1>1, <1>2 DEF AgentNext, agentVars

\* When polls and switches of an agent do not overlap, a peer whose mode is the relay
\* has the relay's endpoint in the kernel once none is under way (reconciler.ts,
\* which skips the endpoint of such a peer, and negotiate.ts, switchPeerMode).
THEOREM RelaysAreUsed == AgentSpec => RelayIsUsed
<1>1. AgentInit => PathInv
  <2> SUFFICES ASSUME AgentInit PROVE PathInv
    OBVIOUS
  <2>1. /\ config = None /\ exists = FALSE /\ endpoint = None /\ kept = FALSE
        /\ path = "direct" /\ directEndpoint = None /\ tasks = [t \in Tasks |-> Path!Idle]
    BY DEF AgentInit, Path!Init
  <2>2. PeerInv
    BY <2>1 DEF PeerInv, Endpoints
  <2>3. \A t \in Tasks : tasks[t].at = "idle"
    BY <2>1 DEF Path!Idle
  <2>4. \A t \in Tasks : TaskInv(t)
    BY <2>3 DEF TaskInv
  <2>5. tasks \in [Tasks -> PathTasks]
    BY <2>1 DEF PathTasks
  <2> QED
    BY <2>1, <2>2, <2>4, <2>5 DEF PathInv
<1>2. PathInv => (Path!Quiet /\ kept /\ path = "relay" => endpoint = "relay")
  BY DEF PathInv, Path!Quiet, Path!Idle
<1> QED
  BY <1>1, <1>2, PathStep, PTL DEF AgentSpec, RelayIsUsed, Path!RelayIsUsed

=============================================================================
