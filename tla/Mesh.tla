-------------------------------- MODULE Mesh --------------------------------
(***************************************************************************)
(* The failover protocol end to end: the Negotiator, the agents of         *)
(* packages/agent/src (negotiate.ts, and what it uses of monitor.ts and    *)
(* relay-proxy.ts), and the WebSocket between each agent and the server.   *)
(*                                                                         *)
(* An agent is one JavaScript thread too, but its handlers await: what     *)
(* follows an await is an action of its own, and the work in between is a  *)
(* task that outlives the negotiation, and even the socket, it was begun   *)
(* under.  A socket is a FIFO queue in each direction; its two ends notice *)
(* that it is gone at different moments, and what is queued is then lost.  *)
(*                                                                         *)
(* The set of peers is fixed here and the relay enabled: the reaper and    *)
(* the API's changes of either are the Negotiator's.                       *)
(***************************************************************************)
EXTENDS Negotiator, Sequences, SequencesExt, Bags

CONSTANTS
    MaxBacklog, \* bound: the messages and tasks that may be left over from
                \* earlier negotiations where a probe can be begun
    MaxFaults   \* bound: sockets lost, agents and servers restarted, modes forced

ASSUME MeshBoundsAssumption == MaxBacklog \in Nat /\ MaxFaults \in Nat

VARIABLES
    wsOpen,          \* is the agent's end of its socket open
    up,              \* agent to server: what the server has not handled
    down,            \* server to agent: what the agent has not handled
    frozenPeers,     \* monitor.ts: the peers an agent does not report of
    mode,            \* monitor.ts: the mode of each peer the agent knows
    tcpProbeServer,  \* the peer the agent's probe server is for, if it has one
    udpProbeSockets, \* the peers the agent has a probe socket for
    tasks,           \* the handlers that await, a bag of [kind, with]
    switching,       \* the modes switchPeerMode awaits, oldest first
    faults           \* how many faults there have been

probing == <<frozenPeers, tcpProbeServer, udpProbeSockets>>
agents == <<mode, probing, tasks, switching>>
network == <<wsOpen, up, down>>
meshVars == <<vars, network, agents, faults>>

Others(p) == Peers \ {p}
Task(kind, q) == [kind |-> kind, with |-> q]
Tasks == [kind : {"check", "bind", "go"}, with : Peers]

(* Messages to the server.                                                 *)
HealthReports == [type : {"health-report"},
                  reports : UNION {[about -> Statuses] : about \in SUBSET Peers}]
ProbeMessages == [type : {"probe-relay-ready", "probe-relay-result",
                          "probe-direct-ready", "probe-direct-result", "probe-error"},
                  with : Peers, success : BOOLEAN]
Probe(type, q, success) == [type |-> type, with |-> q, success |-> success]

Fault == faults < MaxFaults /\ faults' = faults + 1

-----------------------------------------------------------------------------
(* The network.                                                            *)

\* wsSend of the agent, through whatever socket it has when it sends.
Send(p, m) ==
    up' = [up EXCEPT ![p] = IF wsOpen[p] /\ sockets[p] > 0 THEN Append(@, m) ELSE @]

\* What the server's step pushes to p, in the order it is pushed: the aborts of
\* old negotiations come before the messages of new ones.
MailOf(p) ==
    LET mail == {e[2] : e \in {m \in sent' : m[1] = p}}
        aborts == {m \in mail : m.type = "negotiate-abort"}
    IN  SetToSeq(aborts) \o SetToSeq(mail \ aborts)

\* A push into a socket whose other end has closed is lost.
Deliver ==
    down' = [p \in Peers |-> IF wsOpen[p] THEN down[p] \o MailOf(p) ELSE down[p]]

\* What is under way of earlier negotiations: messages, and tasks that may yet
\* send one.
BacklogOf(p) ==
    Len(SelectSeq(up[p], LAMBDA m : m.type # "health-report")) + Len(down[p]) + BagCardinality(tasks[p])
    + FoldSet(LAMBDA q, n : Len(switching[p][q]) + n, 0, Peers)
Quiet == FoldSet(LAMBDA p, n : BacklogOf(p) + n, 0, Peers) <= MaxBacklog

\* A deviation: onclose does not reset the negotiation state.
AgentClosed_NotReset(p) ==
    /\ wsOpen' = [wsOpen EXCEPT ![p] = FALSE]
    /\ down' = [down EXCEPT ![p] = <<>>]
    /\ UNCHANGED probing

\* ws.onclose: resetNegotiateState, and what had not been read is gone.
AgentClosed(p) ==
    /\ wsOpen' = [wsOpen EXCEPT ![p] = FALSE]
    /\ down' = [down EXCEPT ![p] = <<>>]
    /\ frozenPeers' = [frozenPeers EXCEPT ![p] = {}]
    /\ tcpProbeServer' = [tcpProbeServer EXCEPT ![p] = {}]
    /\ udpProbeSockets' = [udpProbeSockets EXCEPT ![p] = {}]

\* connect: the agent comes back when the server has closed its end (a second
\* socket beside a half-open one is the Negotiator's).
Connect(p) ==
    /\ ~wsOpen[p] /\ sockets[p] = 0
    /\ WsOpen(p)
    /\ wsOpen' = [wsOpen EXCEPT ![p] = TRUE]
    /\ UNCHANGED <<up, down, agents, faults>>

\* The agent finds its socket closed by the server, or closes it: stale, or lost.
AgentClose(p) ==
    /\ wsOpen[p]
    /\ \/ sockets[p] = 0 /\ UNCHANGED faults
       \/ sockets[p] > 0 /\ Fault
    /\ AgentClosed(p)
    /\ UNCHANGED <<vars, up, mode, tasks, switching>>

\* The server finds the socket closed by the agent, or closes it: idle, or lost.
ServerClose(p) ==
    /\ \/ ~wsOpen[p] /\ UNCHANGED faults
       \/ wsOpen[p] /\ Fault
    /\ WsClose(p)
    /\ up' = [up EXCEPT ![p] = <<>>]
    /\ Deliver
    /\ UNCHANGED <<wsOpen, agents>>

-----------------------------------------------------------------------------
(* The server's steps: each is one of the Negotiator's, with its mail.     *)

Dispatch(p, m) ==
    \/ /\ m.type = "health-report"
       /\ HealthReport(p, m.reports, DOMAIN m.reports)   \* no grace period
    \/ m.type = "probe-relay-ready" /\ ProbeRelayReady(p, m.with)
    \/ m.type = "probe-relay-result" /\ ProbeRelayResult(p, m.with, m.success)
    \/ m.type = "probe-direct-ready" /\ ProbeDirectReady(p, m.with)
    \/ m.type = "probe-direct-result" /\ ProbeDirectResult(p, m.with, m.success)
    \/ m.type = "probe-error" /\ ProbeError(p, m.with)

ServerReceive(p) ==
    /\ up[p] # <<>>
    /\ up' = [up EXCEPT ![p] = Tail(@)]
    /\ Dispatch(p, Head(up[p]))
    /\ Deliver
    /\ UNCHANGED <<wsOpen, agents, faults>>

ServerTimeout(k) ==
    /\ Timeout(k)
    /\ Deliver
    /\ UNCHANGED <<wsOpen, up, agents, faults>>

\* No negotiation lives for as long as the sweep calls stale: what ends it is
\* its timeout.  What the sweep does here is to start direct probes.
ServerSweep(due) ==
    /\ due # {} /\ Quiet
    /\ StaleSweep({}, due)
    /\ Deliver
    /\ UNCHANGED <<wsOpen, up, agents, faults>>

ForcePair(k, forced) ==
    /\ Fault
    /\ ForceMode(k, forced)
    /\ Deliver
    /\ UNCHANGED <<wsOpen, up, agents>>

RestartServer ==
    /\ Fault
    /\ ServerRestart
    /\ up' = [p \in Peers |-> <<>>]
    /\ UNCHANGED <<wsOpen, down, agents>>

-----------------------------------------------------------------------------
(* The agent's message handlers, up to their first await.                  *)

Receives(p, type, q) ==
    /\ down[p] # <<>>
    /\ Head(down[p]).type = type /\ Head(down[p]).with = q
    /\ down' = [down EXCEPT ![p] = Tail(@)]

With(f, p, q) == [f EXCEPT ![p] = @ \cup {q}]
Without(f, p, q) == [f EXCEPT ![p] = @ \ {q}]

Begin(p, t) ==
    tasks' = [tasks EXCEPT ![p] = @ (+) SetToBag({t})]
End(p, t) ==
    /\ BagIn(t, tasks[p])
    /\ tasks' = [tasks EXCEPT ![p] = @ (-) SetToBag({t})]

\* closeTcpProbeServer, closeUdpProbeSocket, unfreezePeer.
Release(p, q) ==
    /\ frozenPeers' = Without(frozenPeers, p, q)
    /\ tcpProbeServer' = Without(tcpProbeServer, p, q)
    /\ udpProbeSockets' = Without(udpProbeSockets, p, q)

\* switchPeerMode up to its await; a peer without state is not switched.
Switch(p, q, target) ==
    switching' = IF q \in DOMAIN mode[p]
                 THEN [switching EXCEPT ![p][q] = Append(@, target)]
                 ELSE switching

\* Bun.serve does not await; it throws when it cannot bind.  The one variable
\* for the server is overwritten, whatever it held.
ProbeRelayServe(p, q) ==
    /\ Receives(p, "probe-relay-serve", q)
    /\ \/ /\ frozenPeers' = With(frozenPeers, p, q)
          /\ tcpProbeServer' = [tcpProbeServer EXCEPT ![p] = {q}]
          /\ Send(p, Probe("probe-relay-ready", q, TRUE))
       \/ /\ frozenPeers' = Without(frozenPeers, p, q)
          /\ UNCHANGED tcpProbeServer
          /\ Send(p, Probe("probe-error", q, FALSE))
    /\ UNCHANGED <<vars, wsOpen, mode, udpProbeSockets, tasks, switching, faults>>

ProbeRelayCheck(p, q) ==
    /\ Receives(p, "probe-relay-check", q)
    /\ frozenPeers' = With(frozenPeers, p, q)
    /\ Begin(p, Task("check", q))
    /\ UNCHANGED <<vars, wsOpen, up, mode, tcpProbeServer, udpProbeSockets, switching, faults>>

ProbeDirectStart(p, q) ==
    /\ Receives(p, "probe-direct-start", q)
    /\ frozenPeers' = With(frozenPeers, p, q)
    /\ Begin(p, Task("bind", q))
    /\ UNCHANGED <<vars, wsOpen, up, mode, tcpProbeServer, udpProbeSockets, switching, faults>>

ProbeDirectGo(p, q) ==
    /\ Receives(p, "probe-direct-go", q)
    /\ \/ q \in udpProbeSockets[p] /\ Begin(p, Task("go", q))
       \/ q \notin udpProbeSockets[p] /\ UNCHANGED tasks
    /\ UNCHANGED <<vars, wsOpen, up, mode, probing, switching, faults>>

\* A deviation: a verdict to stay returns before the peer is unfrozen.
ProbeVerdict_StayKeepsFrozen(p, q) ==
    LET action == Head(down[p]).arg IN
    /\ Receives(p, "probe-verdict", q)
    /\ \/ action = "stay" /\ UNCHANGED <<probing, switching>>
       \/ action = "switch-relay" /\ Release(p, q) /\ Switch(p, q, "relay")
       \/ action = "switch-direct" /\ Release(p, q) /\ Switch(p, q, "direct")
    /\ UNCHANGED <<vars, wsOpen, up, mode, tasks, faults>>

ProbeVerdict(p, q) ==
    LET action == Head(down[p]).arg IN
    /\ Receives(p, "probe-verdict", q)
    /\ Release(p, q)
    /\ \/ action = "switch-relay" /\ Switch(p, q, "relay")
       \/ action = "switch-direct" /\ Switch(p, q, "direct")
       \/ action = "stay" /\ UNCHANGED switching
    /\ UNCHANGED <<vars, wsOpen, up, mode, tasks, faults>>

NegotiateAbort(p, q) ==
    /\ Receives(p, "negotiate-abort", q)
    /\ Release(p, q)
    /\ UNCHANGED <<vars, wsOpen, up, mode, tasks, switching, faults>>

\* The mode that is set is remembered in forcedModes, which nothing reads.
ForcedByServer(p, q) ==
    LET forced == Head(down[p]).arg IN
    /\ Receives(p, "force-mode", q)
    /\ Release(p, q)
    /\ \/ forced = "force-relay" /\ Switch(p, q, "relay")
       \/ forced = "force-direct" /\ Switch(p, q, "direct")
       \/ forced = "auto" /\ UNCHANGED switching
    /\ UNCHANGED <<vars, wsOpen, up, mode, tasks, faults>>

AgentReceive(p, q) ==
    \/ ProbeRelayServe(p, q)
    \/ ProbeRelayCheck(p, q)
    \/ ProbeDirectStart(p, q)
    \/ ProbeDirectGo(p, q)
    \/ ProbeVerdict(p, q)
    \/ NegotiateAbort(p, q)
    \/ ForcedByServer(p, q)

-----------------------------------------------------------------------------
(* What follows an await.  The outcome of a probe is the network's: a POST *)
(* that is answered or is not, a nonce that arrives or does not.           *)

CheckDone(p, q) ==
    /\ End(p, Task("check", q))
    /\ \E success \in BOOLEAN : Send(p, Probe("probe-relay-result", q, success))
    /\ UNCHANGED <<vars, wsOpen, down, mode, probing, switching, faults>>

\* A bind that ends after the negotiation leaves its socket in the map.
BindDone(p, q) ==
    /\ End(p, Task("bind", q))
    /\ \/ /\ udpProbeSockets' = With(udpProbeSockets, p, q)
          /\ Send(p, Probe("probe-direct-ready", q, TRUE))
          /\ UNCHANGED frozenPeers
       \/ /\ frozenPeers' = Without(frozenPeers, p, q)
          /\ Send(p, Probe("probe-error", q, FALSE))
          /\ UNCHANGED udpProbeSockets
    /\ UNCHANGED <<vars, wsOpen, down, mode, tcpProbeServer, switching, faults>>

\* The socket that is closed is the one the map has by then.
GoDone(p, q) ==
    /\ End(p, Task("go", q))
    /\ udpProbeSockets' = Without(udpProbeSockets, p, q)
    /\ \E success \in BOOLEAN : Send(p, Probe("probe-direct-result", q, success))
    /\ UNCHANGED <<vars, wsOpen, down, mode, frozenPeers, tcpProbeServer, switching, faults>>

\* setPeerMode, when awg has set the endpoint.  The switches of one peer are
\* taken to end in the order they were begun.
SwitchDone(p, q) ==
    /\ switching[p][q] # <<>>
    /\ switching' = [switching EXCEPT ![p][q] = Tail(@)]
    /\ mode' = [mode EXCEPT ![p] = [r \in DOMAIN @ |->
                   IF r = q THEN Head(switching[p][q]) ELSE @[r]]]
    /\ UNCHANGED <<vars, network, probing, tasks, faults>>

TaskDone(p, q) == CheckDone(p, q) \/ BindDone(p, q) \/ GoDone(p, q) \/ SwitchDone(p, q)

-----------------------------------------------------------------------------
(* The agent's timers and its process.                                     *)

\* The dead reports of q by p that the server has counted or will count.
DeadReports(p, q) ==
    HealthOf(PairKey(p, q)).streak[Side(PairKey(p, q), p)]
    + Cardinality({i \in DOMAIN up[p] : /\ up[p][i].type = "health-report"
                                        /\ q \in DOMAIN up[p][i].reports
                                        /\ up[p][i].reports[q] = "dead"})

\* The report of every peer that is not frozen.  Bounds: one report is under
\* way at a time, and a dead one while the backlog is small and the server can
\* count it.
SendReport(p) ==
    LET about == DOMAIN mode[p] \ frozenPeers[p] IN
    /\ wsOpen[p] /\ sockets[p] > 0
    /\ about # {}
    /\ up[p] = <<>>
    /\ \E reports \in [about -> Statuses] :
        /\ \A q \in about :
            /\ reports[q] = "relay" <=> mode[p][q] = "relay"
            /\ reports[q] = "dead" => Quiet /\ DeadReports(p, q) < MaxStreak
        /\ up' = [up EXCEPT ![p] = Append(@, [type |-> "health-report", reports |-> reports])]
    /\ UNCHANGED <<vars, wsOpen, down, agents, faults>>

\* tick finds a peer frozen for longer than FROZEN_TIMEOUT_MS.
AutoUnfreeze(p, q) ==
    /\ q \in frozenPeers[p]
    /\ frozenPeers' = Without(frozenPeers, p, q)
    /\ UNCHANGED <<vars, network, mode, tcpProbeServer, udpProbeSockets, tasks, switching, faults>>

\* A deviation: the configuration lists the agent among its own peers.
Poll_OfItselfToo(p) ==
    /\ DOMAIN mode[p] # Peers
    /\ mode' = [mode EXCEPT ![p] = [q \in Peers |->
                   IF q \in DOMAIN @ THEN @[q] ELSE "direct"]]
    /\ UNCHANGED <<vars, network, probing, tasks, switching, faults>>

\* A poll makes the state of the peers that have none: direct.
Poll(p) ==
    /\ DOMAIN mode[p] # Others(p)
    /\ mode' = [mode EXCEPT ![p] = [q \in Others(p) |->
                   IF q \in DOMAIN @ THEN @[q] ELSE "direct"]]
    /\ UNCHANGED <<vars, network, probing, tasks, switching, faults>>

\* The agent's process ends and starts again; it keeps no mode on disk.
RestartAgent(p) ==
    /\ Fault
    /\ AgentClosed(p)
    /\ mode' = [mode EXCEPT ![p] = [q \in {} |-> "direct"]]
    /\ tasks' = [tasks EXCEPT ![p] = EmptyBag]
    /\ switching' = [switching EXCEPT ![p] = [q \in Peers |-> <<>>]]
    /\ UNCHANGED <<vars, up>>

-----------------------------------------------------------------------------
MeshInit ==
    /\ Init
    /\ wsOpen = [p \in Peers |-> FALSE]
    /\ up = [p \in Peers |-> <<>>]
    /\ down = [p \in Peers |-> <<>>]
    /\ frozenPeers = [p \in Peers |-> {}]
    /\ tcpProbeServer = [p \in Peers |-> {}]
    /\ udpProbeSockets = [p \in Peers |-> {}]
    /\ mode = [p \in Peers |-> [q \in {} |-> "direct"]]
    /\ tasks = [p \in Peers |-> EmptyBag]
    /\ switching = [p \in Peers |-> [q \in Peers |-> <<>>]]
    /\ faults = 0

Connection ==
    \E p \in Peers : Connect(p) \/ AgentClose(p) \/ ServerClose(p)

Server ==
    \/ \E p \in Peers : ServerReceive(p)
    \/ \E k \in Keys : ServerTimeout(k)
    \/ \E due \in SUBSET Keys : ServerSweep(due)

Administrator ==
    \/ \E k \in Keys, forced \in {"force-direct", "force-relay", "auto"} : ForcePair(k, forced)
    \/ RestartServer

Agent(p) ==
    \/ \E q \in Others(p) : AgentReceive(p, q) \/ TaskDone(p, q) \/ AutoUnfreeze(p, q)
    \/ SendReport(p)
    \/ Poll(p)
    \/ RestartAgent(p)

MeshNext ==
    \/ Connection
    \/ Server
    \/ Administrator
    \/ \E p \in Peers : Agent(p)

MeshSpec == MeshInit /\ [][MeshNext]_meshVars

\* Armed timeouts run, messages on an open socket arrive, what is awaited comes
\* (fetch and the wait for a nonce have their own timeouts), the end of a socket
\* is noticed at the other side (ping and staleness timers), agents reconnect
\* and poll.  Of the safety net of tick nothing is assumed.
MeshFairness ==
    /\ \A k \in Keys : WF_meshVars(ServerTimeout(k))
    /\ \A p \in Peers :
        /\ WF_meshVars(ServerReceive(p))
        /\ WF_meshVars(Connect(p))
        /\ WF_meshVars(sockets[p] = 0 /\ AgentClose(p))
        /\ WF_meshVars(~wsOpen[p] /\ ServerClose(p))
        /\ WF_meshVars(Poll(p))
        /\ \A q \in Others(p) :
            /\ WF_meshVars(AgentReceive(p, q))
            /\ WF_meshVars(CheckDone(p, q))
            /\ WF_meshVars(BindDone(p, q))
            /\ WF_meshVars(GoDone(p, q))
            /\ WF_meshVars(SwitchDone(p, q))

FairMeshSpec == MeshSpec /\ MeshFairness

-----------------------------------------------------------------------------
(* Properties.                                                             *)

\* The types of what the mesh adds.
MeshTypeOK ==
    /\ wsOpen \in [Peers -> BOOLEAN]
    /\ up \in [Peers -> Seq(HealthReports \cup ProbeMessages)]
    /\ down \in [Peers -> Seq(Message)]
    /\ frozenPeers \in [Peers -> SUBSET Peers]
    /\ tcpProbeServer \in [Peers -> SUBSET Peers]
    /\ udpProbeSockets \in [Peers -> SUBSET Peers]
    /\ \A p \in Peers :
        /\ DOMAIN mode[p] \in {{}, Others(p)}
        /\ \A q \in DOMAIN mode[p] : mode[p][q] \in LinkModes
        /\ BagToSet(tasks[p]) \subseteq Tasks
    /\ switching \in [Peers -> [Peers -> Seq(LinkModes)]]
    /\ faults \in 0..MaxFaults

\* The server that the agents, their sockets and the faults make step behaves as
\* the Negotiator says: every message that reaches a handler is one it allows for
\* (of a negotiation with another peer, reports of other peers), and whatever an
\* agent does by itself changes nothing of the server's.
ImplementsNegotiator == Spec

\* A message that will release what agent p holds for a probe with q.
ReleaseUnderWay(p, q) ==
    \E i \in DOMAIN down[p] :
        /\ down[p][i].with = q
        /\ down[p][i].type \in {"probe-verdict", "negotiate-abort", "force-mode"}

\* An agent's detection of a peer is frozen, or its probe server up, only while
\* something will end that: a negotiation of the pair at the server, a message
\* under way, or the end of the socket, which the agent will notice.  What the
\* server gives up, and what the agent loses, is never left to tick's safety net.
ProbeStateAccounted ==
    \A p \in Peers : \A q \in frozenPeers[p] \cup tcpProbeServer[p] :
        /\ wsOpen[p]
        /\ \/ PairKey(p, q) \in DOMAIN activeNegotiations
           \/ ReleaseUnderWay(p, q)
           \/ sockets[p] = 0

\* No agent's detection of a peer stays frozen, whatever is lost on the way.
FrozenEnds ==
    \A p \in Peers : \A q \in Others(p) : q \in frozenPeers[p] ~> q \notin frozenPeers[p]

\* Nothing about the pair is being negotiated, told or switched.
Settled(k) ==
    /\ k \notin DOMAIN activeNegotiations
    /\ \A p \in Members(k) :
        /\ ~ReleaseUnderWay(p, Other(k, p))
        /\ switching[p][Other(k, p)] = <<>>
        /\ Other(k, p) \in DOMAIN mode[p]

\* As long as no socket or process fails and no mode is forced, the two agents
\* of a pair come out of every negotiation in the same mode, whatever results
\* arrive late and whatever is aborted.
SettledModesAgree ==
    \A k \in Keys : Settled(k) => mode[k[1]][k[2]] = mode[k[2]][k[1]]

\* An agent on the relay does not stay there without a direct probe.
RestoreAttempted ==
    \A p \in Peers : \A q \in Others(p) :
        (q \in DOMAIN mode[p] /\ mode[p][q] = "relay")
            ~> \/ IsActive(PairKey(p, q), "direct-probe")
               \/ q \notin DOMAIN mode[p]
               \/ mode[p][q] = "direct"

=============================================================================
