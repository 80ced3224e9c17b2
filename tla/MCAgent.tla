------------------------------ MODULE MCAgent ------------------------------
(* The parts of an agent that share no variable of these models: the       *)
(* monitor, the path of one peer, and what the probes hold open.  Each     *)
(* behaviour is one of one part, the others rest where they begin, so   *)
(* that their states are not multiplied.                                   *)
EXTENDS Monitor

CONSTANTS Addresses, Tasks, MaxMoves, MaxRestarts, None, Others, MaxOpen

VARIABLES
    part,  \* the part that moves
    config, exists, endpoint, kept, path, directEndpoint, probed, tasks,
    moves, switches, restarts,
    probe, tcpProbeServer, servers, udpProbeSockets, udpOpen, binds, gos, late

\* What both the monitor and the path call known, mode, frozen and orders.
Path == INSTANCE EndpointSync
        WITH known <- kept, mode <- path, frozen <- probed, orders <- switches
Sockets == INSTANCE ProbeResources

ASSUME PathAssumption == Path!EndpointConstants
ASSUME SocketsAssumption == Sockets!ResourceConstants

pathVars == <<config, exists, endpoint, kept, path, directEndpoint, probed, tasks,
              moves, switches, restarts>>
socketVars == <<probe, tcpProbeServer, servers, udpProbeSockets, udpOpen, binds, gos, late>>
agentVars == <<part, vars, pathVars, socketVars>>

AgentInit ==
    /\ part \in {"monitor", "path", "sockets"}
    /\ Init /\ Path!Init /\ Sockets!Init

AgentNext ==
    \/ part = "monitor" /\ Next /\ UNCHANGED <<part, pathVars, socketVars>>
    \/ part = "path" /\ Path!Next /\ UNCHANGED <<part, vars, socketVars>>
    \/ part = "sockets" /\ Sockets!Next /\ UNCHANGED <<part, vars, pathVars>>

\* Each part's own fairness: see FairSpec of Monitor and of EndpointSync.
AgentSpec ==
    /\ AgentInit /\ [][AgentNext]_agentVars
    /\ SF_vars(part = "monitor" /\ Tick)
    /\ WF_vars(part = "monitor" /\ \E r \in Reads : Stats(r))
    /\ WF_vars(part = "monitor" /\ DirectPacket)
    /\ \A t \in Tasks : WF_pathVars(part = "path" /\ Path!TaskStep(t))
    /\ WF_pathVars(part = "path" /\ \E t \in Tasks : Path!GetConfig(t))

\* The properties of the parts; see EndpointSync and ProbeResources.
DirectEndpointRestored == Path!DirectEndpointRestored
RelayIsUsed == Path!RelayIsUsed
HeldServerProbes == Sockets!HeldServerProbes
UdpReleased == Sockets!UdpReleased
=============================================================================
