---------------------------- MODULE EndpointSync ----------------------------
(***************************************************************************)
(* The path of one peer at an agent: the mode the agent thinks it is in    *)
(* and the endpoint the kernel has, which two parts of the agent write.    *)
(* negotiate.ts switches both, at the server's word; the poll of index.ts, *)
(* through reconcile and ensureInterface, writes the endpoint of the       *)
(* configuration.  Each awaits a command between what it read and what it  *)
(* writes, and nothing keeps one from running while the other waits.       *)
(*                                                                         *)
(* The relay proxy's port is taken to stay the same; the kernel's own      *)
(* change of an endpoint, when a peer's packets come from elsewhere, is    *)
(* left out.                                                               *)
(***************************************************************************)
EXTENDS Naturals

CONSTANTS
    Addresses,   \* the endpoints the peer may have
    Tasks,       \* bound: polls and switches that may be under way at a time
    MaxMoves,    \* bound: changes of the peer's endpoint in the configuration
    MaxOrders,   \* bound: probes and forced modes of the server
    MaxRestarts  \* bound: restarts of the agent

CONSTANT None    \* no endpoint: the peer has not reported a port

EndpointConstants ==
    /\ None \notin Addresses /\ "relay" \notin Addresses \cup {None}
    /\ {MaxMoves, MaxOrders, MaxRestarts} \subseteq Nat

VARIABLES
    config,         \* the peer's endpoint, as the server would answer
    exists,         \* whether the peer's interface exists
    endpoint,       \* the endpoint that the kernel has for the peer
    known,          \* whether peerStates has the peer
    mode,           \* PeerState.mode
    directEndpoint, \* PeerState.directEndpoint
    frozen,         \* frozenPeers has the peer
    tasks,          \* the polls and switches that wait at an await
    moves, orders, restarts

counters == <<moves, orders, restarts>>
state == <<known, mode, directEndpoint>>
vars == <<config, exists, endpoint, known, mode, directEndpoint, frozen,
          tasks, moves, orders, restarts>>

\* A task says what it waits for, and holds what it read before.
Idle == [at |-> "idle"]
Quiet == \A t \in Tasks : tasks[t] = Idle
Serially == \A t, u \in Tasks : tasks[t] # Idle /\ tasks[u] # Idle => t = u
Become(t, task) == tasks' = [tasks EXCEPT ![t] = task]
At(t, where) == tasks[t].at = where
Goto(t, where) == tasks' = [tasks EXCEPT ![t].at = where]

-----------------------------------------------------------------------------
(* The server's configuration.                                             *)

\* The peer's agent reports another address or port; it never has none again.
Move(a) ==
    /\ moves < MaxMoves /\ a # config
    /\ config' = a
    /\ moves' = moves + 1
    /\ UNCHANGED <<exists, endpoint, state, frozen, tasks, orders, restarts>>

-----------------------------------------------------------------------------
(* A poll, as far as it concerns this peer.                                *)

GetConfig(t) ==
    /\ tasks[t] = Idle
    /\ Become(t, [at |-> "list", found |-> config, isNew |-> FALSE, skip |-> FALSE])
    /\ UNCHANGED <<config, exists, endpoint, state, frozen, counters>>

ListInterfaces(t) ==
    /\ At(t, "list")
    /\ Become(t, [tasks[t] EXCEPT !.at = "poll", !.isNew = ~exists])
    /\ UNCHANGED <<config, exists, endpoint, state, frozen, counters>>

\* A deviation: a peer that is on the relay keeps the endpoint of the
\* configuration too.
Decide_ModeIgnored(t) ==
    /\ At(t, "poll")
    /\ Become(t, [tasks[t] EXCEPT
                     !.at = IF tasks[t].isNew THEN "create" ELSE "set",
                     !.skip = ~tasks[t].isNew /\ frozen])
    /\ UNCHANGED <<config, exists, endpoint, state, frozen, counters>>

\* A deviation: only a new interface is given an endpoint.
Decide_NewOnly(t) ==
    /\ At(t, "poll")
    /\ Become(t, [tasks[t] EXCEPT
                     !.at = IF tasks[t].isNew THEN "create" ELSE "set",
                     !.skip = ~tasks[t].isNew])
    /\ UNCHANGED <<config, exists, endpoint, state, frozen, counters>>

\* The endpoint is left alone when the peer is on the relay or in a probe, as
\* of now; the command that heeds it runs after further awaits.
Decide(t) ==
    /\ At(t, "poll")
    /\ Become(t, [tasks[t] EXCEPT
                     !.at = IF tasks[t].isNew THEN "create" ELSE "set",
                     !.skip = ~tasks[t].isNew /\ (mode = "relay" \/ frozen)])
    /\ UNCHANGED <<config, exists, endpoint, state, frozen, counters>>

\* An interface that another poll made meanwhile fails this one's attempt.
CreateInterface(t) ==
    /\ At(t, "create")
    /\ exists' = TRUE
    /\ Goto(t, IF exists THEN "update" ELSE "set")
    /\ UNCHANGED <<config, endpoint, state, frozen, counters>>

\* awg set, with an endpoint if there is one and it is not skipped.
SetInterface(t) ==
    /\ At(t, "set")
    /\ endpoint' = IF tasks[t].found = None \/ tasks[t].skip THEN endpoint
                   ELSE tasks[t].found
    /\ Goto(t, "update")
    /\ UNCHANGED <<config, exists, state, frozen, counters>>

\* initPeerState: a state that exists keeps its mode.
InitPeerState(t) ==
    /\ At(t, "update")
    /\ known' = TRUE
    /\ directEndpoint' = tasks[t].found
    /\ mode' = IF known THEN mode ELSE "direct"
    /\ Become(t, Idle)
    /\ UNCHANGED <<config, exists, endpoint, frozen, counters>>

-----------------------------------------------------------------------------
(* The server's word.                                                      *)

Order ==
    /\ orders < MaxOrders
    /\ orders' = orders + 1
    /\ UNCHANGED <<config, exists, endpoint, known, directEndpoint, moves, restarts>>

\* switchPeerMode up to its await.  A peer that is not known is not switched;
\* a switch to a direct endpoint that is not known yet has nothing to await.
SwitchPeerMode(t, target) ==
    /\ tasks[t] = Idle
    /\ LET to == IF target = "relay" THEN "relay" ELSE directEndpoint IN
       \/ /\ ~known
          /\ UNCHANGED <<mode, tasks>>
       \/ /\ known /\ to = None
          /\ mode' = "direct"
          /\ UNCHANGED tasks
       \/ /\ known /\ to # None
          /\ Become(t, [at |-> "switch", target |-> target, to |-> to])
          /\ UNCHANGED mode

\* A message of a probe that begins: the peer is frozen.
BeginProbe ==
    /\ Order
    /\ frozen' = TRUE
    /\ UNCHANGED <<mode, tasks>>

\* The probe ends without a switch: an abort, the verdict "stay", "auto" of
\* handleForceMode, tick's safety net, or resetNegotiateState when the
\* WebSocket is lost.
EndProbe ==
    /\ frozen
    /\ frozen' = FALSE
    /\ UNCHANGED <<config, exists, endpoint, state, tasks, counters>>

\* handleProbeVerdict with a switch; it ends a probe.
ProbeVerdict(t, target) ==
    /\ frozen
    /\ frozen' = FALSE
    /\ SwitchPeerMode(t, target)
    /\ UNCHANGED <<config, exists, endpoint, known, directEndpoint, counters>>

\* handleForceMode; forcedModes, which nothing reads, is left out.
ForceMode(t, target) ==
    /\ Order
    /\ frozen' = FALSE
    /\ SwitchPeerMode(t, target)

\* setAwgEndpoint: the command writes the kernel's endpoint, if it can.
SetAwgEndpoint(t) ==
    /\ At(t, "switch")
    /\ endpoint' = IF exists THEN tasks[t].to ELSE endpoint
    /\ Goto(t, "switched")
    /\ UNCHANGED <<config, exists, state, frozen, counters>>

SetPeerMode(t) ==
    /\ At(t, "switched")
    /\ mode' = tasks[t].target
    /\ Become(t, Idle)
    /\ UNCHANGED <<config, exists, endpoint, known, directEndpoint, frozen, counters>>

\* The agent ends and starts again: the kernel keeps the interface.
Restart ==
    /\ restarts < MaxRestarts
    /\ restarts' = restarts + 1
    /\ known' = FALSE /\ mode' = "direct" /\ directEndpoint' = None
    /\ frozen' = FALSE
    /\ tasks' = [t \in Tasks |-> Idle]
    /\ UNCHANGED <<config, exists, endpoint, moves, orders>>

-----------------------------------------------------------------------------
Init ==
    /\ config = None
    /\ exists = FALSE
    /\ endpoint = None
    /\ known = FALSE /\ mode = "direct" /\ directEndpoint = None
    /\ frozen = FALSE
    /\ tasks = [t \in Tasks |-> Idle]
    /\ moves = 0 /\ orders = 0 /\ restarts = 0

PollStep(t) ==
    \/ ListInterfaces(t) \/ Decide(t) \/ CreateInterface(t)
    \/ SetInterface(t) \/ InitPeerState(t)
SwitchStep(t) == SetAwgEndpoint(t) \/ SetPeerMode(t)
TaskStep(t) == PollStep(t) \/ SwitchStep(t)

Next ==
    \/ \E a \in Addresses : Move(a)
    \/ \E t \in Tasks : GetConfig(t)
    \/ \E t \in Tasks : TaskStep(t)
    \/ BeginProbe
    \/ EndProbe
    \/ \E t \in Tasks, target \in {"relay", "direct"} :
          ProbeVerdict(t, target) \/ ForceMode(t, target)
    \/ Restart

Spec == Init /\ [][Next]_vars

\* A command that runs ends, and the timer of polls (setInterval) ticks on.
Fairness ==
    /\ \A t \in Tasks : WF_vars(TaskStep(t))
    /\ WF_vars(\E t \in Tasks : GetConfig(t))

FairSpec == Spec /\ Fairness

-----------------------------------------------------------------------------
(* Properties.                                                             *)

\* When no poll and no switch is under way, a peer whose mode is the relay has
\* the relay's endpoint in the kernel: nothing would ever set it again, for
\* reconcile skips the endpoint of such a peer.  It takes that polls and
\* switches never overlapped, which nothing in the agent sees to.
RelayIsUsed == []Serially => [](Quiet /\ known /\ mode = "relay" => endpoint = "relay")

\* A peer that stays direct and is not being probed gets the endpoint of the
\* configuration, and keeps it: a poll repairs what switches and older polls
\* left behind.
DirectEndpointRestored ==
    <>[](known /\ mode = "direct" /\ ~frozen /\ config # None)
        => <>[](endpoint = config)
=============================================================================
