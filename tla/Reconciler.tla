----------------------------- MODULE Reconciler -----------------------------
(***************************************************************************)
(* One agent's poll (packages/agent/src: index.ts, reconciler.ts, what it  *)
(* uses of awg.ts, relay-proxy.ts and monitor.ts, and the server's two     *)
(* endpoints of api.ts it calls): the agent fetches the other peers of its *)
(* network, makes its interfaces match, reports the ports they listen on   *)
(* and starts a relay proxy and a monitor for each peer.                   *)
(*                                                                         *)
(* Every await ends an action.  Polls are started by a timer, and by each  *)
(* removal the server pushes, whether or not the last one has ended, so    *)
(* several are under way at once over the same maps and the same kernel.   *)
(* The maps are saved by a write that is not atomic; the agent may stop    *)
(* anywhere, and the kernel's interfaces outlive it.  Requests may be      *)
(* lost, and each command may fail; exec throws then, execSafe does not.   *)
(*                                                                         *)
(* A peer is a number, its id's place in the order of the ids.  An id is   *)
(* never used twice: a peer that has left does not come back.              *)
(***************************************************************************)
EXTENDS Naturals, FiniteSets, FiniteSetsExt, Functions

CONSTANTS
    Peers,       \* the ids of the other peers, in the order of ORDER BY id
    Ports,       \* portRangeStart..portRangeEnd
    Polls,       \* the polls that may be under way at once
    PortsLimit,  \* the most ports one report may hold (api.ts: 100)
    MaxChanges,  \* bound: peers that leave, and keys that are given or taken away
    MaxCrashes,  \* bound: how often the agent stops and is started again
    MaxFailures  \* bound: commands that fail, and reports that are lost or whose answer is

ASSUME PeersAssumption == Peers \subseteq Nat /\ IsFiniteSet(Peers)
ASSUME PortsAssumption == Ports \subseteq Nat \ {0}
ASSUME BoundsAssumption == {PortsLimit, MaxChanges, MaxCrashes, MaxFailures} \subseteq Nat

VARIABLES
    roster,     \* server: the other peers of the network
    keyless,    \* server: those of them whose pubkey is empty
    peer_ports, \* server: the port this agent listens on for a peer, 0 if unknown
    fresh,      \* the peers that have not joined yet
    links,      \* kernel: interface index -> its port, its peers, is it up
    file,       \* mappings.json, empty while it is being written
    saving,     \* the mapping each poll is writing to it
    peerToIf, peerToPort, dirty, lastPorts, \* the agent's memory
    relays,     \* relay-proxy.ts: peer -> the port it is at and the one it sends to
    peerStates, \* monitor.ts: peer -> the interface it is watched on
    polls,      \* what each poll is doing
    changes,    \* how often a peer has left or a key was changed
    crashes,    \* how often the agent has stopped
    failures,   \* how many commands failed and reports were lost
    kept        \* history: the peers removed whose interface could not be deleted

server == <<roster, keyless, peer_ports, fresh, changes>>
maps == <<peerToIf, peerToPort, dirty>>
watch == <<relays, peerStates>>
faults == <<crashes, failures>>
disk == <<file, saving>>
vars == <<server, links, kept, disk, maps, lastPorts, watch, polls, faults>>

None == <<>>
Mapping == [ifs |-> peerToIf, ports |-> peerToPort]
NoMapping == [ifs |-> None, ports |-> None]
With(f, x, y) == [z \in DOMAIN f \union {x} |-> IF z = x THEN y ELSE f[z]]
Without(f, x) == Restrict(f, DOMAIN f \ {x})

Idle == [pc |-> "idle", config |-> {}, keyed |-> {}, known |-> None, seen |-> {}, todo |-> {},
         peer |-> 0, idx |-> 0, ports |-> None]

At(a, pc) == polls[a].pc = pc
Become(a, p) == polls' = [polls EXCEPT ![a] = p]
Goto(a, pc) == Become(a, [polls[a] EXCEPT !.pc = pc])
Fail(a) == Become(a, Idle)
Failure == failures < MaxFailures /\ failures' = failures + 1 /\ UNCHANGED crashes

\* The next peer of a loop over config.peers; both skip those without a key.
Current(a) == Min(polls[a].todo)
Rest(a) == polls[a].todo \ {Current(a)}
NextPeer(a, p) == Become(a, [p EXCEPT !.todo = Rest(a), !.peer = 0, !.idx = 0,
                                      !.pc = IF Rest(a) = {} THEN "remove" ELSE "peer"])

-----------------------------------------------------------------------------
(* The server.                                                             *)

\* The dashboard's API makes peers without a key, too.
Join(p) ==
    /\ p \in fresh
    /\ fresh' = fresh \ {p}
    /\ roster' = roster \union {p}
    /\ keyless' \in {keyless, keyless \union {p}}
    /\ UNCHANGED <<peer_ports, changes, links, kept, disk, maps, lastPorts, watch, polls, faults>>

Leave(p) ==
    /\ p \in roster
    /\ changes < MaxChanges /\ changes' = changes + 1
    /\ roster' = roster \ {p} /\ keyless' = keyless \ {p}
    /\ peer_ports' = [peer_ports EXCEPT ![p] = 0]
    /\ UNCHANGED <<fresh, links, kept, disk, maps, lastPorts, watch, polls, faults>>

\* PATCH /api/peers/:id with a pubkey, or with an empty one.
ChangeKey(p) ==
    /\ p \in roster
    /\ changes < MaxChanges /\ changes' = changes + 1
    /\ keyless' = IF p \in keyless THEN keyless \ {p} ELSE keyless \union {p}
    /\ UNCHANGED <<roster, peer_ports, fresh, links, kept, disk, maps, lastPorts, watch, polls, faults>>

-----------------------------------------------------------------------------
(* reconcile.                                                              *)

GetConfig(a) ==
    /\ At(a, "idle")
    /\ Become(a, [Idle EXCEPT !.pc = "list", !.config = roster, !.keyed = roster \ keyless,
                              !.known = Restrict(peer_ports, roster)])
    /\ UNCHANGED <<server, links, kept, disk, maps, lastPorts, watch, faults>>

\* A listing that fails is an empty one.
ListInterfaces(a) ==
    /\ At(a, "list")
    /\ \E seen \in {DOMAIN links, {}} :
          /\ IF seen = DOMAIN links THEN UNCHANGED faults ELSE Failure
          /\ Become(a, [polls[a] EXCEPT !.seen = seen, !.todo = polls[a].keyed,
                            !.pc = IF polls[a].keyed = {} THEN "remove" ELSE "peer"])
    /\ UNCHANGED <<server, links, kept, disk, maps, lastPorts, watch>>

\* A deviation: the next index is the number of peers that have one.
FreeIndex_ByCount == Cardinality(DOMAIN peerToIf)

FreeIndex == Min((0..Cardinality(DOMAIN peerToIf)) \ Range(peerToIf))
GetIfName(p) == IF p \in DOMAIN peerToIf THEN peerToIf[p] ELSE FreeIndex

\* A deviation: a port that is used may be drawn, too.
GetPort_AnyOfRange(p) == IF p \in DOMAIN peerToPort THEN {peerToPort[p]} ELSE Ports

\* Any unused port of the range may be drawn.
GetPort(p) == IF p \in DOMAIN peerToPort THEN {peerToPort[p]} ELSE Ports \ Range(peerToPort)
\* A deviation: the port 0 of a peer the server knows no port for is taken for one.
ListenPort_Zero(a, p) == IF polls[a].known[p] >= 0 THEN {polls[a].known[p]} ELSE GetPort(p)

ListenPort(a, p) == IF polls[a].known[p] > 0 THEN {polls[a].known[p]} ELSE GetPort(p)

AssignPeer(a) ==
    /\ At(a, "peer")
    /\ LET p == Current(a)  idx == GetIfName(p)
       IN  /\ peerToIf' = With(peerToIf, p, idx)
           /\ \/ \E port \in ListenPort(a, p) :
                   /\ peerToPort' = With(peerToPort, p, port)
                   /\ dirty' = (dirty \/ Mapping' # Mapping)
                   /\ Become(a, [polls[a] EXCEPT
                          !.pc = IF idx \in polls[a].seen THEN "set" ELSE "create",
                          !.peer = p, !.idx = idx, !.ports = With(@, p, port)])
              \/ /\ ListenPort(a, p) = {}
                 /\ dirty' = (dirty \/ p \notin DOMAIN peerToIf)
                 /\ Fail(a)
                 /\ UNCHANGED peerToPort
    /\ UNCHANGED <<server, links, kept, disk, lastPorts, watch, faults>>

\* What ensureInterface throws is caught: the peer's port is not reported.
EnsureFails(a) == NextPeer(a, [polls[a] EXCEPT !.ports = Without(@, polls[a].peer)])

CreateInterface(a) ==
    /\ At(a, "create")
    /\ LET idx == polls[a].idx
       IN  \/ /\ idx \notin DOMAIN links
              /\ links' = With(links, idx, [port |-> 0, hosts |-> {}, up |-> FALSE])
              /\ Goto(a, "set")
              /\ UNCHANGED faults
           \/ /\ IF idx \in DOMAIN links THEN UNCHANGED faults ELSE Failure
              /\ EnsureFails(a)
              /\ UNCHANGED links
    /\ UNCHANGED <<server, kept, disk, maps, lastPorts, watch>>

\* The kernel refuses to move an interface that is up to a port another one has;
\* one that is down gets the port and then does not come up, which is not noticed.
PortTaken(idx, port) == \E i \in DOMAIN links \ {idx} : links[i].up /\ links[i].port = port
Set(a) == [idx |-> polls[a].idx, port |-> polls[a].ports[polls[a].peer]]
Refused(s) ==
    s.idx \in DOMAIN links =>
        links[s.idx].up /\ links[s.idx].port # s.port /\ PortTaken(s.idx, s.port)

\* "awg set" adds the peer to those the interface has.
Configure(a, comesUp) ==
    LET s == Set(a)
    IN  /\ ~Refused(s)
        /\ links' = [links EXCEPT ![s.idx] =
               [port |-> s.port, hosts |-> @.hosts \union {polls[a].peer},
                up |-> @.up \/ (comesUp /\ ~PortTaken(s.idx, s.port))]]

\* The rest of ensureInterface.  That the interface does not come up is not
\* noticed; a failed "ip rule add" is, when all has been set.
SetInterface(a) ==
    /\ At(a, "set")
    /\ \/ Configure(a, TRUE) /\ NextPeer(a, polls[a]) /\ UNCHANGED faults
       \/ Configure(a, FALSE) /\ NextPeer(a, polls[a]) /\ Failure
       \/ Configure(a, TRUE) /\ EnsureFails(a) /\ Failure
       \/ UNCHANGED links /\ EnsureFails(a) /\ IF Refused(Set(a)) THEN UNCHANGED faults ELSE Failure
    /\ UNCHANGED <<server, kept, disk, maps, lastPorts, watch>>

\* A deviation: peers are only ever added.
Strays_Kept(a) == {}

Strays(a) == DOMAIN peerToIf \ polls[a].config

BeginRemove(a) ==
    /\ At(a, "remove")
    /\ \E p \in Strays(a) :
          Become(a, [polls[a] EXCEPT !.pc = "unlink", !.peer = p, !.idx = peerToIf[p]])
    /\ UNCHANGED <<server, links, kept, disk, maps, lastPorts, watch, faults>>

\* A deviation: the peer goes and its interface stays.
RemoveInterface_LinkKept(a) ==
    /\ At(a, "unlink")
    /\ Goto(a, "forget")
    /\ UNCHANGED <<server, links, kept, disk, maps, lastPorts, watch, faults>>

\* That an interface cannot be deleted is not noticed.
RemoveInterface(a) ==
    /\ At(a, "unlink")
    /\ \/ links' = Without(links, polls[a].idx) /\ UNCHANGED <<kept, faults>>
       \/ /\ polls[a].idx \in DOMAIN links /\ Failure
          /\ kept' = kept \union {polls[a].peer}
          /\ UNCHANGED links
    /\ Goto(a, "forget")
    /\ UNCHANGED <<server, disk, maps, lastPorts, watch>>

ForgetPeer(a) ==
    /\ At(a, "forget")
    /\ peerToIf' = Without(peerToIf, polls[a].peer)
    /\ peerToPort' = Without(peerToPort, polls[a].peer)
    /\ dirty' = TRUE
    /\ Become(a, [polls[a] EXCEPT !.pc = "remove", !.peer = 0, !.idx = 0])
    /\ UNCHANGED <<server, links, kept, disk, lastPorts, watch, faults>>

BeginSave(a) ==
    /\ At(a, "remove") /\ Strays(a) = {}
    /\ \/ ~dirty /\ Goto(a, "report") /\ UNCHANGED <<disk, faults>>
       \/ /\ dirty /\ Goto(a, "save") /\ UNCHANGED faults
          /\ file' = NoMapping /\ saving' = [saving EXCEPT ![a] = Mapping]
       \/ dirty /\ Fail(a) /\ Failure /\ UNCHANGED disk
    /\ UNCHANGED <<server, links, kept, maps, lastPorts, watch>>

\* A write that fails, here or as it begins, ends the poll.
EndSave(a) ==
    /\ At(a, "save")
    /\ saving' = [saving EXCEPT ![a] = NoMapping]
    /\ \/ file' = saving[a] /\ dirty' = FALSE /\ Goto(a, "report") /\ UNCHANGED faults
       \/ Fail(a) /\ Failure /\ UNCHANGED <<file, dirty>>
    /\ UNCHANGED <<server, links, kept, peerToIf, peerToPort, lastPorts, watch>>

-----------------------------------------------------------------------------
(* The rest of poll.                                                       *)

StartRelays(a) == Become(a, [polls[a] EXCEPT !.pc = "relay", !.todo = polls[a].keyed,
                                 !.seen = {}, !.known = None, !.ports = None])
Rejected(ports) == Cardinality(DOMAIN ports) > PortsLimit \/ ~(DOMAIN ports \subseteq roster)

Stored(ports) == [p \in Peers |-> IF p \in DOMAIN ports THEN ports[p] ELSE peer_ports[p]]

NothingToReport(a) ==
    /\ polls[a].ports \in {None, lastPorts}
    /\ StartRelays(a)
    /\ UNCHANGED <<peer_ports, lastPorts, faults>>

ReportStored(a) ==
    /\ polls[a].ports \notin {None, lastPorts} /\ ~Rejected(polls[a].ports)
    /\ peer_ports' = Stored(polls[a].ports)
    /\ lastPorts' = polls[a].ports
    /\ StartRelays(a)
    /\ UNCHANGED faults

ReportRefused(a) ==
    /\ polls[a].ports \notin {None, lastPorts} /\ Rejected(polls[a].ports)
    /\ Fail(a)
    /\ UNCHANGED <<peer_ports, lastPorts, faults>>

\* The request times out; the server may have stored the ports.
ReportLost(a) ==
    /\ polls[a].ports \notin {None, lastPorts}
    /\ Failure
    /\ \/ UNCHANGED peer_ports
       \/ ~Rejected(polls[a].ports) /\ peer_ports' = Stored(polls[a].ports)
    /\ Fail(a)
    /\ UNCHANGED lastPorts

ReportPorts(a) ==
    /\ At(a, "report")
    /\ NothingToReport(a) \/ ReportStored(a) \/ ReportRefused(a) \/ ReportLost(a)
    /\ UNCHANGED <<roster, keyless, fresh, changes, links, kept, disk, maps, watch>>

Bound(local) == \E q \in DOMAIN relays : relays[q].local = local
\* A deviation: the port of the configuration, which no interface listens on.
AwgPort_OfConfig(p) == 0

AwgPort(p) == IF p \in DOMAIN peerToPort THEN peerToPort[p] ELSE 0

\* ensureRelayProxy leaves an entry as it is; a bind to a port that is taken may
\* fail, or succeed and take the datagrams from the socket that had it.
EnsureRelayProxy(a, p) ==
    /\ p \in DOMAIN peerToIf
    /\ relays' = IF p \in DOMAIN relays THEN relays
                 ELSE With(relays, p, [local |-> polls[a].idx, awg |-> AwgPort(p)])
    /\ peerStates' = With(peerStates, p, peerToIf[p])
    /\ Become(a, [polls[a] EXCEPT !.todo = Rest(a), !.idx = @ + 1])

BindFails(a, p) ==
    /\ p \in DOMAIN peerToIf \ DOMAIN relays
    /\ Bound(polls[a].idx)
    /\ Fail(a)
    /\ UNCHANGED watch

NoInterface(a, p) ==
    /\ p \notin DOMAIN peerToIf
    /\ Become(a, [polls[a] EXCEPT !.todo = Rest(a)])
    /\ UNCHANGED watch

RelayPeer(a) ==
    /\ At(a, "relay") /\ polls[a].todo # {}
    /\ LET p == Current(a) IN EnsureRelayProxy(a, p) \/ BindFails(a, p) \/ NoInterface(a, p)
    /\ UNCHANGED <<server, links, kept, disk, maps, lastPorts, faults>>

EndPoll(a) ==
    /\ At(a, "relay") /\ polls[a].todo = {}
    /\ peerStates' = Restrict(peerStates, DOMAIN peerStates \intersect polls[a].keyed)
    /\ relays' = Restrict(relays, DOMAIN relays \ (DOMAIN peerStates \ polls[a].keyed))
    /\ Become(a, Idle)
    /\ UNCHANGED <<server, links, kept, disk, maps, lastPorts, faults>>

-----------------------------------------------------------------------------
\* The agent stops and is started again; after a reboot the interfaces are gone.
Restart ==
    /\ crashes < MaxCrashes /\ crashes' = crashes + 1
    /\ links' \in {links, None}
    /\ peerToIf' = file.ifs /\ peerToPort' = file.ports /\ dirty' = FALSE
    /\ lastPorts' = None /\ relays' = None /\ peerStates' = None
    /\ polls' = [a \in Polls |-> Idle] /\ saving' = [a \in Polls |-> NoMapping]
    /\ UNCHANGED <<server, kept, file, failures>>

Reconcile(a) ==
    \/ GetConfig(a) \/ ListInterfaces(a) \/ AssignPeer(a)
    \/ CreateInterface(a) \/ SetInterface(a)
    \/ BeginRemove(a) \/ RemoveInterface(a) \/ ForgetPeer(a)
    \/ BeginSave(a) \/ EndSave(a)
Poll(a) == Reconcile(a) \/ ReportPorts(a) \/ RelayPeer(a) \/ EndPoll(a)

Init ==
    /\ roster = {} /\ keyless = {} /\ fresh = Peers /\ peer_ports = [p \in Peers |-> 0]
    /\ links = None /\ kept = {} /\ file = NoMapping /\ saving = [a \in Polls |-> NoMapping]
    /\ peerToIf = None /\ peerToPort = None /\ dirty = FALSE /\ lastPorts = None
    /\ relays = None /\ peerStates = None
    /\ polls = [a \in Polls |-> Idle]
    /\ changes = 0 /\ crashes = 0 /\ failures = 0

Next ==
    \/ \E p \in Peers : Join(p) \/ Leave(p) \/ ChangeKey(p)
    \/ \E a \in Polls : Poll(a)
    \/ Restart

\* Each await of a poll ends, and the timer starts a poll again and again.
Fairness == \A a \in Polls : WF_vars(Poll(a))

Spec == Init /\ [][Next]_vars
FairSpec == Spec /\ Fairness
-----------------------------------------------------------------------------
(* Properties.                                                             *)

MappingType(m) ==
    /\ IsInjective(m.ifs) /\ DOMAIN m.ifs \subseteq Peers /\ Range(m.ifs) \subseteq Nat
    /\ DOMAIN m.ports \subseteq Peers /\ Range(m.ports) \subseteq Ports

\* Type correctness of the server's rows, the maps, the file and the polls.
ReconcilerTypeOK ==
    /\ keyless \subseteq roster /\ roster \subseteq Peers /\ fresh \subseteq Peers \ roster
    /\ kept \subseteq Peers
    /\ peer_ports \in [Peers -> Ports \union {0}]
    /\ MappingType(Mapping) /\ MappingType(file) /\ dirty \in BOOLEAN
    /\ DOMAIN relays \subseteq Peers /\ DOMAIN peerStates \subseteq DOMAIN relays
    /\ \A a \in Polls : /\ polls[a].keyed \subseteq polls[a].config
                       /\ polls[a].config \subseteq Peers /\ MappingType(saving[a])

\* No two peers are given the same interface, in memory or on disk, however the
\* polls overlap and wherever the agent stops (getIfName; README.md:7 "a dedicated
\* interface (mza0, mza1, ...) per peer").
IfNamesDistinct == IsInjective(peerToIf) /\ IsInjective(file.ifs)

\* The port a peer is given is nobody else's (reconciler.ts:64 "Pick a random
\* port from range that's not already used"), as long as the agent is not stopped:
\* one that comes back without its mappings may draw a port for one peer that the
\* configuration then has for the next.
PortsDistinct == crashes = 0 => IsInjective(peerToPort)

\* An interface serves the one peer it is mapped to, and besides only peers that
\* have left and whose interface could not be deleted (README.md:23 "a separate
\* kernel AWG interface for each peer"), though ensureInterface only ever adds and
\* names are used again; an agent that was stopped may have forgotten an interface.
OnePeerPerInterface ==
    /\ kept \intersect roster = {}
    /\ crashes = 0 => \A i \in DOMAIN links :
        /\ Cardinality(links[i].hosts \ kept) <= 1
        /\ \A p \in links[i].hosts \ kept : p \in DOMAIN peerToIf /\ peerToIf[p] = i

\* The peers an interface has been set up for, and still is.
Served(i) == {p \in links[i].hosts \intersect DOMAIN peerToIf : peerToIf[p] = i}

\* The relay proxy of a peer sends to the port the agent has for the peer and
\* reports, though ensureRelayProxy never looks at an entry again and ports are lost
\* and drawn anew when the agent is stopped; and as long as it is not, to the port
\* that the peer's interface listens on, from when it was first set up for the peer.
RelaysReachInterfaces ==
    /\ \A p \in roster \intersect DOMAIN relays :
          p \in DOMAIN peerToPort /\ relays[p].awg = peerToPort[p]
    /\ crashes = 0 => \A i \in DOMAIN links : \A p \in Served(i) \intersect DOMAIN relays :
          relays[p].awg = links[i].port

\* What README.md:23 says, "Meshezia creates a separate kernel AWG interface for each
\* peer", for an agent that is not stopped: no interface has two peers.
SeparateInterfaces == \A i \in DOMAIN links : Cardinality(links[i].hosts) <= 1

\* The peers of the network that have a key, and no peers that have left, have an
\* interface that is up, at a port the server knows.
Connected ==
    /\ roster \ keyless \subseteq DOMAIN peerToIf /\ DOMAIN peerToIf \subseteq roster
    /\ DOMAIN links \subseteq Range(peerToIf)
    /\ \A p \in roster \ keyless :
          /\ peerToIf[p] \in DOMAIN links
          /\ links[peerToIf[p]] = [port |-> peer_ports[p], hosts |-> {p}, up |-> TRUE]

\* Once nobody joins or leaves, the polls of an agent that is not stopped make the
\* interfaces match and keep them so, whatever reports were lost, whichever
\* commands failed and whichever polls ended early (reconcile's diff), but for one
\* command: an interface that could not be deleted is forgotten, and keeps its port.
Converges == [](crashes = 0 /\ kept = {}) => <>[]Connected
=============================================================================
