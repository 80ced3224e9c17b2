# A verification project for meshezia

meshezia builds a full mesh of AmneziaWG tunnels between hosts. A *server* keeps
the networks and peers in SQLite and orchestrates failover; an *agent* on every
host polls its configuration, keeps one interface per peer, measures which peers
it still hears, and can carry a peer's traffic over the WebSocket to the server
(the *relay*) when the direct path is dead. A *dashboard* and a local *observer*
show and edit what the server has. This directory models the parts of that which
are hard to test: what the server and the agents decide together about every pair
of peers, what an agent keeps over polls, crashes and updates, and what is shown
while sockets break, answers overtake each other and administrators interfere.

Paths below are relative to `src/packages/`.

## Inventory

| part | state it keeps | operations | module |
|---|---|---|---|
| failover orchestrator, `server/src/negotiate.ts` | `pairHealthMap` (dead streaks, grace, backoff, forced mode), `activeNegotiations` and their timeouts | health reports, probe messages, three timeouts, sweep, force mode, cleanup of a peer | `Negotiator`, `PairFailover` (what it promises) |
| connection registry, `server/src/relay.ts` | `connections`: peer to its newest socket | open, message, close, push, binary relay, heartbeat | `Negotiator` (registry, pushes), `Mesh` (text messages) |
| reaper, `server/src/reaper.ts` | none | end negotiations of expired peers, delete them, tell the rest | `Negotiator` |
| database, `server/src/db.ts` | `networks`, `peers`, `peer_ports`, `peer_links` | foreign keys, cascades, upserts, transactions | the rows each module needs |
| REST API, `server/src/api.ts` | none | networks, registration, configuration, ports, force mode, deletion, update push | `Negotiator`, `Registration`, `Reconciler`, `EndpointSync`, `SelfUpdate`, `Dashboard`, `Memo`, `Session` |
| server process, `server/src/index.ts` | rate-limit windows | HTTP front, upgrade, wiring, shutdown | `Negotiator` (wiring, restart), `RateLimiter` |
| addresses, `server/src/subnet.ts` | none | allocate an address of a CIDR | `Registration` |
| probe protocol, `agent/src/negotiate.ts` | TCP probe server, UDP probe sockets, forced modes | seven message handlers, reset on disconnect | `Mesh`, `ProbeResources`, `EndpointSync` |
| monitor, `agent/src/monitor.ts` | peer states (mode, rx counters), frozen peers, cached statistics | tick, reports, freeze, set mode | `Monitor`, `Mesh`, `EndpointSync` |
| relay proxy and WebSocket, `agent/src/relay-proxy.ts` | the socket, local UDP proxies, marks of relayed frames | connect, reconnect, dispatch, forward | `Mesh` (socket), `Reconciler` (proxies), `Monitor` (marks) |
| reconciler, `agent/src/reconciler.ts` | peer to interface and port, in memory and on disk | diff of configuration and interfaces | `Reconciler`, `EndpointSync` |
| interfaces, `agent/src/awg.ts`, `exec.ts` | key pair on disk, interfaces of the kernel | set up, remove, read statistics | `Reconciler`, `EndpointSync`, `Registration`, `Monitor` |
| boot and loops, `agent/src/index.ts`, `client.ts` | peer id on disk, the binary | register, poll, self-update | `Registration`, `Reconciler`, `SelfUpdate` |
| observer, `agent/src/observer.ts` | memo | local HTTP reads, memo update | `Memo` |
| messages and frames, `shared/src` | none | message types, relay frame | `Negotiator`, `Mesh` (messages) |
| web frontend, `frontend/src` | token and its validity; what a page shows | login, logout, loads, edits | `Session`, `Dashboard` |

**How they interact.** The server is one JavaScript thread, and none of the
handlers of the failover awaits: a handler is atomic, and what interleaves is
handlers, timers and connections. An agent is one thread as well, but its
handlers await fetches, sockets, files and shell commands, so that they overlap
with each other, with the poll (10 s), with the tick (1 s) and with the report
(3 s). Server and agents exchange JSON over one WebSocket per agent; both ends
find out on their own, up to 30 s apart, that a socket is gone. Everything in
memory goes with its process: the server keeps only the database, an agent only
its key, its id and its interface mappings.

**What is hard about it.** The two sides of a probe are kept together by
messages that may be lost with a socket; a negotiation is identified by its pair
alone, so that late timeouts, results and tasks meet the next one of the same
pair; detection is frozen at both agents during a probe and every end of it has
to reach both; forced modes live in three places (the two rows, the cache, the
agents); peers disappear in the middle of everything. The list of hazards in
`PROJECT.json` has each with its line.

**What makes each part correct.**

- *orchestrator*: a pair has one negotiation at most, it ends, its end is told to
  whoever is connected, its timeouts are its own, a forced pair is left alone;
- *registry*: a peer with an open socket is in it;
- *reaper, database*: no row, health record or negotiation of a peer outlives it
  in a way that confuses the others;
- *probe protocol*: what an agent freezes, serves and binds for a probe is
  released; both agents of a pair take the same verdict;
- *monitor*: a peer counts as dead after so many misses and no others, silence is
  found out, and relayed bytes are not taken for direct ones for good;
- *relay proxy, reconciler*: no two peers share a port or an interface, the
  interfaces come to match the configuration, the endpoint agrees with the mode;
- *API, boot, addresses*: an address is unique and of its subnet, the key a peer
  has published is the one it uses, an agent that has its files runs in the end;
- *self-update*: what is started after a crash is a whole, executable binary;
- *clients*: only accepted tokens are kept, a page comes to show what the server
  has, a memo answered with success is the same on both sides (it is for a post that
  comes alone: see *Known disagreements*).

## The modules

### `Negotiator`

The server's side, complete: one action per handler of `negotiate.ts`, per
timeout, per callback of the registry, and per call of the administrator and the
reaper that changes what the handlers read.

| variable | code |
|---|---|
| `sockets` | how many WebSockets of a peer are open at the server (`WsData`) |
| `connected` | keys of `connections` |
| `peers`, `links`, `relayEnabled` | rows of `peers` and `peer_links`, `networks.relay_enabled` |
| `pairHealthMap` | `PairHealth`: the two streaks, whether each side's grace period is over, the cached forced mode |
| `activeNegotiations` | `NegotiationState`; `timer` says which timeout `timeoutId` is |
| `timers` | the timeouts that are armed, whoever holds them |
| `sent` | what the last step pushed to peers that are in the registry |

*Abstractions.* Peers are numbers and their order is that of the ids as strings.
Ports, nonces, addresses and statistics decide nothing at the server and are left
out; of a report there remains whether the path is alive, dead or the relay. Time
is left out: a grace period may be found over at any report (it may be configured
to be 0), a backoff expired and a negotiation stale at any sweep, an expired peer
at any pass of the reaper, and a timeout that is armed may run at any moment. So
what is shown holds for every setting of the periods. What each step pushes is a
set: within one step, messages to one peer go out aborts first.

A report's loop over its pairs is one assignment, since the pairs of one report
differ. Its forced-mode lookup takes either row (`LIMIT 1` without an order).

### `Mesh`

`Negotiator` with the agents and the sockets between them. A socket is two FIFO
queues (`up`, `down`), with its open end at the agent (`wsOpen`) and at the server
(`sockets`). When one end closes, what it had not read is gone; what it sends to
the other end, which has not noticed yet, is lost as well. The server's steps are
the `Negotiator`'s, each with its input taken from `up` and its pushes put into
`down`.

| variable | code |
|---|---|
| `frozenPeers`, `mode` | `frozenPeers` and `peerStates[..].mode` of `monitor.ts`; a peer that is not in the domain of `mode` has no state yet |
| `tcpProbeServer`, `udpProbeSockets` | the same of `agent/src/negotiate.ts`, reduced to which peers they are for |
| `tasks` | handlers that wait at an `await`: the probe's POST (`check`), the bind of a UDP socket (`bind`), the exchange of nonces (`go`) |
| `switching` | switches waiting for `awg set` |

A message handler up to its first `await` is one action (`ProbeRelayServe`,
`ProbeVerdict`, ...), what follows the await another (`CheckDone`, `BindDone`,
`GoDone`, `SwitchDone`). Tasks outlive the negotiation and the socket they were
begun under, as in the code: `CheckDone` sends through whatever socket there is
when the answer comes. The outcomes of a probe are the network's and are any.

*Abstractions.* The set of peers is fixed and the relay is enabled (the
`Negotiator` has the reaper, deletion and the switch). The grace period is over
at the first report. The switches of one peer end in the order they were begun.
The agent reconnects only when the server has closed its end; the race of two
sockets is the `Negotiator`'s.

### `PairFailover` and `NegotiatorImplements`

`PairFailover` is the abstract specification of the orchestrator: what the agents
may be told of their pairs. A pair is probed for one thing at a time and only while
both agents are present; a probe ends with one *outcome* that its kind allows (to
the relay or stay, to direct or stay, or an abort), and in the step that ends it
every agent of the pair that stays is told that outcome and no other. It knows of
no reports, readiness, results, streaks, timers, sockets or rows. `NegotiatorImplements` has the
refinement mapping: the phase of a pair is that of its entry in
`activeNegotiations`, the outcomes are read off `sent`.

### `Reconciler`

One agent's polls: `reconcile`, the report of ports, and the relay proxies.

| variable | code |
|---|---|
| `roster`, `keyless`, `peer_ports`, `fresh` | the other peers' rows, those of them with an empty key, the port this agent last reported for each, who has not joined yet |
| `links` | the interfaces of the kernel: port, peers added (`hosts`), up |
| `file`, `saving` | the mapping file, and the writes of it under way |
| `peerToIf`, `peerToPort`, `dirty` | the maps of `reconciler.ts` |
| `lastPorts`, `relays`, `peerStates` | `lastPortsJson`, the proxies with their two ports, the states the poll makes |
| `polls` | each poll: where it waits, and its own snapshot of configuration and interfaces |
| `failures`, `crashes`, `changes` | how many commands and reports failed, how often the agent stopped, how often a peer left or its key was changed |
| `kept` | history: the peers that were removed while `ip link delete` failed |

A poll is split at its awaits (`GetConfig`, `ListInterfaces`, `AssignPeer`,
`CreateInterface`, `SetInterface`, `RemoveInterface`, `ForgetPeer`, `BeginSave`,
`EndSave`, `ReportPorts`, `RelayPeer`, `EndPoll`); what goes on between two
awaits is one action. Each command may fail (`Failure`), in the way of the code: a
failed listing is an empty one, which makes the poll create interfaces that exist; a
failed creation, key file, `awg set` or `ip rule add` ends the set-up of the peer, the last
of them when all is set, and its port is not reported (`EnsureFails`); a failed `ip link set up` and a
failed `ip link delete` are not noticed. `saveMappings` may fail as it begins or as it ends, a report
may be refused, lost, or stored with its answer lost. The mapping file is empty
while it is being written, which is what a crash then leaves. After a reboot the
interfaces are gone, after a mere restart they are not. Ports are numbers of a
small range, drawn at random as in the code (its limit of 1000 draws is left out: the search ends
when all are taken). Peers without a key are in the configuration but get
no interface and no relay. Of a key only its presence counts: a peer whose key
is replaced by another remains one peer in `hosts`, though the kernel then
has both keys. Addresses and the obfuscation parameters decide nothing and are left out.

### `Registration`

Agents that boot (`boot` of `index.ts` up to the connection): load or make the key
pair, load the peer id, register or update, save the id; the server's side with
`allocateIp`; an administrator who makes and deletes networks and peers. `disk`
has the three files of each agent, `memory` what it holds, `pc` where it waits. A
crash may cut short the write under way (`CutShort`). Addresses are numbers below
`AddressSpace` (2^32 in the code) that wrap there, as `>>> 0` does; a subnet is its written base
and the number of its addresses, which divides the space, since both are powers of two.

### `SelfUpdate`

`selfUpdate`: the two files (`binPath`, `tmpPath`) with, for each inode, whether it is
`whole` and `executable`; each update's place between its awaits (fetch, write,
chmod, rename, unlink); updates may be pushed while another runs. A stop or a kill at any point
ends the process, which is started again from the path.

### `Monitor`

One peer as an agent hears it. Packets, direct ones or those passed on from the relay over
the loopback, make the kernel's byte counter grow. `tick` is
split at its read (`BeginTick`, `Count` or `FailRead`, `EndTick`), and takes the cached one when
a report has just read it (`TickFromCache`). Ticks and reports begin reads whenever the cache is not
young, whatever reads still run (`Spawn`), and reads end in any order, so that an older value may
become `lastRxBytes` after a newer one. The code only compares values of the counter; `rxBytes` has
their ranks: the counter's now (`"kernel"`), `lastRxBytes` (`"last"`), the cached one (`"cached"`)
and what each of `Reads` has counted, with 0 for a read that failed. `Ranked` closes the gaps, which keeps the order
and makes a counter that grows for ever a finite one. `frozen` counts the ticks since a freeze.

### `EndpointSync`

The mode and the endpoint of one peer, which the poll (through `reconcile` and
`ensureInterface`) and the negotiation (through `switchPeerMode`) both write across
awaits. `tasks` are the polls and switches under way, each with what it read;
`config` is the endpoint the server would answer, `endpoint` the kernel's.
`forcedModes` is only ever written by the code and is left out.

### `ProbeResources`

The one `tcpProbeServer` and the `udpProbeSockets` of an agent whose probes with
several peers overlap (in `Mesh` an agent has one peer): what the variable or the
map holds, and what is really open. `late` is a history variable.

### `Session`, `Dashboard`, `RateLimiter`, `Memo`

`Session`: `token`, `tokenValid` and the stored token of the dashboard, with requests
that are answered in any order, also after a logout or a reload. `Dashboard`: the page of one
network, whose loads (several requests each) and edits overlap each other and among themselves, and the rows they are about.
`RateLimiter`: the fixed window of one address, in instants. `Memo`: the memo of a peer at the
agent and at the server, with posts that come at any time, restarts, updates made elsewhere, and
PATCHes that are refused, or given up after 15 s and stored later all the same (`flying`); `lone` is a
history variable.

### The modules of the runs

`MCNegotiator`, `MCMesh` and `MCReconciler` give the constants of their module values and, where
needed, views, symmetry and bounds on steps. `MCAgent` puts `Monitor`, `EndpointSync` and `ProbeResources` together,
`MCHost` `Registration` and `SelfUpdate`, and `MCClients` `Session`, `Dashboard`, `Memo`
and `RateLimiter`: the parts share no variable, so a behaviour is one of one part (`part`, chosen
at the start) and the rest of the variables stay where they begin. Nothing is said
of how parts of one such run interact.

## What the runs check

| run | question | bounds | states |
|---|---|---|---|
| `negotiator` | is the server's side safe, does each negotiation end, does it implement `PairFailover` | 2 peers, threshold 2, streaks to 3, 2 sockets of one peer and 1 of the other | 99 040 |
| `mesh` | is what an agent holds for a probe accounted for and released; does the mesh implement `Negotiator` | 2 agents, 1 fault, a probe begins with nothing left over | 159 642 |
| `mesh_modes_agree` | do both agents leave a negotiation in one mode | 2 agents, no fault, 1 message or task left over | 1 093 571 |
| `mesh_restore` | does an agent on the relay see a direct probe | 2 agents, no fault, with tick's safety net | 11 738 |
| `reconciler` | are interfaces distinct whatever overlaps | 2 peers, 2 polls, 1 change, 1 crash, no report is accepted | 3 928 148 |
| `reconciler_serial` | ports, peers of an interface, relays; convergence | 3 peers, 3 ports, 1 poll, 1 peer leaves or changes its key, 1 failure; with a crash 2 peers and one of the two | 908 616 |
| `agent` | who counts as heard; endpoints; sockets of probes | threshold 2, thawed by the second tick, 2 reads at a time, 2 orders, 1 failed read; 2 addresses, 2 tasks, 2 moves, 1 restart; 2 other peers, 2 sockets each | 390 954 |
| `host` | addresses, keys; do agents with their files run; is the binary always good, is an exit an update | 2 agents, aligned and unaligned subnets of 4 and 8, 2 faults; 3 overlapping updates, failures, 2 kills | 112 483 |
| `clients` | session, page, memo, rate limit | 3 requests, 2 faults; 2 loads and 2 edits at a time, 3 changes; 2 posts at a time; a window of 4 instants | 285 800 |
| `open_is_registered` | is every connected peer registered | 2 sockets a peer | violated |
| `restore_after_fault` | `mesh_restore` with one fault | socket lost or agent restarted | violated |
| `separate_interfaces` | has no interface two peers | 2 peers, 1 poll, 1 peer leaves, 1 failure | violated |

**What they show.**

- `TimerOwnership` is what makes the timeouts sound, which find their negotiation
  by pair and not by identity: the armed ones are exactly those of the active
  negotiations, at every moment.
- `EndIsAnnounced` and `ProbeStateAccounted` are the two halves of one promise:
  the server tells each connected peer of the end of a negotiation in the step
  that ends it, and so an agent is frozen only while the negotiation runs, its end
  is under way, or the socket is closing. `FrozenEnds` is the consequence:
  `FROZEN_TIMEOUT_MS` is needed only for what the model excludes, a registry that
  lost an open socket (`OpenIsRegistered`) and a peer that the reaper took.
- `ImplementsPairFailover` says that the races of timeouts, late results and
  administrators never give the two agents of a pair different verdicts.
- `SettledModesAgree` holds as long as nothing fails, whatever arrives late. One
  lost verdict is enough to split a pair for good (`restore_after_fault`).
- `IfNamesDistinct` needs no assumption on polls and crashes; `PortsDistinct`,
  `OnePeerPerInterface` and `Converges` hold of polls one after another of an agent
  that is not stopped, whatever reports are lost and whichever commands fail, with one
  exception: an interface that cannot be deleted is forgotten. `OnePeerPerInterface` says that nobody but the
  peers removed in that way is ever left in an interface of another, `Converges` that the interfaces match in the end if
  there are no such peers, and `separate_interfaces` shows what becomes of the name.
- `RelaysReachInterfaces` has two parts. Across crashes a proxy, which never looks at its port again, sends to
  the port the agent has for the peer. As long as the agent was not stopped, it also sends to the port at which the
  kernel has the peer's interface; an agent that was stopped without its mappings may draw another port while a set-up
  that is refused leaves the interface at the earlier one.
- `DirectEndpointRestored`: whatever polls and switches leave behind, the next poll
  repairs the endpoint of a peer in direct mode. Nothing repairs that of a
  peer in relay mode, so `RelayIsUsed` takes polls and switches that do not overlap.
- `DeadIsCounted`, `SilenceDetected`, `HeardAgain`: the cache that ticks and reports
  share, reads that overlap or fail, switches and a probe whose end was lost delay the judgement and do
  not spoil it.
- `OthersRun` excludes agents whose name is taken by a registration they have no
  id of (`Orphaned`) and those whose peer was deleted (`Forgotten`); all others run in the end.
- `BinaryStarts` is about crashes at any point of an update, `ExitsUpdated` also about
  updates that overlap.
- `ShowsTheServer` holds although the last load to *end* wins: the next load of the timer
  corrects it.
- `LonePostSyncs`: a post of a memo that came when no other PATCH was on its way heals
  what earlier ones left, whether they overlapped, failed, or timed out and were stored late.

**Bounds.** Two peers are enough for the failover runs, since no handler relates two
pairs but for the ones that clean up after a peer (`WsClose`, `Reap`,
`DeletePeer`, a report of several peers), and the theorems cover these for any
number. Threshold 2 with streaks to 3 makes unequal streaks possible when a probe
begins, which choose the server node; the mesh uses 1, where every dead
report counts. Two sockets of one
peer are what the registry's race needs (`OneReconnects` gives them to one).
`MaxBacklog` bounds what is left of earlier negotiations when a probe begins and
stops no message of one that runs; with 1, a late result, ready or task meets the
next negotiation. `MaxFaults` counts losses of sockets, restarts and forced modes.
`View` leaves out what the last step pushed, which decides nothing in these runs.
`FewReports` bounds the reports of the mesh: one is under way at a time, and a path
is reported alive only when the server can count no more dead reports of it (with
`MaxStreak` 1, the reports left out are of a path whose streak is 0 already: they
would reset nothing). `mesh`, `mesh_modes_agree` and `restore_after_fault` leave out the safety
net of `tick` (`SafetyNetUnused`), which could only hide a peer left frozen.
For the reconciler three peers let one leave and another take its interface and port
while a third keeps them; two polls are the least that overlap; `FewMembers` keeps the product of these
small: where a departure or a change of a key and a failure meet, two peers are members at a time, who may be followed by a third; where the agent
is stopped there are two peers and one of the two (`Converges` is about agents that are not stopped). Two reads let an older one end after a newer one. In `host` a
subnet of 4 is full with two agents, and one of 8 is not. Two tasks are a switch and a poll, or
two of either; a restart in between leaves the kernel's endpoint of before.

**Fairness.** `Negotiator` assumes that an armed timeout runs, which is what
`setTimeout` promises, and nothing of agents, network or sweep. `Mesh` assumes in
addition that messages on an open socket arrive, that what is awaited comes back
(the fetch and the exchange of nonces carry 3 s limits of their own), that each
end notices the other's close (`idleTimeout`, `WS_STALE_MS`), and that agents
reconnect and poll. `mesh_restore` adds that agents report and the sweep comes
round (`Monitored`; the code reports every 3 s whatever others do, while
`FewReports` makes one agent wait for another, hence strong fairness of reports).
`Reconciler` and `EndpointSync` assume that commands and requests end and that the timer
polls on (`setInterval`); `Monitor` that the timer ticks, strongly, since it ticks whether or not
there is room for one more read at other moments, and that some read ends while any runs. `Registration`
assumes that an agent that ended is started again, as the service manager does, and goes on;
`Session`, `Dashboard` and `RateLimiter` that requests are answered and timers run, and the
dashboard's edits end (strongly, since a removal waits for a free load). The safety net of `tick` is
never assumed.

Deadlock is checked in every run but `host`, where the system may rest: within the bounds nothing is left to
boot or to update.

## Known disagreements

Three runs end in a violation: `open_is_registered`, `restore_after_fault` and `separate_interfaces`.
`PROJECT.json` quotes what the repository says of each under `findings`. In short: the close of an older socket unregisters
a newer one (`server/src/relay.ts:95`); a lost verdict splits a pair for good (`server/src/negotiate.ts:338`); an interface
whose `ip link delete` fails is forgotten, and its name given to another peer, which is added to the one inside
(`agent/src/awg.ts:176`, `reconciler.ts:145`). The following were seen with the models
as well; here the properties are stated with the condition that excludes them, or
not stated.

- Two memo posts that overlap, both answered with success, may leave agent and server with different memos
  (`agent/src/observer.ts:86`); so may, one after the other, a post that timed out and is stored after the next one.
- A pair forced before its agents have reported has no row to keep the mode in
  (`server/src/negotiate.ts:514`); when one of two rows is forced, a restarted server may read
  the other (`:207`).
- A force-mode message for an agent that is not connected is dropped and not sent again
  (`server/src/negotiate.ts:524`); one that comes before the first poll finds no state to
  switch (`agent/src/negotiate.ts:37`).
- Overlapping polls (`agent/src/index.ts:180`) may remember a port that has been given to
  another peer, or set up an interface for a peer that the other poll has removed.
- An agent that stops between making an interface and saving its mapping forgets it
  (`agent/src/reconciler.ts:153`); it may then draw a port for a peer that its interface does not listen on until
  a set-up succeeds.
- A relay port is the base plus the peer's place in the list (`agent/src/relay-proxy.ts:66`):
  it may be in use by an older entry, and each poll ends there.
- A report of more than 100 ports is refused (`server/src/api.ts:371`), and the poll ends.
- A subnet written with host bits hands out addresses outside of it
  (`server/src/subnet.ts:34`).
- A key file that a crash cut short is taken for a key (`agent/src/awg.ts:33`).
- An agent whose registration was answered, but which did not save the id, finds its own name taken
  for ever (`agent/src/index.ts:115`).
- Two updates at once use one temporary file (`agent/src/index.ts:262`).
- A switch of a peer to the relay that overtakes a poll is undone by it in the kernel
  (`agent/src/reconciler.ts:121`), and the mode remains.
- The TCP server of one probe is forgotten when another probe starts its own
  (`agent/src/negotiate.ts:109`); a UDP bind that ends after its probe leaves a socket open (`:187`).
- A relayed frame between the read of the statistics and the draining of the marks makes a dead
  direct path look alive for a tick (`agent/src/monitor.ts:130`).
- An answer to a request sent before a logout shows the dashboard until the next refusal
  (`frontend/src/composables/useApi.ts:56`).
- `server/src/index.ts:165` calls `stopStaleSweep` at shutdown without importing it.

## What is proved

Every invariant, action property and refinement that a passing run checks is proved as well, for any
sets of peers, agents, polls and updates and any bounds, from the named assumptions on the constants.
Where a theorem needs more, it says so: three about the reconciler need one poll at a time.

Each inductive invariant below was checked by TLC on the bounds of the runs before it was proved.

`SetLemmas` has the lemmas about the library's operators that several proofs share: a nonempty set of
naturals has a least member (`Min`, which `FreeIndex` and `AllocateIp` use), and `SetToSeq` of a
finite set is a sequence of its members, each of them once (the pushes of one step, queued).

### The server: `NegotiatorProofs`

- `TypesHold`: `Spec => []TypeOK`, foreign keys of `peer_links` included;
- `TimeoutsAreOwned`: `Spec => []TimerOwnership`;
- `NegotiatorsArePresent`, `ActivePairsHaveHealth`: `Spec => []ActivePeersConnected`, `[]ActiveHasHealth`;
- `ForcedPairsAreNotProbed`: `Spec => []RelayProbeNotForced`;
- `EndsAreAnnounced`: `Spec => EndIsAnnounced`;
- `NegotiatorImplementsPairFailover`: `Spec => ImplementsPairFailover`.

All rest on one inductive invariant, `IInv`. Most of its parts are not inductive
alone: that the timeout which runs is the one of the pair's negotiation needs
`TimerOwnership`; that the end is told to both peers by a push, which drops what
is for an unregistered peer, needs `ActivePeersConnected`; that an ended relay
probe has streaks to reset, and that the cached mode of an active probe is
defined, needs `ActiveHasHealth`. The proof has one lemma per action; the timeouts,
the aborts and the verdicts share lemmas about `Lifecycle`, the one operator that
begins and ends negotiations, and about `Push`. `EndsAreAnnounced` is an action
property, from `IInv` and one case per action. The refinement maps the initial state to
an initial state, and each step, given `IInv`, to a step or a stutter of `PairFailover`: only since
both peers of an active negotiation are registered is an outcome that was sent one that both were told.

### Server, agents and sockets: `MeshProofs`

- `AgentsAreTyped`: an agent has no state of itself and sends only of others;
- `MeshImplementsNegotiator`: `MeshSpec => Spec`, and from it `MeshInheritsSafety`, `MeshAnnouncesEnds` and
  `MeshImplementsPairFailover`: the theorems above, in the mesh;
- `MeshTypesHold`: `MeshSpec => []MeshTypeOK`;
- `HeldIsAccounted`: `MeshSpec => []ProbeStateAccounted`;
- `SettledAgree`: `MeshSpec => [](faults = 0 => SettledModesAgree)`.

The refinement is the identity on the variables the two share; what has to be
shown is that every message an agent can have queued is one that `Negotiator`
allows as the input of a handler, which is `AgentsTyped`.

`HeldIsAccounted` rests on `DueInv`. What an agent holds is not all that can come to be held: a start or
a go that is still queued will freeze the agent when it is read, and by then its negotiation may be over. So the
invariant says of every queued message that begins something, and of everything held, that the
negotiation is active, or that a message which releases it comes *later in the queue*, or that the server's end of the
socket is gone. That the end is told in the step that ends a negotiation, and behind what began it, is what
makes it inductive.

`SettledAgree` rests on `AgreeInv`, an invariant of the modes *to come*: the mode each
agent will have when it has read what is queued and finished its switches. These agree for
every pair at all times, settled or not, since both agents are told one verdict in one step; that
results of earlier negotiations arrive late does not matter, because only the server turns results into
verdicts. The theorem is about states with `faults = 0`, as the run `mesh_modes_agree` is: a lost socket
loses one of the two verdicts (`restore_after_fault`).

### The reconciler: `ReconcilerProofs`

- `InterfacesAreDistinct` (`[]IfNamesDistinct`), `ReconcilerTypesHold`: for any number of overlapping polls;
- `RelaysFollowPorts` (`[]RelaysReachInterfaces`), `PortsAreApart` (`[]PortsDistinct`), `PeersAreApart`
  (`[]OnePeerPerInterface`): with one poll at a time (`ASSUME Polls = {a}`).

`IfNamesInv` adds the writes under way to `IfNamesDistinct`: what is being saved is injective as well,
since a crash may leave any of them on disk. `PollInv` relates the one poll's snapshots to what it read them from:
who has not joined is known to nobody; a member that has an interface is in the poll's configuration, and a peer whose
interface could not be deleted is no member; the ports the poll was told and
those it will report are the rows' and the map's; a peer it has handled, and a peer with a relay, has one port and the server knows no
other. While nothing has stopped the agent, also: no two peers have one port, what the server or the poll knows of a port is what
the map has, an interface listens on its peer's port of the map, and it holds only peers
that are mapped to it and those of `kept`. These hold whichever commands fail, since each failure leaves an interface as it was
or as the map says. The theorems say what the properties say: until the first stop of the agent, and for the proxies
(against the agent's own map) after it as well. Its hypothesis is needed: two overlapping polls do draw one port for two peers or add a peer to
an interface that the other removes (see *Known disagreements*), so the three properties are false without it.

### Boot, addresses, updates: `RegistrationProofs`, `SelfUpdateProofs`

- `AddressesAreDistinct`, `AddressesAreHosts` (`[]AddressesInSubnet`), `PublishedKeysAreOwn`, `RegistrationTypesHold`;
- `BinaryAlwaysStarts` (`BinaryStarts`), `ExitsAreUpdates` (`ExitsUpdated`).

`PublishedInv` follows a key from its generation over the two files, the memory and the request that waits
to the row, with one case per step of the boot; that the other agents' rows are untouched needs that no two
agents have one id. `RowsInv` adds that an address was allocated in the subnet as it is now (the
administrator makes a new one only when the old is gone with its peers), that names are unique and that keys were made.
`AddressesAreHosts` uses that a subnet's size divides the address space, so that an aligned one does not wrap; no
backend knows the laws of powers, so the assumption states that and not that both are powers of two.

The theorems about updates are of `HostSpec`, the specification of the run `host`. `BinaryAlwaysStarts` is proved with `OneByOne` as a temporal assumption: the file that is
renamed is the one the only update has written whole and marked. `ExitsAreUpdates` needs no such assumption.

### An agent's other parts, and the clients: `AgentProofs`, `ClientsProofs`

- `DeathIsCounted` (`[]DeadIsCounted`), from the range of the counter;
- `HeldServerIsProbing` (`[]HeldServerProbes`), `SocketsAreReleased` (`[]UdpReleased`): from `SocketsInv`, in which the sockets
  and the binds of a peer together are one at most, and there is one only while its probe is on;
- `RelaysAreUsed` (`RelayIsUsed`), with `Serially` as a temporal assumption: `PathInv` says what each task knows, from its
  place on: a poll that found no interface is one of a peer that is not on the relay, another has decided to skip the
  endpoint of a peer that is; only between the two steps of a switch does the kernel differ from the mode;
- `OnlyAcceptedIsStored` (`[]StoredIsAccepted`);
- `BurstsAreBounded` (`[]BurstIsBounded`): `RateInv` bounds what was served in the last *i* instants for every *i*, by the
  window that is on as far as it reaches back, and by it and the limit beyond; a window that has passed
  with nothing served since is what makes a third one impossible;
- `LonePostsSync` (`[]LonePostSyncs`): by `MemoInv` only the post that came alone can have its PATCH on the way, until the
  next post, and what the agent has is its memo.

These are theorems about `AgentSpec` and `ClientsSpec`, the specifications of the runs `agent` and `clients`. The parts
share no variable: a step of one leaves the others' invariants.

### What is only model-checked

Liveness: `NegotiationEnds`, `FrozenEnds`, `RestoreAttempted`, `Converges`, `OthersRun`,
`SilenceDetected`, `HeardAgain`, `DirectEndpointRestored`, `LoginIsShown`, `ShowsTheServer`, `ServedAgain`. All of them
rest on fairness, and so on ENABLED, which the prover does not reason about. The three runs
that end in a violation are counterexamples and prove nothing more.

## Not modelled

- The bytes of relay frames and the heartbeat (`server/src/relay.ts`, `shared/src/protocol.ts`): they keep no
  state of the server; what a frame does to an agent's counters is in `Monitor`.
- The precheck, the detection of the public address, options and logging of the agent
  (`agent/src/index.ts`); routing tables, sysctl and the parsing of the tools' output
  (`agent/src/awg.ts`): sequences of commands whose effect is outside of this code.
- The authentication of the upgrade, static files (`server/src/index.ts`), migrations (`server/src/db.ts`), the
  routes that only read (`links`, `tokens`).
- The markup, sorting and formatting of the frontend. `Networks.vue` loads and edits as `NetworkDetail.vue`
  does. Whole keys, and so a peer's second key in its interface (`agent/src/awg.ts:152`).
- Time: periods are not compared with each other, so a claim like "the backoff is doubled" is not made.
- The interaction of `Monitor`, `EndpointSync` and `ProbeResources` with each other, except where `Mesh`
  has them reduced to what the negotiation sees.
