---------------------------- MODULE Registration ----------------------------
(***************************************************************************)
(* How agents become peers of a network: boot and its files on the agents' *)
(* side (packages/agent/src: index.ts, awg.ts, client.ts), the peers of    *)
(* the network and the allocation of their addresses on the server's       *)
(* (packages/server/src: api.ts, subnet.ts, db.ts).                        *)
(*                                                                         *)
(* Every query names its network, so that one network is enough.  A host   *)
(* runs one agent under one name; whatever makes the agent stop, it is     *)
(* started again.  A key pair is a number; the public key of n is n.       *)
(***************************************************************************)
EXTENDS Integers, FiniteSets, FiniteSetsExt, Functions

CONSTANTS
    Agents,      \* the hosts, by the names their agents register with
    Subnets,     \* the subnets networks are made with: written address, totalHosts
    AddressSpace,\* how many addresses there are (IPv4: 2^32)
    MaxRows,     \* bound: peers that are ever registered
    MaxKeys,     \* bound: key pairs that are ever made
    MaxFaults    \* bound: crashes and lost answers

CONSTANTS None, Torn
ASSUME SubnetsAssumption ==
    /\ AddressSpace \in Nat
    /\ Subnets \subseteq [base : 0 .. AddressSpace - 1, size : 1..AddressSpace]
    /\ \A s \in Subnets : AddressSpace % s.size = 0 \* both are powers of two
ASSUME RegistrationBounds ==
    MaxRows \in Nat /\ MaxKeys \in Nat /\ MaxFaults \in Nat
ASSUME NoFileIsAValue == None # Torn /\ {None, Torn} \intersect (Nat \union Subnets) = {}

VARIABLES
    subnet,  \* the subnet of the network, None when there is no such network
    peers,   \* the network's rows of the peers table: id -> name, address, key
    lastId,  \* ids are never given again
    pc,      \* where each agent is in boot
    disk,    \* each agent's files: privatekey, pubkey, state.json
    memory,  \* each agent's key pair and peer id
    keys,    \* how many key pairs were made
    faults   \* how many faults there were

vars == <<subnet, peers, lastId, pc, disk, memory, keys, faults>>

Contents(priv, pub, id) == [priv |-> priv, pub |-> pub, id |-> id]
Empty == Contents(None, None, None)

At(a, l) == pc[a] = l
Goto(a, l) == pc' = [pc EXCEPT ![a] = l]
Keep(a, m) == memory' = [memory EXCEPT ![a] = m]
Knowing(a, id) == Contents(memory[a].priv, memory[a].pub, id)
Exit(a) == Goto(a, "down") /\ Keep(a, Empty)
Write(a, files) == disk' = [disk EXCEPT ![a] = files]
Fault == faults < MaxFaults /\ faults' = faults + 1

-----------------------------------------------------------------------------
(* The server.                                                             *)

CreateNetwork(s) ==
    /\ subnet = None /\ lastId = 0
    /\ subnet' = s
    /\ UNCHANGED <<peers, lastId, pc, disk, memory, keys, faults>>

\* Its peers go with it (ON DELETE CASCADE).
DeleteNetwork ==
    /\ subnet # None
    /\ subnet' = None
    /\ peers' = <<>>
    /\ UNCHANGED <<lastId, pc, disk, memory, keys, faults>>

\* By the administrator, or by the reaper.
DeletePeer(i) ==
    /\ i \in DOMAIN peers
    /\ peers' = Restrict(peers, DOMAIN peers \ {i})
    /\ UNCHANGED <<subnet, lastId, pc, disk, memory, keys, faults>>

Addresses == {peers[i].ipv4 : i \in DOMAIN peers}
Names == {peers[i].name : i \in DOMAIN peers}

\* A deviation: the hosts are counted from the address of the network.
Hosts_WithNetwork(s) == 0 .. s.size - 2

\* The hosts of a subnet, counted from the address it was written with.
Hosts(s) == 1 .. s.size - 2
Address(s, host) == (s.base + host) % AddressSpace
FreeHosts == IF subnet = None THEN {}
             ELSE {h \in Hosts(subnet) : Address(subnet, h) \notin Addresses}

\* A deviation: as many hosts are passed over as there are peers.
AllocateIp_ByCount == Address(subnet, Cardinality(DOMAIN peers) + 1)

\* allocateIp: the first one that no peer of the network has.
AllocateIp == Address(subnet, Min(FreeHosts))

\* A deviation: nobody asks whether the name is taken.
Refuses_NameAllowed(a) == FreeHosts = {}

\* POST /api/peers refuses: no network (404), so no address, or none that is free,
\* or the name is taken (409).
Refuses(a) == FreeHosts = {} \/ a \in Names

\* ... or adds a row, in one synchronous step.
Register(a) ==
    /\ ~Refuses(a) /\ lastId < MaxRows
    /\ lastId' = lastId + 1
    /\ peers' = [i \in DOMAIN peers \union {lastId'} |->
                    IF i = lastId' THEN [name |-> a, ipv4 |-> AllocateIp, pubkey |-> memory[a].pub]
                                   ELSE peers[i]]

\* PATCH /api/peers/:id
UpdatePeer(a) ==
    /\ memory[a].id \in DOMAIN peers
    /\ peers' = [i \in DOMAIN peers |->
                    IF i = memory[a].id
                    THEN [name |-> peers[i].name, ipv4 |-> peers[i].ipv4, pubkey |-> memory[a].pub]
                    ELSE peers[i]]

-----------------------------------------------------------------------------
(* An agent's boot.                                                        *)

Start(a) ==
    /\ At(a, "down")
    /\ Goto(a, "keys")
    /\ UNCHANGED <<subnet, peers, lastId, disk, memory, keys, faults>>

\* A file that was cut short reads as an empty key.
Key(content) == IF content = Torn THEN 0 ELSE content

HasKeys(a) == disk[a].priv # None /\ disk[a].pub # None

LoadKeypair(a) ==
    /\ At(a, "keys") /\ HasKeys(a)
    /\ Keep(a, Contents(Key(disk[a].priv), Key(disk[a].pub), None))
    /\ Goto(a, "load")
    /\ UNCHANGED <<subnet, peers, lastId, disk, keys, faults>>

GenerateKeypair(a) ==
    /\ At(a, "keys") /\ ~HasKeys(a) /\ keys < MaxKeys
    /\ keys' = keys + 1
    /\ Keep(a, Contents(keys', keys', None))
    /\ Goto(a, "write privatekey")
    /\ UNCHANGED <<subnet, peers, lastId, disk, faults>>

\* A deviation: a private key that is there already is not written again.
WritePrivateKey_Once(a) ==
    /\ At(a, "write privatekey")
    /\ IF disk[a].priv = None THEN Write(a, Contents(memory[a].priv, disk[a].pub, disk[a].id)) ELSE UNCHANGED disk
    /\ Goto(a, "write pubkey")
    /\ UNCHANGED <<subnet, peers, lastId, memory, keys, faults>>

WritePrivateKey(a) ==
    /\ At(a, "write privatekey")
    /\ Write(a, Contents(memory[a].priv, disk[a].pub, disk[a].id))
    /\ Goto(a, "write pubkey")
    /\ UNCHANGED <<subnet, peers, lastId, memory, keys, faults>>

WritePublicKey(a) ==
    /\ At(a, "write pubkey")
    /\ Write(a, Contents(disk[a].priv, memory[a].pub, disk[a].id))
    /\ Goto(a, "load")
    /\ UNCHANGED <<subnet, peers, lastId, memory, keys, faults>>

\* A deviation: what is not JSON makes boot throw.
LoadPeerId_Throws(a) ==
    /\ At(a, "load")
    /\ \/ disk[a].id = None /\ Goto(a, "register") /\ UNCHANGED memory
       \/ disk[a].id = Torn /\ Exit(a)
       \/ disk[a].id \notin {None, Torn} /\ Goto(a, "update") /\ Keep(a, Knowing(a, disk[a].id))
    /\ UNCHANGED <<subnet, peers, lastId, disk, keys, faults>>

\* What is not JSON counts as no id.
LoadPeerId(a) ==
    /\ At(a, "load")
    /\ IF disk[a].id \in {None, Torn}
       THEN Goto(a, "register") /\ UNCHANGED memory
       ELSE Goto(a, "update") /\ Keep(a, Knowing(a, disk[a].id))
    /\ UNCHANGED <<subnet, peers, lastId, disk, keys, faults>>

Registered(a) ==
    /\ At(a, "register")
    /\ Register(a)
    /\ Keep(a, Knowing(a, lastId'))
    /\ Goto(a, "write state")
    /\ UNCHANGED <<subnet, disk, keys, faults>>

SavePeerId(a) ==
    /\ At(a, "write state")
    /\ Write(a, Contents(disk[a].priv, disk[a].pub, memory[a].id))
    /\ Goto(a, "running")
    /\ UNCHANGED <<subnet, peers, lastId, memory, keys, faults>>

Updated(a) ==
    /\ At(a, "update")
    /\ UpdatePeer(a)
    /\ Goto(a, "running")
    /\ UNCHANGED <<subnet, lastId, disk, memory, keys, faults>>

\* The server says no, boot throws, and the process exits.
BootFails(a) ==
    /\ \/ At(a, "register") /\ Refuses(a)
       \/ At(a, "update") /\ memory[a].id \notin DOMAIN peers
    /\ Exit(a)
    /\ UNCHANGED <<subnet, peers, lastId, disk, keys, faults>>

\* No answer in 15 s: the server may have done what it was asked for.
AnswerLost(a) ==
    /\ Fault /\ Exit(a)
    /\ \/ At(a, "register") /\ (Register(a) \/ UNCHANGED <<peers, lastId>>)
       \/ At(a, "update") /\ (UpdatePeer(a) \/ UNCHANGED peers) /\ UNCHANGED lastId
    /\ UNCHANGED <<subnet, disk, keys>>

\* What the files hold when the agent stops in the middle of a write.
CutShort(a) ==
    CASE At(a, "write privatekey") -> Contents(Torn, disk[a].pub, disk[a].id)
      [] At(a, "write pubkey")     -> Contents(disk[a].priv, Torn, disk[a].id)
      [] At(a, "write state")      -> Contents(disk[a].priv, disk[a].pub, Torn)
      [] OTHER                     -> disk[a]

Crash(a) ==
    /\ ~At(a, "down")
    /\ Fault /\ Exit(a)
    /\ UNCHANGED disk \/ Write(a, CutShort(a))
    /\ UNCHANGED <<subnet, peers, lastId, keys>>

Boot(a) ==
    \/ Start(a) \/ LoadKeypair(a) \/ GenerateKeypair(a)
    \/ WritePrivateKey(a) \/ WritePublicKey(a)
    \/ LoadPeerId(a) \/ Registered(a) \/ SavePeerId(a) \/ Updated(a) \/ BootFails(a)

Init ==
    /\ subnet = None /\ peers = <<>> /\ lastId = 0
    /\ pc = [a \in Agents |-> "down"]
    /\ disk = [a \in Agents |-> Empty] /\ memory = [a \in Agents |-> Empty]
    /\ keys = 0 /\ faults = 0

Next ==
    \/ \E s \in Subnets : CreateNetwork(s)
    \/ DeleteNetwork
    \/ \E i \in DOMAIN peers : DeletePeer(i)
    \/ \E a \in Agents : Boot(a) \/ AnswerLost(a) \/ Crash(a)

\* The process manager starts the agent whenever it has exited; boot goes on.
Spec == Init /\ [][Next]_vars
FairSpec == Spec /\ \A a \in Agents : WF_vars(Boot(a))
-----------------------------------------------------------------------------
(* Properties.                                                             *)

\* Type correctness of the rows, whose names are unique, and of the files.
RegistrationTypeOK ==
    /\ Cardinality(Names) = Cardinality(DOMAIN peers)
    /\ subnet \in Subnets \union {None}
    /\ lastId \in Nat /\ DOMAIN peers \subseteq 1..lastId
    /\ \A i \in DOMAIN peers : peers[i].name \in Agents
                            /\ peers[i].ipv4 \in 0 .. AddressSpace - 1 /\ peers[i].pubkey \in 0..keys
    /\ keys \in Nat /\ faults \in Nat
    /\ \A a \in Agents : disk[a].id \in 1..lastId \union {None, Torn}

\* No two peers of a network have one mesh address, though the table does not
\* say so: the address is looked for and stored without an await in between.
AddressesDistinct ==
    \A i, j \in DOMAIN peers : peers[i].ipv4 = peers[j].ipv4 => i = j

\* Every address is a host address of the subnet, neither its first nor its last
\* (subnet.ts:25 "Allocate the next free /32 IP from a network's subnet. Skips .0
\* (network) and broadcast"), if the subnet is written by its first address.
Aligned(s) == s.base % s.size = 0
HostAddresses(s) == s.base + 1 .. s.base + s.size - 2
AddressesInSubnet ==
    subnet # None /\ Aligned(subnet) =>
        \A i \in DOMAIN peers : peers[i].ipv4 \in HostAddresses(subnet)

Running(a) == At(a, "running")
Whole(a) == Torn \notin {disk[a].priv, disk[a].pub}

\* The key that the others are told of an agent that runs is the public key of
\* the private key it uses, wherever its earlier boots were cut short; the only
\* exception is an agent whose key files themselves were.
PublishedKeyIsOwn ==
    \A a \in Agents : Running(a) /\ Whole(a) /\ memory[a].id \in DOMAIN peers =>
        peers[memory[a].id].pubkey = memory[a].priv /\ memory[a].priv # 0

\* An agent is orphaned when the network has a peer of its name whose id it does
\* not know, and forgotten when it knows an id the network does not have.
Orphaned(a) == a \in Names /\ \A i \in DOMAIN peers :
                  peers[i].name = a => i \notin {disk[a].id, memory[a].id}
Forgotten(a) == disk[a].id \in Nat \ DOMAIN peers
Welcome(a) == subnet # None /\ (a \in Names \/ FreeHosts # {}) /\ lastId < MaxRows /\ keys < MaxKeys

\* These are the only ways for an agent to stay out: every other one runs in the
\* end, whatever faults its boots had.
OthersRun == \A a \in Agents :
    <>[](Welcome(a) /\ ~Orphaned(a) /\ ~Forgotten(a)) => <>[]Running(a)

=============================================================================
