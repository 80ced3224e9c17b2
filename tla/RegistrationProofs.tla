------------------------- MODULE RegistrationProofs -------------------------
(***************************************************************************)
(* What is proved of Registration, for any agents and any subnets.         *)
(*                                                                         *)
(* The addresses of a network are distinct (NetworkInv).  Unless one of    *)
(* its key files was cut short, the key the others are told of an agent is *)
(* the one it uses: this needs to know what the files hold at each place   *)
(* of boot, and that an id an agent holds is never another's               *)
(* (PublishedInv).  And the rows are well typed, with unique names, keys   *)
(* that were made and addresses that are hosts of the subnet (RowsInv).    *)
(***************************************************************************)
EXTENDS Registration, SetLemmas

NetworkInv ==
    /\ subnet \in Subnets \union {None}
    /\ lastId \in Nat
    /\ \A i \in DOMAIN peers : i \in 1..lastId
    /\ AddressesDistinct

-----------------------------------------------------------------------------
\* allocateIp: the address it finds is nobody's.
LEMMA AllocatedIsFree ==
    ASSUME FreeHosts # {}, subnet \in Subnets \union {None}
    PROVE  AllocateIp \notin Addresses
<1>1. subnet # None
  BY DEF FreeHosts
<1>2. FreeHosts = {h \in Hosts(subnet) : Address(subnet, h) \notin Addresses}
  BY <1>1 DEF FreeHosts
<1>3. FreeHosts \in SUBSET Nat
  BY <1>2 DEF Hosts
<1>4. Min(FreeHosts) \in FreeHosts
  BY <1>3, MinIsMember
<1> QED
  BY <1>2, <1>4 DEF AllocateIp

\* POST /api/peers adds one row, under a new id.
LEMMA RegisterKeepsAddresses ==
    ASSUME NetworkInv, NEW a \in Agents, Register(a), UNCHANGED subnet
    PROVE  NetworkInv'
<1> DEFINE row == [name |-> a, ipv4 |-> AllocateIp, pubkey |-> memory[a].pub]
<1>1. lastId' = lastId + 1 /\ lastId' \notin DOMAIN peers
  BY DEF Register, NetworkInv
<1>2. /\ DOMAIN peers' = DOMAIN peers \union {lastId'}
      /\ peers'[lastId'].ipv4 = AllocateIp
      /\ \A i \in DOMAIN peers : peers'[i] = peers[i]
  BY <1>1 DEF Register
<1>3. AllocateIp \notin Addresses
  BY AllocatedIsFree DEF Register, Refuses, NetworkInv
<1>4. \A i \in DOMAIN peers : peers'[i].ipv4 \in Addresses
  BY <1>2 DEF Addresses
<1>5. AddressesDistinct'
  <2> SUFFICES ASSUME NEW i \in DOMAIN peers', NEW j \in DOMAIN peers',
                      peers'[i].ipv4 = peers'[j].ipv4
               PROVE  i = j
    BY DEF AddressesDistinct
  <2>1. CASE i \in DOMAIN peers /\ j \in DOMAIN peers
    BY <2>1, <1>2 DEF NetworkInv, AddressesDistinct
  <2>2. CASE i = lastId' \/ j = lastId'
    BY <2>2, <1>2, <1>3, <1>4
  <2> QED
    BY <2>1, <2>2, <1>2
<1> QED
  BY <1>1, <1>2, <1>5 DEF NetworkInv

\* PATCH /api/peers/:id writes a key into a row.
LEMMA UpdateKeepsRows ==
    ASSUME NEW a \in Agents, UpdatePeer(a)
    PROVE  /\ DOMAIN peers' = DOMAIN peers
           /\ \A i \in DOMAIN peers :
                 /\ peers'[i].ipv4 = peers[i].ipv4
                 /\ peers'[i].name = peers[i].name
BY DEF UpdatePeer

\* Every step keeps the addresses distinct.
LEMMA NetworkStep == NetworkInv /\ [Next]_vars => NetworkInv'
<1> SUFFICES ASSUME NetworkInv, [Next]_vars PROVE NetworkInv'
  OBVIOUS
<1>1. ASSUME NEW s \in Subnets, CreateNetwork(s) PROVE NetworkInv'
  BY <1>1 DEF CreateNetwork, NetworkInv, AddressesDistinct
<1>2. CASE DeleteNetwork
  BY <1>2 DEF DeleteNetwork, NetworkInv, AddressesDistinct
<1>3. ASSUME NEW i \in DOMAIN peers, DeletePeer(i) PROVE NetworkInv'
  BY <1>3 DEF DeletePeer, NetworkInv, AddressesDistinct, Restrict
<1>4. ASSUME UNCHANGED <<subnet, peers, lastId>> PROVE NetworkInv'
  BY <1>4 DEF NetworkInv, AddressesDistinct
<1>5. ASSUME NEW a \in Agents, UpdatePeer(a), UNCHANGED <<subnet, lastId>> PROVE NetworkInv'
  BY <1>5, UpdateKeepsRows DEF NetworkInv, AddressesDistinct
<1>6. ASSUME NEW a \in Agents, Boot(a) \/ AnswerLost(a) \/ Crash(a) PROVE NetworkInv'
  <2>1. CASE Registered(a)
    BY <2>1, RegisterKeepsAddresses DEF Registered
  <2>2. CASE Updated(a)
    BY <2>2, <1>5 DEF Updated
  <2>3. CASE AnswerLost(a)
    <3>1. CASE UNCHANGED <<peers, lastId>>
      BY <3>1, <2>3, <1>4 DEF AnswerLost
    <3>2. CASE Register(a)
      BY <3>2, <2>3, RegisterKeepsAddresses DEF AnswerLost
    <3>3. CASE UpdatePeer(a) /\ UNCHANGED lastId
      BY <3>3, <2>3, <1>5 DEF AnswerLost
    <3> QED
      BY <2>3, <3>1, <3>2, <3>3 DEF AnswerLost
  <2>4. CASE \/ Start(a) \/ LoadKeypair(a) \/ GenerateKeypair(a) \/ WritePrivateKey(a)
             \/ WritePublicKey(a) \/ LoadPeerId(a) \/ SavePeerId(a) \/ BootFails(a) \/ Crash(a)
    BY <2>4, <1>4 DEF Start, LoadKeypair, GenerateKeypair, WritePrivateKey, WritePublicKey,
       LoadPeerId, SavePeerId, BootFails, Crash
  <2> QED
    BY <1>6, <2>1, <2>2, <2>3, <2>4 DEF Boot
<1>7. CASE UNCHANGED vars
  BY <1>7, <1>4 DEF vars
<1> QED
  BY <1>1, <1>2, <1>3, <1>6, <1>7 DEF Next

\* No two peers of a network ever have one mesh address (allocateIp and the INSERT
\* of POST /api/peers).
THEOREM AddressesAreDistinct == Spec => []AddressesDistinct
<1>1. Init => NetworkInv
  BY DEF Init, NetworkInv, AddressesDistinct
<1>2. NetworkInv => AddressesDistinct
  BY DEF NetworkInv
<1> QED
  BY <1>1, <1>2, NetworkStep, PTL DEF Spec

-----------------------------------------------------------------------------
(* The key that is published.                                              *)

Secret(m) == m.priv = m.pub /\ m.priv \in Nat \ {0}

Contained == Nat \union {None, Torn}
Files == [priv : Contained, pub : Contained, id : Contained]
Places == {"down", "keys", "write privatekey", "write pubkey", "load", "register",
           "write state", "update", "running"}
Holding == {"load", "register", "write state", "update", "running"}

\* An id that an agent holds was given, and is no other agent's.
OwnId(a, i) == i \notin {None, Torn} => i \in 1..lastId /\ (i \in DOMAIN peers => peers[i].name = a)

AgentInv(a) ==
    /\ disk[a].pub # None => disk[a].priv # None /\ (Whole(a) => Secret(disk[a]))
    /\ pc[a] \in {"write privatekey", "write pubkey"} => disk[a].pub = None
    /\ pc[a] = "write pubkey" => disk[a].priv = memory[a].priv
    /\ pc[a] \in {"write privatekey", "write pubkey"} => Secret(memory[a])
    /\ pc[a] \in Holding /\ Whole(a) => Secret(memory[a])
    /\ OwnId(a, disk[a].id) /\ OwnId(a, memory[a].id)
    /\ pc[a] \in {"write state", "running"} /\ memory[a].id \in DOMAIN peers
          => peers[memory[a].id].pubkey = memory[a].pub

KindsInv ==
    /\ keys \in Nat
    /\ pc \in [Agents -> Places] /\ disk \in [Agents -> Files] /\ memory \in [Agents -> Files]

PublishedInv ==
    /\ NetworkInv
    /\ KindsInv
    /\ \A a \in Agents : AgentInv(a)

\* What other agents and the administrator may do to the rows an agent knows of.
NamesKept ==
    /\ lastId' \in Nat /\ lastId' >= lastId
    /\ \A i \in DOMAIN peers' : i \in 1..lastId =>
          i \in DOMAIN peers /\ peers'[i].name = peers[i].name
RowsKept(b) ==
    /\ NamesKept
    /\ \A i \in DOMAIN peers' : i \in 1..lastId /\ peers[i].name = b =>
          peers'[i].pubkey = peers[i].pubkey

\* Neither no content nor a torn one is an id.
LEMMA NoneIsNoId == None \notin Nat /\ Torn \notin Nat
BY NoFileIsAValue

\* An id stays an agent's own as long as rows keep their names,
LEMMA OwnIdKept ==
    ASSUME NetworkInv, NEW b, NEW i, OwnId(b, i), NamesKept
    PROVE  OwnId(b, i)'
BY DEF OwnId, NamesKept, NetworkInv

\* and so does all of an agent's invariant, in the steps of others.
LEMMA OthersKept ==
    ASSUME NetworkInv, NetworkInv', NEW b \in Agents, AgentInv(b), RowsKept(b),
           pc'[b] = pc[b], disk'[b] = disk[b], memory'[b] = memory[b]
    PROVE  AgentInv(b)'
<1>1. OwnId(b, disk[b].id)' /\ OwnId(b, memory[b].id)'
  BY OwnIdKept DEF AgentInv, OwnId, RowsKept
<1>2. ASSUME pc[b] \in {"write state", "running"}, memory[b].id \in DOMAIN peers'
      PROVE  peers'[memory[b].id].pubkey = memory[b].pub
  <2> DEFINE i == memory[b].id
  <2>1. i \in 1..lastId' /\ i \notin {None, Torn}
    <3>1. i \in 1..lastId' /\ lastId' \in Nat
      BY <1>2 DEF NetworkInv
    <3>2. i \in Nat
      BY <3>1
    <3> QED
      BY <3>1, <3>2, NoneIsNoId
  <2>2. OwnId(b, i)
    BY DEF AgentInv
  <2>3. i \in 1..lastId
    BY <2>1, <2>2 DEF OwnId
  <2>4. i \in DOMAIN peers /\ peers'[i].name = peers[i].name
        /\ (peers[i].name = b => peers'[i].pubkey = peers[i].pubkey)
    BY <1>2, <2>3 DEF RowsKept, NamesKept
  <2>5. peers[i].name = b
    BY <2>1, <2>2, <2>4 DEF OwnId
  <2>6. peers[i].pubkey = memory[b].pub
    BY <1>2, <2>4 DEF AgentInv
  <2> QED
    BY <2>4, <2>5, <2>6
<1> QED
  BY <1>1, <1>2 DEF AgentInv, Whole

\* What a step of agent a leaves as it is, and the types it keeps.
OnlyOf(a) ==
    /\ \A b \in Agents \ {a} : pc'[b] = pc[b] /\ disk'[b] = disk[b] /\ memory'[b] = memory[b]
    /\ KindsInv'

\* A step of one agent: the rows of the others stay theirs.
LEMMA AgentStep ==
    ASSUME PublishedInv, NetworkInv', NEW a \in Agents, OnlyOf(a),
           \A b \in Agents \ {a} : RowsKept(b),
           AgentInv(a)'
    PROVE  PublishedInv'
<1>1. ASSUME NEW b \in Agents, b # a PROVE AgentInv(b)'
  BY <1>1, OthersKept DEF PublishedInv, OnlyOf
<1> QED
  BY <1>1 DEF PublishedInv, OnlyOf

\* A step of one agent that leaves the rows alone.
LEMMA LocalStep ==
    ASSUME PublishedInv, NetworkInv', NEW a \in Agents, OnlyOf(a),
           UNCHANGED <<peers, lastId>>, AgentInv(a)'
    PROVE  PublishedInv'
<1>1. \A b \in Agents \ {a} : RowsKept(b)
  BY DEF RowsKept, NamesKept, PublishedInv, NetworkInv
<1> QED
  BY <1>1, AgentStep

\* A step of the server: rows go, or nothing does.
LEMMA ServerStep ==
    ASSUME PublishedInv, NetworkInv', \A b \in Agents : RowsKept(b),
           UNCHANGED <<keys, pc, disk, memory>>
    PROVE  PublishedInv'
<1>1. ASSUME NEW b \in Agents PROVE AgentInv(b)'
  BY OthersKept DEF PublishedInv
<1> QED
  BY <1>1 DEF PublishedInv, KindsInv

\* A file that is not torn is read as it was written.
LEMMA KeyOfFile == \A k \in Contained : Key(k) \in Contained /\ (k # Torn => Key(k) = k)
BY DEF Key, Contained

\* What the files hold.
LEMMA ContentsFields ==
    ASSUME NEW x, NEW y, NEW z
    PROVE  Contents(x, y, z).priv = x /\ Contents(x, y, z).pub = y /\ Contents(x, y, z).id = z
BY DEF Contents

\* The rows after POST /api/peers and after PATCH /api/peers/:id.
LEMMA RegisterRows ==
    ASSUME NetworkInv, NEW a \in Agents, Register(a)
    PROVE  /\ \A b \in Agents : RowsKept(b)
           /\ lastId' = lastId + 1 /\ lastId' \in DOMAIN peers'
           /\ peers'[lastId'].name = a /\ peers'[lastId'].pubkey = memory[a].pub
BY DEF Register, NetworkInv, RowsKept, NamesKept

\* PATCH /api/peers/:id touches the agent's own row and no other.
LEMMA UpdateRows ==
    ASSUME PublishedInv, NEW a \in Agents, UpdatePeer(a), UNCHANGED lastId
    PROVE  /\ NamesKept
           /\ \A b \in Agents \ {a} : RowsKept(b)
           /\ peers'[memory[a].id].pubkey = memory[a].pub
<1> DEFINE i == memory[a].id
<1>1. i \in DOMAIN peers
  BY DEF UpdatePeer
<1>2. lastId \in Nat /\ i \in 1..lastId
  BY <1>1 DEF PublishedInv, NetworkInv
<1>3. i \in Nat
  BY <1>2
<1>4. i \notin {None, Torn}
  BY <1>3, NoneIsNoId
<1>5. peers[i].name = a
  BY <1>1, <1>4 DEF PublishedInv, AgentInv, OwnId
<1>6. DOMAIN peers' = DOMAIN peers /\ \A j \in DOMAIN peers : peers'[j].name = peers[j].name
  BY UpdateKeepsRows
<1>7. \A j \in DOMAIN peers : j # i => peers'[j] = peers[j]
  BY DEF UpdatePeer
<1>8. peers'[i].pubkey = memory[a].pub
  BY <1>1 DEF UpdatePeer
<1> QED
  BY <1>2, <1>5, <1>6, <1>7, <1>8 DEF RowsKept, NamesKept

\* An agent that exits forgets what it held; its files stay, but the one that it
\* was writing may be cut short.
Filed(a, d) ==
    /\ d \in Files
    /\ d.pub # None => d.priv # None /\ (Torn \notin {d.priv, d.pub} => Secret(d))
    /\ OwnId(a, d.id)

LEMMA ExitWith ==
    ASSUME PublishedInv, NetworkInv', NEW a \in Agents, NEW d, Filed(a, d),
           Exit(a), Write(a, d), UNCHANGED keys,
           NamesKept, \A b \in Agents \ {a} : RowsKept(b)
    PROVE  PublishedInv'
<1>1. /\ pc' = [pc EXCEPT ![a] = "down"]
      /\ memory' = [memory EXCEPT ![a] = Empty]
      /\ disk' = [disk EXCEPT ![a] = d]
  BY DEF Exit, Goto, Keep, Write
<1>2. Empty \in Files /\ Empty.id = None
  BY DEF Empty, Contents, Files, Contained
<1>3. pc'[a] = "down" /\ disk'[a] = d /\ memory'[a] = Empty
  BY <1>1 DEF PublishedInv, KindsInv
<1>4. KindsInv'
  BY <1>1, <1>2 DEF PublishedInv, KindsInv, Places, Filed
<1>5. OnlyOf(a)
  BY <1>1, <1>4 DEF OnlyOf, PublishedInv, KindsInv
<1>6. AgentInv(a)'
  <2>1. OwnId(a, d.id)'
    BY OwnIdKept DEF PublishedInv, Filed
  <2>2. OwnId(a, disk[a].id)' /\ OwnId(a, memory[a].id)'
    BY <1>2, <1>3, <2>1 DEF OwnId
  <2>3. (disk[a].pub # None => disk[a].priv # None /\ (Whole(a) => Secret(disk[a])))'
    BY <1>3 DEF Filed, Secret, Whole
  <2> QED
    BY <1>3, <2>2, <2>3 DEF AgentInv, Holding
<1> QED
  BY <1>4, <1>5, <1>6, AgentStep

\* An agent that exits while it writes nothing.
LEMMA ExitStep ==
    ASSUME PublishedInv, NetworkInv', NEW a \in Agents, Exit(a), UNCHANGED <<disk, keys>>,
           NamesKept, \A b \in Agents \ {a} : RowsKept(b)
    PROVE  PublishedInv'
<1>1. Filed(a, disk[a])
  BY DEF Filed, PublishedInv, KindsInv, AgentInv, Whole
<1>2. Write(a, disk[a])
  BY DEF Write, PublishedInv, KindsInv
<1> QED
  BY <1>1, <1>2, ExitWith

\* A file that is cut short is no key pair and no id.
LEMMA CutShortFiled ==
    ASSUME PublishedInv, NEW a \in Agents PROVE Filed(a, CutShort(a))
<1> disk[a] \in Files /\ AgentInv(a)
  BY DEF PublishedInv, KindsInv
<1>1. Filed(a, disk[a])
  BY DEF Filed, AgentInv, Whole
<1>2. CASE At(a, "write privatekey")
  <2>1. CutShort(a) = Contents(Torn, disk[a].pub, disk[a].id)
    BY <1>2 DEF CutShort, At
  <2>2. disk[a].pub = None
    BY <1>2 DEF AgentInv, At
  <2> QED
    BY <1>1, <2>1, <2>2 DEF Filed, Contents, Files, Contained
<1>3. CASE At(a, "write pubkey")
  <2>1. CutShort(a) = Contents(disk[a].priv, Torn, disk[a].id)
    BY <1>3 DEF CutShort, At
  <2>2. disk[a].priv # None
    <3>1. Secret(memory[a]) /\ disk[a].priv = memory[a].priv
      BY <1>3 DEF AgentInv, At
    <3> QED
      BY <3>1, NoneIsNoId DEF Secret
  <2> QED
    BY <1>1, <2>1, <2>2 DEF Filed, Contents, Files, Contained
<1>4. CASE At(a, "write state")
  <2>1. CutShort(a) = Contents(disk[a].priv, disk[a].pub, Torn)
    BY <1>4 DEF CutShort, At
  <2> QED
    BY <1>1, <2>1 DEF Filed, Contents, Files, Contained, Secret, OwnId
<1>5. CASE pc[a] \notin {"write privatekey", "write pubkey", "write state"}
  <2>1. CutShort(a) = disk[a]
    BY <1>5 DEF CutShort, At
  <2> QED
    BY <1>1, <2>1
<1> QED
  BY <1>2, <1>3, <1>4, <1>5 DEF At

\* Every step keeps PublishedInv.
LEMMA PublishedStep ==
    ASSUME PublishedInv, [Next]_vars
    PROVE  PublishedInv'
<1> NetworkInv'
  BY NetworkStep DEF PublishedInv
<1> KindsInv /\ lastId \in Nat /\ keys \in Nat
  BY DEF PublishedInv, NetworkInv, KindsInv
<1>1. ASSUME NEW a \in Agents, Start(a) PROVE PublishedInv'
  <2> disk[a] \in Files /\ memory[a] \in Files /\ AgentInv(a)
    BY DEF PublishedInv, KindsInv
  <2> DEFINE files == Contents(disk[a].priv, disk[a].pub, disk[a].id)
             mem == Contents(memory[a].priv, memory[a].pub, memory[a].id)
  <2>0. keys' = keys /\ UNCHANGED <<peers, lastId>>
    BY <1>1 DEF Start, Write
  <2>1. keys' \in Nat /\ UNCHANGED <<peers, lastId>>
    BY <2>0
  <2>2. files \in Files /\ mem \in Files
    BY <2>1 DEF Files, Contents, Contained
  <2>3. /\ pc' = [pc EXCEPT ![a] = "keys"]
        /\ disk' = [disk EXCEPT ![a] = files]
        /\ memory' = [memory EXCEPT ![a] = mem]
    BY <1>1 DEF Start, KindsInv, Goto, Keep, Write, Knowing, Contents, Files, HasKeys
  <2> HIDE DEF files, mem
  <2>4. pc'[a] = "keys" /\ disk'[a] = files /\ memory'[a] = mem
    BY <2>3 DEF KindsInv
  <2>5. KindsInv'
    BY <2>1, <2>2, <2>3 DEF KindsInv, Places
  <2>6. OnlyOf(a)
    BY <2>3, <2>5 DEF OnlyOf, KindsInv
  <2>f. /\ disk'[a].priv = disk[a].priv /\ disk'[a].pub = disk[a].pub /\ disk'[a].id = disk[a].id
        /\ memory'[a].priv = memory[a].priv /\ memory'[a].pub = memory[a].pub /\ memory'[a].id = memory[a].id
    <3>1. disk'[a] = Contents(disk[a].priv, disk[a].pub, disk[a].id)
      BY <2>4 DEF files
    <3>2. memory'[a] = Contents(memory[a].priv, memory[a].pub, memory[a].id)
      BY <2>4 DEF mem
    <3>3. /\ disk'[a].priv = disk[a].priv /\ disk'[a].pub = disk[a].pub /\ disk'[a].id = disk[a].id
      BY <3>1, ContentsFields
    <3>4. /\ memory'[a].priv = memory[a].priv /\ memory'[a].pub = memory[a].pub /\ memory'[a].id = memory[a].id
      BY <3>2, ContentsFields
    <3> QED
      BY <3>3, <3>4
  <2>7. AgentInv(a)'
    <3>1. (disk[a].pub # None => disk[a].priv # None /\ (Whole(a) => Secret(disk[a])))'
      BY <1>1, <2>4, <2>f DEF Start, AgentInv, Secret, Holding, At, Whole
    <3>2. (pc[a] \in {"write privatekey", "write pubkey"} => disk[a].pub = None)'
      BY <1>1, <2>4, <2>f DEF Start, AgentInv, Secret, At, HasKeys
    <3>3. (pc[a] = "write pubkey" => disk[a].priv = memory[a].priv)'
      BY <1>1, <2>4, <2>f DEF Start, AgentInv, At
    <3>4. (/\ pc[a] \in {"write privatekey", "write pubkey"} => Secret(memory[a])
           /\ pc[a] \in Holding /\ Whole(a) => Secret(memory[a]))'
      BY <1>1, <2>4, <2>f DEF Start, AgentInv, Secret, Holding, At, Whole, HasKeys
    <3>5. (OwnId(a, disk[a].id) /\ OwnId(a, memory[a].id))'
      <4>1. OwnId(a, disk[a].id) /\ OwnId(a, memory[a].id)
        BY DEF AgentInv
      <4> QED
        BY <2>1, <2>f, <4>1 DEF OwnId
    <3>6. (pc[a] \in {"write state", "running"} /\ memory[a].id \in DOMAIN peers
             => peers[memory[a].id].pubkey = memory[a].pub)'
      BY <1>1, <2>1, <2>4, <2>f DEF Start, AgentInv, At
    <3> QED
      BY <3>1, <3>2, <3>3, <3>4, <3>5, <3>6 DEF AgentInv
  <2> QED
    BY <2>1, <2>6, <2>7, LocalStep
<1>2. ASSUME NEW a \in Agents, LoadKeypair(a) PROVE PublishedInv'
  <2> disk[a] \in Files /\ memory[a] \in Files /\ AgentInv(a)
    BY DEF PublishedInv, KindsInv
  <2> DEFINE files == Contents(disk[a].priv, disk[a].pub, disk[a].id)
             mem == Contents(Key(disk[a].priv), Key(disk[a].pub), None)
  <2>0. keys' = keys /\ UNCHANGED <<peers, lastId>>
    BY <1>2 DEF LoadKeypair, Write
  <2>1. keys' \in Nat /\ UNCHANGED <<peers, lastId>>
    BY <2>0
  <2>2. files \in Files /\ mem \in Files
    BY <2>1, KeyOfFile DEF Files, Contents, Contained
  <2>3. /\ pc' = [pc EXCEPT ![a] = "load"]
        /\ disk' = [disk EXCEPT ![a] = files]
        /\ memory' = [memory EXCEPT ![a] = mem]
    BY <1>2 DEF LoadKeypair, KindsInv, Goto, Keep, Write, Knowing, Contents, Files, HasKeys
  <2> HIDE DEF files, mem
  <2>4. pc'[a] = "load" /\ disk'[a] = files /\ memory'[a] = mem
    BY <2>3 DEF KindsInv
  <2>5. KindsInv'
    BY <2>1, <2>2, <2>3 DEF KindsInv, Places
  <2>6. OnlyOf(a)
    BY <2>3, <2>5 DEF OnlyOf, KindsInv
  <2>f. /\ disk'[a].priv = disk[a].priv /\ disk'[a].pub = disk[a].pub /\ disk'[a].id = disk[a].id
        /\ memory'[a].priv = Key(disk[a].priv) /\ memory'[a].pub = Key(disk[a].pub) /\ memory'[a].id = None
    <3>1. disk'[a] = Contents(disk[a].priv, disk[a].pub, disk[a].id)
      BY <2>4 DEF files
    <3>2. memory'[a] = Contents(Key(disk[a].priv), Key(disk[a].pub), None)
      BY <2>4 DEF mem
    <3>3. /\ disk'[a].priv = disk[a].priv /\ disk'[a].pub = disk[a].pub /\ disk'[a].id = disk[a].id
      BY <3>1, ContentsFields
    <3>4. /\ memory'[a].priv = Key(disk[a].priv) /\ memory'[a].pub = Key(disk[a].pub) /\ memory'[a].id = None
      BY <3>2, ContentsFields
    <3> QED
      BY <3>3, <3>4
  <2>7. AgentInv(a)'
    <3>1. (disk[a].pub # None => disk[a].priv # None /\ (Whole(a) => Secret(disk[a])))'
      BY <1>2, <2>4, <2>f DEF LoadKeypair, AgentInv, Secret, Holding, At, Whole
    <3>2. (pc[a] \in {"write privatekey", "write pubkey"} => disk[a].pub = None)'
      BY <1>2, <2>4, <2>f DEF LoadKeypair, AgentInv, Secret, At, HasKeys
    <3>3. (pc[a] = "write pubkey" => disk[a].priv = memory[a].priv)'
      BY <1>2, <2>4, <2>f DEF LoadKeypair, AgentInv, At
    <3>4. (/\ pc[a] \in {"write privatekey", "write pubkey"} => Secret(memory[a])
           /\ pc[a] \in Holding /\ Whole(a) => Secret(memory[a]))'
      <4>1. ASSUME Whole(a)' PROVE Secret(memory[a])'
        <5>1. Torn \notin {disk[a].priv, disk[a].pub} /\ disk[a].pub # None
          BY <1>2, <2>f, <4>1 DEF Whole, LoadKeypair, HasKeys
        <5>2. Key(disk[a].priv) = disk[a].priv /\ Key(disk[a].pub) = disk[a].pub
          BY <5>1, KeyOfFile DEF Files
        <5>3. Secret(disk[a])
          BY <5>1 DEF AgentInv, Whole
        <5> QED
          BY <2>f, <5>2, <5>3 DEF Secret
      <4> QED
        BY <2>4, <4>1
    <3>5. (OwnId(a, disk[a].id) /\ OwnId(a, memory[a].id))'
      <4>1. OwnId(a, disk[a].id) /\ OwnId(a, memory[a].id)
        BY DEF AgentInv
      <4> QED
        BY <2>1, <2>f, <4>1 DEF OwnId
    <3>6. (pc[a] \in {"write state", "running"} /\ memory[a].id \in DOMAIN peers
             => peers[memory[a].id].pubkey = memory[a].pub)'
      BY <1>2, <2>1, <2>4, <2>f DEF LoadKeypair, AgentInv, At
    <3> QED
      BY <3>1, <3>2, <3>3, <3>4, <3>5, <3>6 DEF AgentInv
  <2> QED
    BY <2>1, <2>6, <2>7, LocalStep
<1>3. ASSUME NEW a \in Agents, GenerateKeypair(a) PROVE PublishedInv'
  <2> disk[a] \in Files /\ memory[a] \in Files /\ AgentInv(a)
    BY DEF PublishedInv, KindsInv
  <2> DEFINE files == Contents(disk[a].priv, disk[a].pub, disk[a].id)
             mem == Contents(keys', keys', None)
  <2>0. keys' = keys + 1 /\ UNCHANGED <<peers, lastId>>
    BY <1>3 DEF GenerateKeypair, Write
  <2>1. keys' \in Nat /\ UNCHANGED <<peers, lastId>>
    BY <2>0
  <2>2. files \in Files /\ mem \in Files
    BY <2>1 DEF Files, Contents, Contained
  <2>3. /\ pc' = [pc EXCEPT ![a] = "write privatekey"]
        /\ disk' = [disk EXCEPT ![a] = files]
        /\ memory' = [memory EXCEPT ![a] = mem]
    BY <1>3 DEF GenerateKeypair, KindsInv, Goto, Keep, Write, Knowing, Contents, Files, HasKeys
  <2> HIDE DEF files, mem
  <2>4. pc'[a] = "write privatekey" /\ disk'[a] = files /\ memory'[a] = mem
    BY <2>3 DEF KindsInv
  <2>5. KindsInv'
    BY <2>1, <2>2, <2>3 DEF KindsInv, Places
  <2>6. OnlyOf(a)
    BY <2>3, <2>5 DEF OnlyOf, KindsInv
  <2>f. /\ disk'[a].priv = disk[a].priv /\ disk'[a].pub = disk[a].pub /\ disk'[a].id = disk[a].id
        /\ memory'[a].priv = keys' /\ memory'[a].pub = keys' /\ memory'[a].id = None
    <3>1. disk'[a] = Contents(disk[a].priv, disk[a].pub, disk[a].id)
      BY <2>4 DEF files
    <3>2. memory'[a] = Contents(keys', keys', None)
      BY <2>4 DEF mem
    <3>3. /\ disk'[a].priv = disk[a].priv /\ disk'[a].pub = disk[a].pub /\ disk'[a].id = disk[a].id
      BY <3>1, ContentsFields
    <3>4. /\ memory'[a].priv = keys' /\ memory'[a].pub = keys' /\ memory'[a].id = None
      BY <3>2, ContentsFields
    <3> QED
      BY <3>3, <3>4
  <2>7. AgentInv(a)'
    <3>1. (disk[a].pub # None => disk[a].priv # None /\ (Whole(a) => Secret(disk[a])))'
      BY <1>3, <2>4, <2>f DEF GenerateKeypair, AgentInv, Secret, Holding, At, Whole
    <3>2. (pc[a] \in {"write privatekey", "write pubkey"} => disk[a].pub = None)'
      BY <1>3, <2>4, <2>f DEF GenerateKeypair, AgentInv, Secret, At, HasKeys
    <3>3. (pc[a] = "write pubkey" => disk[a].priv = memory[a].priv)'
      BY <1>3, <2>4, <2>f DEF GenerateKeypair, AgentInv, At
    <3>4. (/\ pc[a] \in {"write privatekey", "write pubkey"} => Secret(memory[a])
           /\ pc[a] \in Holding /\ Whole(a) => Secret(memory[a]))'
      <4>1. keys \in Nat
        BY DEF PublishedInv, KindsInv
      <4>2. keys' # 0
        BY <2>0, <4>1
      <4> QED
        BY <2>1, <2>f, <4>2 DEF Secret
    <3>5. (OwnId(a, disk[a].id) /\ OwnId(a, memory[a].id))'
      <4>1. OwnId(a, disk[a].id) /\ OwnId(a, memory[a].id)
        BY DEF AgentInv
      <4> QED
        BY <2>1, <2>f, <4>1 DEF OwnId
    <3>6. (pc[a] \in {"write state", "running"} /\ memory[a].id \in DOMAIN peers
             => peers[memory[a].id].pubkey = memory[a].pub)'
      BY <1>3, <2>1, <2>4, <2>f DEF GenerateKeypair, AgentInv, At
    <3> QED
      BY <3>1, <3>2, <3>3, <3>4, <3>5, <3>6 DEF AgentInv
  <2> QED
    BY <2>1, <2>6, <2>7, LocalStep
<1>4. ASSUME NEW a \in Agents, WritePrivateKey(a) PROVE PublishedInv'
  <2> disk[a] \in Files /\ memory[a] \in Files /\ AgentInv(a)
    BY DEF PublishedInv, KindsInv
  <2> DEFINE files == Contents(memory[a].priv, disk[a].pub, disk[a].id)
             mem == Contents(memory[a].priv, memory[a].pub, memory[a].id)
  <2>0. keys' = keys /\ UNCHANGED <<peers, lastId>>
    BY <1>4 DEF WritePrivateKey, Write
  <2>1. keys' \in Nat /\ UNCHANGED <<peers, lastId>>
    BY <2>0
  <2>2. files \in Files /\ mem \in Files
    BY <2>1 DEF Files, Contents, Contained
  <2>3. /\ pc' = [pc EXCEPT ![a] = "write pubkey"]
        /\ disk' = [disk EXCEPT ![a] = files]
        /\ memory' = [memory EXCEPT ![a] = mem]
    BY <1>4 DEF WritePrivateKey, KindsInv, Goto, Keep, Write, Knowing, Contents, Files, HasKeys
  <2> HIDE DEF files, mem
  <2>4. pc'[a] = "write pubkey" /\ disk'[a] = files /\ memory'[a] = mem
    BY <2>3 DEF KindsInv
  <2>5. KindsInv'
    BY <2>1, <2>2, <2>3 DEF KindsInv, Places
  <2>6. OnlyOf(a)
    BY <2>3, <2>5 DEF OnlyOf, KindsInv
  <2>f. /\ disk'[a].priv = memory[a].priv /\ disk'[a].pub = disk[a].pub /\ disk'[a].id = disk[a].id
        /\ memory'[a].priv = memory[a].priv /\ memory'[a].pub = memory[a].pub /\ memory'[a].id = memory[a].id
    <3>1. disk'[a] = Contents(memory[a].priv, disk[a].pub, disk[a].id)
      BY <2>4 DEF files
    <3>2. memory'[a] = Contents(memory[a].priv, memory[a].pub, memory[a].id)
      BY <2>4 DEF mem
    <3>3. /\ disk'[a].priv = memory[a].priv /\ disk'[a].pub = disk[a].pub /\ disk'[a].id = disk[a].id
      BY <3>1, ContentsFields
    <3>4. /\ memory'[a].priv = memory[a].priv /\ memory'[a].pub = memory[a].pub /\ memory'[a].id = memory[a].id
      BY <3>2, ContentsFields
    <3> QED
      BY <3>3, <3>4
  <2>7. AgentInv(a)'
    <3>1. (disk[a].pub # None => disk[a].priv # None /\ (Whole(a) => Secret(disk[a])))'
      BY <1>4, <2>4, <2>f DEF WritePrivateKey, AgentInv, Secret, Holding, At, Whole
    <3>2. (pc[a] \in {"write privatekey", "write pubkey"} => disk[a].pub = None)'
      BY <1>4, <2>4, <2>f DEF WritePrivateKey, AgentInv, Secret, At, HasKeys
    <3>3. (pc[a] = "write pubkey" => disk[a].priv = memory[a].priv)'
      BY <1>4, <2>4, <2>f DEF WritePrivateKey, AgentInv, At
    <3>4. (/\ pc[a] \in {"write privatekey", "write pubkey"} => Secret(memory[a])
           /\ pc[a] \in Holding /\ Whole(a) => Secret(memory[a]))'
      BY <1>4, <2>4, <2>f DEF WritePrivateKey, AgentInv, Secret, Holding, At, Whole, HasKeys
    <3>5. (OwnId(a, disk[a].id) /\ OwnId(a, memory[a].id))'
      <4>1. OwnId(a, disk[a].id) /\ OwnId(a, memory[a].id)
        BY DEF AgentInv
      <4> QED
        BY <2>1, <2>f, <4>1 DEF OwnId
    <3>6. (pc[a] \in {"write state", "running"} /\ memory[a].id \in DOMAIN peers
             => peers[memory[a].id].pubkey = memory[a].pub)'
      BY <1>4, <2>1, <2>4, <2>f DEF WritePrivateKey, AgentInv, At
    <3> QED
      BY <3>1, <3>2, <3>3, <3>4, <3>5, <3>6 DEF AgentInv
  <2> QED
    BY <2>1, <2>6, <2>7, LocalStep
<1>5. ASSUME NEW a \in Agents, WritePublicKey(a) PROVE PublishedInv'
  <2> disk[a] \in Files /\ memory[a] \in Files /\ AgentInv(a)
    BY DEF PublishedInv, KindsInv
  <2> DEFINE files == Contents(disk[a].priv, memory[a].pub, disk[a].id)
             mem == Contents(memory[a].priv, memory[a].pub, memory[a].id)
  <2>0. keys' = keys /\ UNCHANGED <<peers, lastId>>
    BY <1>5 DEF WritePublicKey, Write
  <2>1. keys' \in Nat /\ UNCHANGED <<peers, lastId>>
    BY <2>0
  <2>2. files \in Files /\ mem \in Files
    BY <2>1 DEF Files, Contents, Contained
  <2>3. /\ pc' = [pc EXCEPT ![a] = "load"]
        /\ disk' = [disk EXCEPT ![a] = files]
        /\ memory' = [memory EXCEPT ![a] = mem]
    BY <1>5 DEF WritePublicKey, KindsInv, Goto, Keep, Write, Knowing, Contents, Files, HasKeys
  <2> HIDE DEF files, mem
  <2>4. pc'[a] = "load" /\ disk'[a] = files /\ memory'[a] = mem
    BY <2>3 DEF KindsInv
  <2>5. KindsInv'
    BY <2>1, <2>2, <2>3 DEF KindsInv, Places
  <2>6. OnlyOf(a)
    BY <2>3, <2>5 DEF OnlyOf, KindsInv
  <2>f. /\ disk'[a].priv = disk[a].priv /\ disk'[a].pub = memory[a].pub /\ disk'[a].id = disk[a].id
        /\ memory'[a].priv = memory[a].priv /\ memory'[a].pub = memory[a].pub /\ memory'[a].id = memory[a].id
    <3>1. disk'[a] = Contents(disk[a].priv, memory[a].pub, disk[a].id)
      BY <2>4 DEF files
    <3>2. memory'[a] = Contents(memory[a].priv, memory[a].pub, memory[a].id)
      BY <2>4 DEF mem
    <3>3. /\ disk'[a].priv = disk[a].priv /\ disk'[a].pub = memory[a].pub /\ disk'[a].id = disk[a].id
      BY <3>1, ContentsFields
    <3>4. /\ memory'[a].priv = memory[a].priv /\ memory'[a].pub = memory[a].pub /\ memory'[a].id = memory[a].id
      BY <3>2, ContentsFields
    <3> QED
      BY <3>3, <3>4
  <2>7. AgentInv(a)'
    <3>1. (disk[a].pub # None => disk[a].priv # None /\ (Whole(a) => Secret(disk[a])))'
      BY <1>5, <2>4, <2>f DEF WritePublicKey, AgentInv, Secret, Holding, At, Whole
    <3>2. (pc[a] \in {"write privatekey", "write pubkey"} => disk[a].pub = None)'
      BY <1>5, <2>4, <2>f DEF WritePublicKey, AgentInv, Secret, At, HasKeys
    <3>3. (pc[a] = "write pubkey" => disk[a].priv = memory[a].priv)'
      BY <1>5, <2>4, <2>f DEF WritePublicKey, AgentInv, At
    <3>4. (/\ pc[a] \in {"write privatekey", "write pubkey"} => Secret(memory[a])
           /\ pc[a] \in Holding /\ Whole(a) => Secret(memory[a]))'
      BY <1>5, <2>4, <2>f DEF WritePublicKey, AgentInv, Secret, Holding, At, Whole, HasKeys
    <3>5. (OwnId(a, disk[a].id) /\ OwnId(a, memory[a].id))'
      <4>1. OwnId(a, disk[a].id) /\ OwnId(a, memory[a].id)
        BY DEF AgentInv
      <4> QED
        BY <2>1, <2>f, <4>1 DEF OwnId
    <3>6. (pc[a] \in {"write state", "running"} /\ memory[a].id \in DOMAIN peers
             => peers[memory[a].id].pubkey = memory[a].pub)'
      BY <1>5, <2>1, <2>4, <2>f DEF WritePublicKey, AgentInv, At
    <3> QED
      BY <3>1, <3>2, <3>3, <3>4, <3>5, <3>6 DEF AgentInv
  <2> QED
    BY <2>1, <2>6, <2>7, LocalStep
<1>6. ASSUME NEW a \in Agents, SavePeerId(a) PROVE PublishedInv'
  <2> disk[a] \in Files /\ memory[a] \in Files /\ AgentInv(a)
    BY DEF PublishedInv, KindsInv
  <2> DEFINE files == Contents(disk[a].priv, disk[a].pub, memory[a].id)
             mem == Contents(memory[a].priv, memory[a].pub, memory[a].id)
  <2>0. keys' = keys /\ UNCHANGED <<peers, lastId>>
    BY <1>6 DEF SavePeerId, Write
  <2>1. keys' \in Nat /\ UNCHANGED <<peers, lastId>>
    BY <2>0
  <2>2. files \in Files /\ mem \in Files
    BY <2>1 DEF Files, Contents, Contained
  <2>3. /\ pc' = [pc EXCEPT ![a] = "running"]
        /\ disk' = [disk EXCEPT ![a] = files]
        /\ memory' = [memory EXCEPT ![a] = mem]
    BY <1>6 DEF SavePeerId, KindsInv, Goto, Keep, Write, Knowing, Contents, Files, HasKeys
  <2> HIDE DEF files, mem
  <2>4. pc'[a] = "running" /\ disk'[a] = files /\ memory'[a] = mem
    BY <2>3 DEF KindsInv
  <2>5. KindsInv'
    BY <2>1, <2>2, <2>3 DEF KindsInv, Places
  <2>6. OnlyOf(a)
    BY <2>3, <2>5 DEF OnlyOf, KindsInv
  <2>f. /\ disk'[a].priv = disk[a].priv /\ disk'[a].pub = disk[a].pub /\ disk'[a].id = memory[a].id
        /\ memory'[a].priv = memory[a].priv /\ memory'[a].pub = memory[a].pub /\ memory'[a].id = memory[a].id
    <3>1. disk'[a] = Contents(disk[a].priv, disk[a].pub, memory[a].id)
      BY <2>4 DEF files
    <3>2. memory'[a] = Contents(memory[a].priv, memory[a].pub, memory[a].id)
      BY <2>4 DEF mem
    <3>3. /\ disk'[a].priv = disk[a].priv /\ disk'[a].pub = disk[a].pub /\ disk'[a].id = memory[a].id
      BY <3>1, ContentsFields
    <3>4. /\ memory'[a].priv = memory[a].priv /\ memory'[a].pub = memory[a].pub /\ memory'[a].id = memory[a].id
      BY <3>2, ContentsFields
    <3> QED
      BY <3>3, <3>4
  <2>7. AgentInv(a)'
    <3>1. (disk[a].pub # None => disk[a].priv # None /\ (Whole(a) => Secret(disk[a])))'
      BY <1>6, <2>4, <2>f DEF SavePeerId, AgentInv, Secret, Holding, At, Whole
    <3>2. (pc[a] \in {"write privatekey", "write pubkey"} => disk[a].pub = None)'
      BY <1>6, <2>4, <2>f DEF SavePeerId, AgentInv, Secret, At, HasKeys
    <3>3. (pc[a] = "write pubkey" => disk[a].priv = memory[a].priv)'
      BY <1>6, <2>4, <2>f DEF SavePeerId, AgentInv, At
    <3>4. (/\ pc[a] \in {"write privatekey", "write pubkey"} => Secret(memory[a])
           /\ pc[a] \in Holding /\ Whole(a) => Secret(memory[a]))'
      BY <1>6, <2>4, <2>f DEF SavePeerId, AgentInv, Secret, Holding, At, Whole, HasKeys
    <3>5. (OwnId(a, disk[a].id) /\ OwnId(a, memory[a].id))'
      <4>1. OwnId(a, disk[a].id) /\ OwnId(a, memory[a].id)
        BY DEF AgentInv
      <4> QED
        BY <2>1, <2>f, <4>1 DEF OwnId
    <3>6. (pc[a] \in {"write state", "running"} /\ memory[a].id \in DOMAIN peers
             => peers[memory[a].id].pubkey = memory[a].pub)'
      BY <1>6, <2>1, <2>4, <2>f DEF SavePeerId, AgentInv, At
    <3> QED
      BY <3>1, <3>2, <3>3, <3>4, <3>5, <3>6 DEF AgentInv
  <2> QED
    BY <2>1, <2>6, <2>7, LocalStep
<1>7. ASSUME NEW a \in Agents, LoadPeerId(a), disk[a].id \in {None, Torn} PROVE PublishedInv'
  <2> disk[a] \in Files /\ memory[a] \in Files /\ AgentInv(a)
    BY DEF PublishedInv, KindsInv
  <2> DEFINE files == Contents(disk[a].priv, disk[a].pub, disk[a].id)
             mem == Contents(memory[a].priv, memory[a].pub, memory[a].id)
  <2>0. keys' = keys /\ UNCHANGED <<peers, lastId>>
    BY <1>7 DEF LoadPeerId, Write
  <2>1. keys' \in Nat /\ UNCHANGED <<peers, lastId>>
    BY <2>0
  <2>2. files \in Files /\ mem \in Files
    BY <2>1 DEF Files, Contents, Contained
  <2>3. /\ pc' = [pc EXCEPT ![a] = "register"]
        /\ disk' = [disk EXCEPT ![a] = files]
        /\ memory' = [memory EXCEPT ![a] = mem]
    BY <1>7, NoneIsNoId DEF LoadPeerId, KindsInv, Goto, Keep, Write, Knowing, Contents, Files, HasKeys
  <2> HIDE DEF files, mem
  <2>4. pc'[a] = "register" /\ disk'[a] = files /\ memory'[a] = mem
    BY <2>3 DEF KindsInv
  <2>5. KindsInv'
    BY <2>1, <2>2, <2>3 DEF KindsInv, Places
  <2>6. OnlyOf(a)
    BY <2>3, <2>5 DEF OnlyOf, KindsInv
  <2>f. /\ disk'[a].priv = disk[a].priv /\ disk'[a].pub = disk[a].pub /\ disk'[a].id = disk[a].id
        /\ memory'[a].priv = memory[a].priv /\ memory'[a].pub = memory[a].pub /\ memory'[a].id = memory[a].id
    <3>1. disk'[a] = Contents(disk[a].priv, disk[a].pub, disk[a].id)
      BY <2>4 DEF files
    <3>2. memory'[a] = Contents(memory[a].priv, memory[a].pub, memory[a].id)
      BY <2>4 DEF mem
    <3>3. /\ disk'[a].priv = disk[a].priv /\ disk'[a].pub = disk[a].pub /\ disk'[a].id = disk[a].id
      BY <3>1, ContentsFields
    <3>4. /\ memory'[a].priv = memory[a].priv /\ memory'[a].pub = memory[a].pub /\ memory'[a].id = memory[a].id
      BY <3>2, ContentsFields
    <3> QED
      BY <3>3, <3>4
  <2>7. AgentInv(a)'
    <3>1. (disk[a].pub # None => disk[a].priv # None /\ (Whole(a) => Secret(disk[a])))'
      BY <1>7, <2>4, <2>f DEF LoadPeerId, AgentInv, Secret, Holding, At, Whole
    <3>2. (pc[a] \in {"write privatekey", "write pubkey"} => disk[a].pub = None)'
      BY <1>7, <2>4, <2>f DEF LoadPeerId, AgentInv, Secret, At, HasKeys
    <3>3. (pc[a] = "write pubkey" => disk[a].priv = memory[a].priv)'
      BY <1>7, <2>4, <2>f DEF LoadPeerId, AgentInv, At
    <3>4. (/\ pc[a] \in {"write privatekey", "write pubkey"} => Secret(memory[a])
           /\ pc[a] \in Holding /\ Whole(a) => Secret(memory[a]))'
      BY <1>7, <2>4, <2>f DEF LoadPeerId, AgentInv, Secret, Holding, At, Whole, HasKeys
    <3>5. (OwnId(a, disk[a].id) /\ OwnId(a, memory[a].id))'
      <4>1. OwnId(a, disk[a].id) /\ OwnId(a, memory[a].id)
        BY DEF AgentInv
      <4> QED
        BY <2>1, <2>f, <4>1 DEF OwnId
    <3>6. (pc[a] \in {"write state", "running"} /\ memory[a].id \in DOMAIN peers
             => peers[memory[a].id].pubkey = memory[a].pub)'
      BY <1>7, <2>1, <2>4, <2>f DEF LoadPeerId, AgentInv, At
    <3> QED
      BY <3>1, <3>2, <3>3, <3>4, <3>5, <3>6 DEF AgentInv
  <2> QED
    BY <2>1, <2>6, <2>7, LocalStep
<1>8. ASSUME NEW a \in Agents, LoadPeerId(a), disk[a].id \notin {None, Torn} PROVE PublishedInv'
  <2> disk[a] \in Files /\ memory[a] \in Files /\ AgentInv(a)
    BY DEF PublishedInv, KindsInv
  <2> DEFINE files == Contents(disk[a].priv, disk[a].pub, disk[a].id)
             mem == Contents(memory[a].priv, memory[a].pub, disk[a].id)
  <2>0. keys' = keys /\ UNCHANGED <<peers, lastId>>
    BY <1>8 DEF LoadPeerId, Write
  <2>1. keys' \in Nat /\ UNCHANGED <<peers, lastId>>
    BY <2>0
  <2>2. files \in Files /\ mem \in Files
    BY <2>1 DEF Files, Contents, Contained
  <2>3. /\ pc' = [pc EXCEPT ![a] = "update"]
        /\ disk' = [disk EXCEPT ![a] = files]
        /\ memory' = [memory EXCEPT ![a] = mem]
    BY <1>8, NoneIsNoId, NoFileIsAValue DEF LoadPeerId, KindsInv, Goto, Keep, Write, Knowing, Contents, Files, HasKeys
  <2> HIDE DEF files, mem
  <2>4. pc'[a] = "update" /\ disk'[a] = files /\ memory'[a] = mem
    BY <2>3 DEF KindsInv
  <2>5. KindsInv'
    BY <2>1, <2>2, <2>3 DEF KindsInv, Places
  <2>6. OnlyOf(a)
    BY <2>3, <2>5 DEF OnlyOf, KindsInv
  <2>f. /\ disk'[a].priv = disk[a].priv /\ disk'[a].pub = disk[a].pub /\ disk'[a].id = disk[a].id
        /\ memory'[a].priv = memory[a].priv /\ memory'[a].pub = memory[a].pub /\ memory'[a].id = disk[a].id
    <3>1. disk'[a] = Contents(disk[a].priv, disk[a].pub, disk[a].id)
      BY <2>4 DEF files
    <3>2. memory'[a] = Contents(memory[a].priv, memory[a].pub, disk[a].id)
      BY <2>4 DEF mem
    <3>3. /\ disk'[a].priv = disk[a].priv /\ disk'[a].pub = disk[a].pub /\ disk'[a].id = disk[a].id
      BY <3>1, ContentsFields
    <3>4. /\ memory'[a].priv = memory[a].priv /\ memory'[a].pub = memory[a].pub /\ memory'[a].id = disk[a].id
      BY <3>2, ContentsFields
    <3> QED
      BY <3>3, <3>4
  <2>7. AgentInv(a)'
    <3>1. (disk[a].pub # None => disk[a].priv # None /\ (Whole(a) => Secret(disk[a])))'
      BY <1>8, <2>4, <2>f DEF LoadPeerId, AgentInv, Secret, Holding, At, Whole
    <3>2. (pc[a] \in {"write privatekey", "write pubkey"} => disk[a].pub = None)'
      BY <1>8, <2>4, <2>f DEF LoadPeerId, AgentInv, Secret, At, HasKeys
    <3>3. (pc[a] = "write pubkey" => disk[a].priv = memory[a].priv)'
      BY <1>8, <2>4, <2>f DEF LoadPeerId, AgentInv, At
    <3>4. (/\ pc[a] \in {"write privatekey", "write pubkey"} => Secret(memory[a])
           /\ pc[a] \in Holding /\ Whole(a) => Secret(memory[a]))'
      BY <1>8, <2>4, <2>f DEF LoadPeerId, AgentInv, Secret, Holding, At, Whole, HasKeys
    <3>5. (OwnId(a, disk[a].id) /\ OwnId(a, memory[a].id))'
      <4>1. OwnId(a, disk[a].id) /\ OwnId(a, memory[a].id)
        BY DEF AgentInv
      <4> QED
        BY <2>1, <2>f, <4>1 DEF OwnId
    <3>6. (pc[a] \in {"write state", "running"} /\ memory[a].id \in DOMAIN peers
             => peers[memory[a].id].pubkey = memory[a].pub)'
      BY <1>8, <2>1, <2>4, <2>f DEF LoadPeerId, AgentInv, At
    <3> QED
      BY <3>1, <3>2, <3>3, <3>4, <3>5, <3>6 DEF AgentInv
  <2> QED
    BY <2>1, <2>6, <2>7, LocalStep
<1>9. ASSUME NEW a \in Agents, Registered(a) PROVE PublishedInv'
  <2> disk[a] \in Files /\ memory[a] \in Files /\ AgentInv(a)
    BY DEF PublishedInv, KindsInv
  <2> DEFINE mem == Contents(memory[a].priv, memory[a].pub, lastId')
  <2>1. /\ \A b \in Agents : RowsKept(b)
        /\ lastId' = lastId + 1 /\ lastId' \in DOMAIN peers'
        /\ peers'[lastId'].name = a /\ peers'[lastId'].pubkey = memory[a].pub
    BY <1>9, RegisterRows DEF Registered, PublishedInv
  <2>2. /\ pc' = [pc EXCEPT ![a] = "write state"]
        /\ memory' = [memory EXCEPT ![a] = mem]
        /\ UNCHANGED <<disk, keys>>
    BY <1>9 DEF Registered, Goto, Keep, Knowing
  <2>3. lastId' \in Nat
    BY <2>1
  <2>4. mem \in Files
    BY <2>3 DEF Files, Contents, Contained
  <2>5. mem.priv = memory[a].priv /\ mem.pub = memory[a].pub /\ mem.id = lastId'
    BY ContentsFields
  <2> HIDE DEF mem
  <2>6. pc'[a] = "write state" /\ disk'[a] = disk[a] /\ memory'[a] = mem
    BY <2>2 DEF KindsInv
  <2>7. KindsInv'
    BY <2>2, <2>4 DEF KindsInv, Places
  <2>8. OnlyOf(a)
    BY <2>2, <2>7 DEF OnlyOf, KindsInv
  <2>9. AgentInv(a)'
    <3>1. OwnId(a, disk[a].id)'
      <4>1. OwnId(a, disk[a].id)
        BY DEF AgentInv
      <4>2. NamesKept
        BY <2>1 DEF RowsKept
      <4> QED
        BY <2>6, <4>1, <4>2, OwnIdKept DEF PublishedInv
    <3>2. OwnId(a, memory[a].id)'
      <4>1. memory'[a].id = lastId'
        BY <2>5, <2>6
      <4>2. lastId \in Nat /\ lastId' \in 1..lastId'
        BY <2>1, <2>3 DEF PublishedInv, NetworkInv
      <4> QED
        BY <2>1, <4>1, <4>2 DEF OwnId
    <3>3. (disk[a].pub # None => disk[a].priv # None /\ (Whole(a) => Secret(disk[a])))'
      BY <2>6 DEF AgentInv, Secret, Whole
    <3>4. Whole(a) => Secret(memory[a])
      BY <1>9 DEF Registered, AgentInv, Holding, At
    <3>5. (Whole(a) => Secret(memory[a]))'
      BY <2>5, <2>6, <3>4 DEF Secret, Whole
    <3> QED
      BY <2>1, <2>5, <2>6, <3>1, <3>2, <3>3, <3>5 DEF AgentInv
  <2> QED
    BY <2>1, <2>8, <2>9, AgentStep
<1>10. ASSUME NEW a \in Agents, Updated(a) PROVE PublishedInv'
  <2> disk[a] \in Files /\ memory[a] \in Files /\ AgentInv(a)
    BY DEF PublishedInv, KindsInv
  <2>1. /\ NamesKept
        /\ \A b \in Agents \ {a} : RowsKept(b)
        /\ peers'[memory[a].id].pubkey = memory[a].pub
    BY <1>10, UpdateRows DEF Updated
  <2>2. /\ pc' = [pc EXCEPT ![a] = "running"]
        /\ UNCHANGED <<disk, memory, keys>>
    BY <1>10 DEF Updated, Goto
  <2>3. pc'[a] = "running" /\ disk'[a] = disk[a] /\ memory'[a] = memory[a]
    BY <2>2 DEF KindsInv
  <2>4. KindsInv'
    BY <2>2 DEF KindsInv, Places
  <2>5. OnlyOf(a)
    BY <2>2, <2>4 DEF OnlyOf, KindsInv
  <2>6. AgentInv(a)'
    <3>1. OwnId(a, disk[a].id)' /\ OwnId(a, memory[a].id)'
      BY <2>1, <2>3, OwnIdKept DEF PublishedInv, AgentInv, OwnId
    <3>2. (disk[a].pub # None => disk[a].priv # None /\ (Whole(a) => Secret(disk[a])))'
          /\ (Whole(a) => Secret(memory[a]))'
      BY <1>10, <2>3 DEF Updated, AgentInv, Secret, Holding, At, Whole
    <3> QED
      BY <2>1, <2>3, <3>1, <3>2 DEF AgentInv
  <2> QED
    BY <2>1, <2>5, <2>6, AgentStep
<1>11. (UNCHANGED <<peers, lastId>>) => NamesKept /\ \A b \in Agents : RowsKept(b)
  BY DEF RowsKept, NamesKept, PublishedInv, NetworkInv
<1>12. ASSUME NEW a \in Agents, BootFails(a) \/ Crash(a) PROVE PublishedInv'
  <2>1. Exit(a) /\ UNCHANGED <<keys, peers, lastId>>
    BY <1>12 DEF BootFails, Crash
  <2>2. CASE UNCHANGED disk
    BY <1>11, <2>1, <2>2, ExitStep
  <2>3. CASE Write(a, CutShort(a))
    BY <1>11, <2>1, <2>3, CutShortFiled, ExitWith
  <2> QED
    BY <1>12, <2>2, <2>3 DEF BootFails, Crash
<1>13. ASSUME NEW a \in Agents, AnswerLost(a) PROVE PublishedInv'
  <2>1. Exit(a) /\ UNCHANGED <<disk, keys>>
    BY <1>13 DEF AnswerLost
  <2>2. CASE UNCHANGED <<peers, lastId>>
    BY <1>11, <2>1, <2>2, ExitStep
  <2>3. CASE Register(a)
    <3>1. NamesKept /\ \A b \in Agents : RowsKept(b)
      BY <2>3, RegisterRows DEF PublishedInv, RowsKept
    <3> QED
      BY <2>1, <3>1, ExitStep
  <2>4. CASE UpdatePeer(a) /\ UNCHANGED lastId
    BY <2>1, <2>4, UpdateRows, ExitStep
  <2> QED
    BY <1>13, <2>2, <2>3, <2>4 DEF AnswerLost
<1>14. ASSUME NEW s \in Subnets, CreateNetwork(s) PROVE PublishedInv'
  BY <1>11, <1>14, ServerStep DEF CreateNetwork
<1>15. CASE DeleteNetwork
  <2>1. \A b \in Agents : RowsKept(b)
    BY <1>15 DEF DeleteNetwork, RowsKept, NamesKept
  <2> QED
    BY <1>15, <2>1, ServerStep DEF DeleteNetwork
<1>16. ASSUME NEW i \in DOMAIN peers, DeletePeer(i) PROVE PublishedInv'
  <2>1. \A b \in Agents : RowsKept(b)
    BY <1>16 DEF DeletePeer, RowsKept, NamesKept, Restrict
  <2> QED
    BY <1>16, <2>1, ServerStep DEF DeletePeer
<1>17. CASE UNCHANGED vars
  BY <1>11, <1>17, ServerStep DEF vars
<1>18. ASSUME NEW a \in Agents, Boot(a) PROVE PublishedInv'
  BY <1>1, <1>2, <1>3, <1>4, <1>5, <1>6, <1>7, <1>8, <1>9, <1>10, <1>12, <1>18 DEF Boot
<1> QED
  BY <1>12, <1>13, <1>14, <1>15, <1>16, <1>17, <1>18 DEF Next

\* PublishedInv holds in the initial states.
LEMMA InitPublished == Init => PublishedInv
BY DEF Init, PublishedInv, NetworkInv, AddressesDistinct, KindsInv, Places, Files, Empty,
       Contents, Contained, AgentInv, OwnId, Holding

\* Wherever its boots are cut short, an agent that runs is known by the key it uses,
\* unless a file of its keys was cut short itself (getOrCreateKeypair; index.ts, boot).
THEOREM PublishedKeysAreOwn == Spec => []PublishedKeyIsOwn
<1>1. PublishedInv => PublishedKeyIsOwn
  BY DEF PublishedInv, AgentInv, PublishedKeyIsOwn, Running, At, Secret, Holding
<1> QED
  BY <1>1, InitPublished, PublishedStep, PTL DEF Spec

-----------------------------------------------------------------------------
(* The rows: their names, addresses and keys.                              *)

\* The places of boot at which the agent has a key pair.
Keyed == Holding \union {"write privatekey", "write pubkey"}

RowTypes ==
    \A i \in DOMAIN peers : /\ peers[i].name \in Agents
                            /\ peers[i].ipv4 \in 0 .. AddressSpace - 1
                            /\ peers[i].pubkey \in 0..keys

NamesDistinct == \A i, j \in DOMAIN peers : peers[i].name = peers[j].name => i = j

\* Every address was counted from the subnet's, and goes with it.
AddressesCounted ==
    /\ subnet = None => DOMAIN peers = {}
    /\ subnet # None => \A i \in DOMAIN peers : \E h \in Hosts(subnet) :
                           peers[i].ipv4 = Address(subnet, h)

\* A public key that is kept, and is not cut short, was made.
KeysMade ==
    \A a \in Agents : /\ disk[a].pub \in 0..keys \union {None, Torn}
                      /\ pc[a] \in Keyed => memory[a].pub \in 0..keys

RowsInv == RowTypes /\ NamesDistinct /\ AddressesCounted /\ KeysMade /\ faults \in Nat

\* allocateIp finds an address of the space, counted from the subnet's.
LEMMA AllocatedIsCounted ==
    ASSUME FreeHosts # {}, subnet \in Subnets \union {None}
    PROVE  /\ subnet # None /\ \E h \in Hosts(subnet) : AllocateIp = Address(subnet, h)
           /\ AllocateIp \in 0 .. AddressSpace - 1
<1>1. subnet \in Subnets
  BY DEF FreeHosts
<1>2. FreeHosts \subseteq Hosts(subnet) /\ FreeHosts \in SUBSET Nat
  BY DEF FreeHosts, Hosts
<1>3. Min(FreeHosts) \in FreeHosts
  BY <1>2, MinIsMember
<1>4. \E h \in Hosts(subnet) : AllocateIp = Address(subnet, h)
  BY <1>2, <1>3 DEF AllocateIp
<1>5. ASSUME NEW h \in Hosts(subnet) PROVE Address(subnet, h) \in 0 .. AddressSpace - 1
  <2>1. subnet.base \in 0 .. AddressSpace - 1 /\ subnet.size \in 1..AddressSpace
    BY <1>1, SubnetsAssumption
  <2>2. h \in Nat
    BY <1>5 DEF Hosts
  <2> QED
    BY <2>1, <2>2, SubnetsAssumption DEF Address
<1>6. subnet # None
  BY DEF FreeHosts
<1> QED
  BY <1>4, <1>5, <1>6

\* POST /api/peers adds one row with a new name, PATCH writes a key into one.
LEMMA RowsRegistered ==
    ASSUME NetworkInv, RowsInv, KindsInv, NEW a \in Agents, Register(a), pc[a] = "register",
           UNCHANGED <<subnet, keys>>
    PROVE  RowTypes' /\ NamesDistinct' /\ AddressesCounted'
<1>1. lastId' = lastId + 1 /\ lastId' \notin DOMAIN peers
  BY DEF Register, NetworkInv
<1>2. /\ DOMAIN peers' = DOMAIN peers \union {lastId'}
      /\ peers'[lastId'] = [name |-> a, ipv4 |-> AllocateIp, pubkey |-> memory[a].pub]
      /\ \A i \in DOMAIN peers : peers'[i] = peers[i]
  BY <1>1 DEF Register
<1>3. memory[a].pub \in 0..keys
  BY DEF RowsInv, KeysMade, Keyed, Holding
<1>4. FreeHosts # {} /\ a \notin Names
  BY DEF Register, Refuses
<1>5. /\ subnet # None /\ \E h \in Hosts(subnet) : AllocateIp = Address(subnet, h)
      /\ AllocateIp \in 0 .. AddressSpace - 1
  BY <1>4, AllocatedIsCounted DEF NetworkInv
<1>6. RowTypes'
  BY <1>2, <1>3, <1>5 DEF RowsInv, RowTypes
<1>7. NamesDistinct'
  BY <1>2, <1>4 DEF RowsInv, NamesDistinct, Names
<1>8. AddressesCounted'
  BY <1>2, <1>5 DEF RowsInv, AddressesCounted, Hosts, Address
<1> QED
  BY <1>6, <1>7, <1>8

\* PATCH /api/peers/:id changes the key of one row.
LEMMA RowsUpdated ==
    ASSUME RowsInv, KindsInv, NEW a \in Agents, UpdatePeer(a), pc[a] = "update",
           UNCHANGED <<subnet, keys>>
    PROVE  RowTypes' /\ NamesDistinct' /\ AddressesCounted'
<1>1. memory[a].pub \in 0..keys
  BY DEF RowsInv, KeysMade, Keyed, Holding
<1>2. /\ DOMAIN peers' = DOMAIN peers
      /\ \A i \in DOMAIN peers : /\ peers'[i].ipv4 = peers[i].ipv4
                                 /\ peers'[i].name = peers[i].name
                                 /\ peers'[i].pubkey \in {peers[i].pubkey, memory[a].pub}
  BY DEF UpdatePeer
<1> QED
  BY <1>1, <1>2 DEF RowsInv, RowTypes, NamesDistinct, AddressesCounted, Hosts, Address

\* Rows that stay, or go, stay well typed.
LEMMA RowsFewer ==
    ASSUME RowsInv, keys' \in Nat, keys' >= keys, keys \in Nat,
           DOMAIN peers' \subseteq DOMAIN peers, \A i \in DOMAIN peers' : peers'[i] = peers[i]
    PROVE  RowTypes' /\ NamesDistinct'
BY DEF RowsInv, RowTypes, NamesDistinct

\* An agent that stops holds no key and no file that was not made.
LEMMA ExitKeys ==
    ASSUME RowsInv, KindsInv, NEW a \in Agents, Exit(a), UNCHANGED keys,
           UNCHANGED disk \/ Write(a, CutShort(a))
    PROVE  KeysMade'
<1>1. /\ pc' = [pc EXCEPT ![a] = "down"] /\ memory' = [memory EXCEPT ![a] = Empty]
  BY DEF Exit, Goto, Keep
<1>2. \A b \in Agents : pc'[b] \in Keyed => pc[b] \in Keyed /\ memory'[b] = memory[b]
  BY <1>1 DEF KindsInv, Keyed, Holding
<1>3. CutShort(a).pub \in {disk[a].pub, Torn}
  BY DEF CutShort, Contents, At
<1>4. \A b \in Agents : disk'[b].pub \in {disk[b].pub, Torn}
  BY <1>3 DEF Write, KindsInv
<1> QED
  BY <1>2, <1>4 DEF RowsInv, KeysMade

\* A place of boot: what the agent keeps and writes of its keys.
LEMMA BootKeys ==
    ASSUME RowsInv, KindsInv, NEW a \in Agents, Boot(a)
    PROVE  KeysMade' /\ keys' \in Nat /\ keys' >= keys
<1>1. keys \in Nat /\ pc \in [Agents -> Places] /\ disk \in [Agents -> Files]
      /\ memory \in [Agents -> Files]
  BY DEF KindsInv
<1>2. \A b \in Agents \ {a} : pc'[b] = pc[b] /\ memory'[b] = memory[b] /\ disk'[b] = disk[b]
  BY <1>1 DEF Boot, Start, LoadKeypair, GenerateKeypair, WritePrivateKey, WritePublicKey,
     LoadPeerId, Registered, SavePeerId, Updated, BootFails, Exit, Goto, Keep, Write
<1>3. keys' \in Nat /\ keys' >= keys
  <2>1. keys' = keys \/ keys' = keys + 1
    BY Zenon DEF Boot, Start, LoadKeypair, GenerateKeypair, WritePrivateKey, WritePublicKey,
       LoadPeerId, Registered, SavePeerId, Updated, BootFails
  <2> QED
    BY <1>1, <2>1
<1>4. ASSUME pc'[a] \in Keyed => memory'[a].pub \in 0..keys',
             disk'[a].pub \in 0..keys' \union {None, Torn}
      PROVE  KeysMade'
  BY <1>1, <1>2, <1>3, <1>4 DEF RowsInv, KeysMade
<1>5. /\ disk[a].pub \in 0..keys \union {None, Torn}
      /\ pc[a] \in Keyed => memory[a].pub \in 0..keys
      /\ 0..keys \subseteq 0..keys'
  BY <1>1, <1>3 DEF RowsInv, KeysMade
<1>6. CASE Start(a)
  <2>1. pc'[a] = "keys" /\ disk'[a] = disk[a]
    BY <1>1, <1>6 DEF Start, Goto
  <2> QED
    BY <1>3, <1>4, <1>5, <2>1 DEF Keyed, Holding
<1>7. CASE LoadKeypair(a)
  <2>1. memory'[a] = Contents(Key(disk[a].priv), Key(disk[a].pub), None) /\ disk'[a] = disk[a]
        /\ disk[a].pub # None
    BY <1>1, <1>7 DEF LoadKeypair, HasKeys, Keep
  <2>2. memory'[a].pub = Key(disk[a].pub)
    BY <2>1, ContentsFields
  <2>3. Key(disk[a].pub) \in 0..keys
    BY <1>1, <1>5, <2>1 DEF Key
  <2> QED
    BY <1>3, <1>4, <1>5, <2>1, <2>2, <2>3
<1>8. CASE GenerateKeypair(a)
  <2>1. memory'[a] = Contents(keys', keys', None) /\ disk'[a] = disk[a]
    BY <1>1, <1>8 DEF GenerateKeypair, Keep
  <2>2. memory'[a].pub = keys'
    BY <2>1, ContentsFields
  <2>3. keys' \in 0..keys'
    BY <1>3
  <2> QED
    BY <1>3, <1>4, <1>5, <2>1, <2>2, <2>3
<1>9. CASE WritePrivateKey(a) \/ WritePublicKey(a) \/ SavePeerId(a)
  <2>1. pc[a] \in Keyed /\ memory'[a] = memory[a]
    BY <1>9 DEF WritePrivateKey, WritePublicKey, SavePeerId, At, Keyed, Holding
  <2>2. \E x, z : disk'[a] = Contents(x, disk[a].pub, z) \/ disk'[a] = Contents(x, memory[a].pub, z)
    BY <1>1, <1>9 DEF WritePrivateKey, WritePublicKey, SavePeerId, Write
  <2>3. disk'[a].pub \in {disk[a].pub, memory[a].pub}
    BY <2>2, ContentsFields
  <2> QED
    BY <1>3, <1>4, <1>5, <2>1, <2>3
<1>10. CASE LoadPeerId(a) \/ Registered(a) \/ Updated(a)
  <2>1. pc[a] \in Keyed /\ disk'[a] = disk[a]
    BY <1>10 DEF LoadPeerId, Registered, Updated, At, Keyed, Holding
  <2>2. memory'[a] = memory[a] \/ \E i : memory'[a] = Knowing(a, i)
    BY <1>1, <1>10 DEF LoadPeerId, Registered, Updated, Keep
  <2>3. \A i : Knowing(a, i).pub = memory[a].pub
    BY ContentsFields DEF Knowing
  <2>4. memory'[a].pub = memory[a].pub
    BY <2>2, <2>3
  <2> QED
    BY <1>3, <1>4, <1>5, <2>1, <2>4
<1>11. CASE BootFails(a)
  BY <1>3, <1>11, ExitKeys DEF BootFails
<1> QED
  BY <1>3, <1>6, <1>7, <1>8, <1>9, <1>10, <1>11 DEF Boot

\* Every step keeps the rows and the keys well typed.
LEMMA RowsStep == PublishedInv /\ RowsInv /\ [Next]_vars => RowsInv'
<1> SUFFICES ASSUME PublishedInv, RowsInv, [Next]_vars PROVE RowsInv'
  OBVIOUS
<1>1. NetworkInv /\ KindsInv /\ keys \in Nat /\ faults \in Nat
  BY DEF PublishedInv, KindsInv, RowsInv
<1>2. CASE UNCHANGED vars
  BY <1>2 DEF vars, RowsInv, RowTypes, NamesDistinct, AddressesCounted, KeysMade
<1>3. ASSUME NEW s \in Subnets, CreateNetwork(s) PROVE RowsInv'
  BY <1>3, <1>1, NoFileIsAValue DEF CreateNetwork, RowsInv, RowTypes, NamesDistinct,
     AddressesCounted, KeysMade
<1>4. CASE DeleteNetwork
  BY <1>4 DEF DeleteNetwork, RowsInv, RowTypes, NamesDistinct, AddressesCounted, KeysMade
<1>5. ASSUME NEW i \in DOMAIN peers, DeletePeer(i) PROVE RowsInv'
  <2>1. DOMAIN peers' = DOMAIN peers \ {i} /\ \A j \in DOMAIN peers' : peers'[j] = peers[j]
    BY <1>5 DEF DeletePeer, Restrict
  <2>2. UNCHANGED <<subnet, keys, disk, memory, pc, faults>>
    BY <1>5 DEF DeletePeer
  <2>3. RowTypes' /\ NamesDistinct'
    BY <1>1, <2>1, <2>2, RowsFewer
  <2>4. AddressesCounted'
    <3>1. \A h : Address(subnet, h)' = Address(subnet, h) /\ UNCHANGED Hosts(subnet)
      BY <2>2 DEF Address, Hosts
    <3> QED
      BY <2>1, <2>2, <3>1 DEF RowsInv, AddressesCounted
  <2> QED
    BY <2>2, <2>3, <2>4 DEF RowsInv, KeysMade
<1>6. ASSUME NEW a \in Agents, Boot(a) PROVE RowsInv'
  <2>1. KeysMade' /\ keys' \in Nat /\ keys' >= keys
    BY <1>1, <1>6, BootKeys
  <2>2. UNCHANGED <<subnet, faults>>
    BY <1>6 DEF Boot, Start, LoadKeypair, GenerateKeypair, WritePrivateKey, WritePublicKey,
       LoadPeerId, Registered, SavePeerId, Updated, BootFails
  <2>3. CASE Registered(a)
    BY <1>1, <2>1, <2>2, <2>3, RowsRegistered DEF Registered, At, RowsInv
  <2>4. CASE Updated(a)
    BY <1>1, <2>1, <2>2, <2>4, RowsUpdated DEF Updated, At, RowsInv
  <2>5. CASE UNCHANGED peers
    <3>1. RowTypes' /\ NamesDistinct'
      BY <1>1, <2>1, <2>5, RowsFewer
    <3>2. AddressesCounted'
      BY <2>2, <2>5 DEF RowsInv, AddressesCounted
    <3> QED
      BY <2>1, <2>2, <3>1, <3>2 DEF RowsInv
  <2> QED
    BY <1>6, <2>3, <2>4, <2>5 DEF Boot, Start, LoadKeypair, GenerateKeypair, WritePrivateKey,
       WritePublicKey, LoadPeerId, SavePeerId, BootFails
<1>7. ASSUME NEW a \in Agents, AnswerLost(a) \/ Crash(a) PROVE RowsInv'
  <2>1. UNCHANGED <<subnet, keys>> /\ faults' \in Nat /\ Exit(a)
    BY <1>1, <1>7 DEF AnswerLost, Crash, Fault
  <2>2. KeysMade'
    BY <1>1, <1>7, <2>1, ExitKeys DEF AnswerLost, Crash
  <2>3. CASE Register(a) /\ At(a, "register")
    BY <1>1, <2>1, <2>2, <2>3, RowsRegistered DEF At, RowsInv
  <2>4. CASE UpdatePeer(a) /\ At(a, "update")
    BY <1>1, <2>1, <2>2, <2>4, RowsUpdated DEF At, RowsInv
  <2>5. CASE UNCHANGED peers
    <3>1. RowTypes' /\ NamesDistinct'
      BY <1>1, <2>1, <2>5, RowsFewer
    <3>2. AddressesCounted'
      BY <2>1, <2>5 DEF RowsInv, AddressesCounted
    <3> QED
      BY <2>1, <2>2, <3>1, <3>2 DEF RowsInv
  <2> QED
    BY <1>7, <2>3, <2>4, <2>5 DEF AnswerLost, Crash
<1> QED
  BY <1>2, <1>3, <1>4, <1>5, <1>6, <1>7 DEF Next

\* A subnet that is written by its first address lies in the address space: no
\* address counted from it wraps.
LEMMA AlignedFits ==
    ASSUME NEW s \in Subnets, Aligned(s), NEW h \in Hosts(s)
    PROVE  Address(s, h) \in HostAddresses(s)
<1> DEFINE base == s.base
           size == s.size
<1>1. /\ base \in 0 .. AddressSpace - 1 /\ size \in 1..AddressSpace
      /\ base % size = 0 /\ AddressSpace % size = 0 /\ AddressSpace \in Nat
      /\ h \in 1 .. size - 2
  BY SubnetsAssumption DEF Aligned, Hosts
<1>2. Address(s, h) = (base + h) % AddressSpace /\ HostAddresses(s) = base + 1 .. base + size - 2
  BY DEF Address, HostAddresses
<1> HIDE DEF base, size
<1>3. PICK k \in Nat : base = k * size
  BY <1>1
<1>4. PICK n \in Nat : AddressSpace = n * size
  BY <1>1
<1>5. base + size <= AddressSpace
  <2>1. k * size < n * size /\ size \in Nat
    BY <1>1, <1>3, <1>4
  <2>2. k < n
    BY <2>1
  <2>3. k * size + size <= n * size
    BY <2>1, <2>2
  <2> QED
    BY <1>3, <1>4, <2>3
<1>6. (base + h) % AddressSpace = base + h
  BY <1>1, <1>5
<1> QED
  BY <1>1, <1>2, <1>6

\* Rows whose names are distinct are as many as their names.
LEMMA NamesAreRows ==
    ASSUME NetworkInv, NamesDistinct
    PROVE  Cardinality(Names) = Cardinality(DOMAIN peers)
<1> DEFINE f == [i \in DOMAIN peers |-> peers[i].name]
<1>1. f \in Bijection(DOMAIN peers, Names)
  BY DEF Names, NamesDistinct, Bijection, Injection, Surjection, IsInjective
<1>2. IsFiniteSet(DOMAIN peers)
  <2>1. IsFiniteSet(1..lastId)
    BY FS_Interval DEF NetworkInv
  <2> QED
    BY <2>1, FS_Subset DEF NetworkInv
<1>3. ExistsBijection(DOMAIN peers, Names)
  BY <1>1 DEF ExistsBijection
<1> QED
  BY <1>2, <1>3, FS_Bijection

\* It holds in the initial states.
LEMMA InitRows == Init => RowsInv
BY DEF Init, RowsInv, RowTypes, NamesDistinct, AddressesCounted, KeysMade, Empty, Contents, Keyed, Holding

\* The rows' names are unique and their addresses and keys exist, and so do the ids
\* and keys in the agents' files, whatever is lost or cut short.
THEOREM RegistrationTypesHold == Spec => []RegistrationTypeOK
<1>1. PublishedInv /\ RowsInv => RegistrationTypeOK
  <2> SUFFICES ASSUME PublishedInv, RowsInv PROVE RegistrationTypeOK
    OBVIOUS
  <2>1. NetworkInv /\ KindsInv /\ \A a \in Agents : OwnId(a, disk[a].id)
    BY DEF PublishedInv, AgentInv
  <2>2. Cardinality(Names) = Cardinality(DOMAIN peers)
    BY <2>1, NamesAreRows DEF RowsInv
  <2> QED
    BY <2>1, <2>2 DEF RegistrationTypeOK, NetworkInv, KindsInv, RowsInv, RowTypes, OwnId
<1> QED
  BY <1>1, InitPublished, PublishedStep, InitRows, RowsStep, PTL DEF Spec

\* Every address that POST /api/peers gives out of an aligned subnet is a host's.
THEOREM AddressesAreHosts == Spec => []AddressesInSubnet
<1>1. PublishedInv /\ RowsInv => AddressesInSubnet
  <2> SUFFICES ASSUME PublishedInv, RowsInv, subnet # None, Aligned(subnet), NEW i \in DOMAIN peers
               PROVE  peers[i].ipv4 \in HostAddresses(subnet)
    BY DEF AddressesInSubnet
  <2>1. subnet \in Subnets
    BY DEF PublishedInv, NetworkInv
  <2>2. PICK h \in Hosts(subnet) : peers[i].ipv4 = Address(subnet, h)
    BY DEF RowsInv, AddressesCounted
  <2> QED
    BY <2>1, <2>2, AlignedFits
<1> QED
  BY <1>1, InitPublished, PublishedStep, InitRows, RowsStep, PTL DEF Spec
=============================================================================
