-------------------------- MODULE ReconcilerProofs --------------------------
(***************************************************************************)
(* What is proved of an agent's polls, for any peers and any ports.        *)
(*                                                                         *)
(* With any number of polls under way at once and any number of restarts:  *)
(* no two peers are given the same interface (IfNamesInv adds the mapping  *)
(* a poll has handed to writeFile and not yet written, and that a mapping  *)
(* is finite, without which getIfName need not find a free index), and the *)
(* types (Typed).                                                          *)
(*                                                                         *)
(* With one poll at a time (PollInv): the ports, the interfaces and the    *)
(* relay proxies of different peers are kept apart and belong together.    *)
(***************************************************************************)
EXTENDS Reconciler, SetLemmas, FiniteSetTheorems, TLAPS

Assigns(ifs) ==
    /\ IsFiniteSet(DOMAIN ifs)
    /\ ifs \in [DOMAIN ifs -> Nat]
    /\ IsInjective(ifs)

\* Every mapping the agent may save or load assigns distinct interfaces.
IfNamesInv ==
    /\ Assigns(peerToIf) /\ Assigns(file.ifs)
    /\ saving \in [Polls -> Range(saving)]
    /\ \A a \in Polls : Assigns(saving[a].ifs)

-----------------------------------------------------------------------------
\* getIfName's search ends at an index that nobody has.
LEMMA FreeIndexIsFree ==
    ASSUME Assigns(peerToIf)
    PROVE  FreeIndex \in Nat \ Range(peerToIf)
<1> DEFINE n == Cardinality(DOMAIN peerToIf)
           free == (0..n) \ Range(peerToIf)
<1>1. n \in Nat
  BY FS_CardinalityType DEF Assigns
<1>2. free # {}
  <2>1. SUFFICES ASSUME 0..n \subseteq Range(peerToIf) PROVE FALSE
    OBVIOUS
  <2>2. peerToIf \in Surjection(DOMAIN peerToIf, Range(peerToIf))
    BY DEF Assigns, Surjection, Range
  <2>3. IsFiniteSet(Range(peerToIf)) /\ Cardinality(Range(peerToIf)) <= n
    BY <2>2, FS_Surjection DEF Assigns
  <2>4. IsFiniteSet(0..n) /\ Cardinality(0..n) = n + 1
    BY <1>1, FS_Interval
  <2>5. Cardinality(0..n) <= Cardinality(Range(peerToIf))
    BY <2>1, <2>3, FS_Subset
  <2>6. Cardinality(Range(peerToIf)) \in Nat
    BY <2>3, FS_CardinalityType
  <2> QED
    BY <1>1, <2>3, <2>4, <2>5, <2>6
<1>3. Min(free) \in free
  BY <1>1, <1>2, MinIsMember
<1> QED
  BY <1>3 DEF FreeIndex

\* Forgetting a peer keeps the others' interfaces.
LEMMA WithoutAssigns ==
    ASSUME NEW f, NEW x, Assigns(f)
    PROVE  Assigns(Without(f, x))
<1>1. DOMAIN Without(f, x) = DOMAIN f \ {x}
  BY DEF Without, Restrict
<1>2. \A y \in DOMAIN f \ {x} : Without(f, x)[y] = f[y]
  BY DEF Without, Restrict
<1>3. IsFiniteSet(DOMAIN f \ {x})
  BY FS_Subset DEF Assigns
<1>4. Without(f, x) \in [DOMAIN f \ {x} -> Nat]
  BY DEF Assigns, Without, Restrict
<1> QED
  BY <1>1, <1>2, <1>3, <1>4 DEF Assigns, IsInjective

\* A peer that has an interface keeps it, a new one gets one nobody has.
LEMMA GetIfNameAssigns ==
    ASSUME NEW p, Assigns(peerToIf)
    PROVE  Assigns(With(peerToIf, p, GetIfName(p)))
<1> DEFINE f == With(peerToIf, p, GetIfName(p))
<1>1. DOMAIN f = DOMAIN peerToIf \union {p}
  BY DEF With
<1>2. \A q \in DOMAIN f : f[q] = IF q = p THEN GetIfName(p) ELSE peerToIf[q]
  BY DEF With
<1>3. IsFiniteSet(DOMAIN f)
  BY <1>1, FS_AddElement DEF Assigns
<1>4. FreeIndex \in Nat /\ \A q \in DOMAIN peerToIf : peerToIf[q] # FreeIndex
  BY FreeIndexIsFree DEF Range
<1>5. GetIfName(p) \in Nat
  BY <1>4 DEF GetIfName, Assigns
<1>6. \A q \in DOMAIN peerToIf : peerToIf[q] \in Nat
  BY DEF Assigns
<1>7. f \in [DOMAIN f -> Nat]
  <2>1. \A q \in DOMAIN f : f[q] \in Nat
    BY <1>1, <1>2, <1>5, <1>6
  <2>2. f = [q \in DOMAIN f |-> f[q]]
    BY DEF With
  <2> QED
    BY <2>1, <2>2
<1>8. IsInjective(f)
  <2> SUFFICES ASSUME NEW a \in DOMAIN f, NEW b \in DOMAIN f, f[a] = f[b]
               PROVE  a = b
    BY DEF IsInjective
  <2> HIDE DEF f
  <2>1. CASE p \in DOMAIN peerToIf
    <3>1. f[a] = peerToIf[a] /\ f[b] = peerToIf[b] /\ a \in DOMAIN peerToIf /\ b \in DOMAIN peerToIf
      BY <2>1, <1>1, <1>2 DEF GetIfName
    <3> QED
      BY <3>1 DEF Assigns, IsInjective
  <2>2. CASE p \notin DOMAIN peerToIf
    BY <2>2, <1>1, <1>2, <1>4 DEF GetIfName, Assigns, IsInjective
  <2> QED
    BY <2>1, <2>2
<1> QED
  BY <1>3, <1>7, <1>8 DEF Assigns

-----------------------------------------------------------------------------
\* No peer, no interface assigned twice.
LEMMA NoneAssigns == Assigns(None)
<1>1. DOMAIN None = {}
  BY DEF None
<1>2. None \in [{} -> Nat]
  BY DEF None
<1> QED
  BY <1>1, <1>2, FS_EmptySet DEF Assigns, IsInjective

-----------------------------------------------------------------------------
\* Each step of a poll hands to writeFile, or keeps, a mapping that assigns
\* distinct interfaces.
LEMMA PollKeepsIfNames ==
    ASSUME IfNamesInv, NEW a \in Polls, Poll(a)
    PROVE  IfNamesInv'
<1>1. Assigns(peerToIf) /\ Assigns(file.ifs) /\ Assigns(saving[a].ifs)
  BY DEF IfNamesInv
<1>2. Assigns(NoMapping.ifs)
  BY NoneAssigns DEF NoMapping
<1>3. ASSUME NEW m, Assigns(m.ifs), saving' = [saving EXCEPT ![a] = m],
             Assigns(peerToIf)', Assigns(file.ifs)'
      PROVE  IfNamesInv'
  <2>1. saving' = [b \in Polls |-> IF b = a THEN m ELSE saving[b]]
    BY <1>3 DEF IfNamesInv
  <2>2. \A b \in Polls : saving'[b] = IF b = a THEN m ELSE saving[b]
    BY <2>1
  <2>3. saving' \in [Polls -> Range(saving')]
    BY <2>1, <2>2 DEF Range
  <2>4. \A b \in Polls : Assigns(saving'[b].ifs)
    BY <1>3, <2>2 DEF IfNamesInv
  <2> QED
    BY <1>3, <2>3, <2>4 DEF IfNamesInv
<1>4. CASE AssignPeer(a)
  <2>1. Assigns(peerToIf')
    BY <1>1, <1>4, GetIfNameAssigns DEF AssignPeer
  <2> QED
    BY <1>4, <2>1 DEF AssignPeer, disk, IfNamesInv
<1>5. CASE ForgetPeer(a)
  <2>1. Assigns(peerToIf')
    BY <1>1, <1>5, WithoutAssigns DEF ForgetPeer
  <2> QED
    BY <1>5, <2>1 DEF ForgetPeer, disk, IfNamesInv
<1>6. CASE BeginSave(a)
  <2>1. CASE UNCHANGED <<disk, maps>>
    BY <2>1 DEF disk, maps, IfNamesInv
  <2>2. CASE file' = NoMapping /\ saving' = [saving EXCEPT ![a] = Mapping] /\ UNCHANGED maps
    <3>1. Assigns(Mapping.ifs)
      BY <1>1 DEF Mapping
    <3> QED
      BY <1>1, <1>2, <1>3, <2>2, <3>1 DEF maps
  <2> QED
    BY <1>6, <2>1, <2>2 DEF BeginSave
<1>7. CASE EndSave(a)
  <2>1. \/ file' = saving[a]
        \/ UNCHANGED file
    BY <1>7 DEF EndSave
  <2> QED
    BY <1>1, <1>2, <1>3, <1>7, <2>1 DEF EndSave
<1>8. CASE UNCHANGED <<peerToIf, disk>>
  BY <1>8 DEF disk, IfNamesInv
<1>9. GetConfig(a) \/ ListInterfaces(a) \/ CreateInterface(a) \/ SetInterface(a)
        \/ BeginRemove(a) \/ RemoveInterface(a) \/ ReportPorts(a) \/ RelayPeer(a) \/ EndPoll(a)
      => UNCHANGED <<peerToIf, disk>>
  BY DEF GetConfig, ListInterfaces, CreateInterface, SetInterface, BeginRemove,
         RemoveInterface, ReportPorts, RelayPeer, EndPoll, maps, disk
<1> QED
  BY <1>4, <1>5, <1>6, <1>7, <1>8, <1>9 DEF Poll, Reconcile

\* It holds in the initial states,
LEMMA InitIfNames == Init => IfNamesInv
<1>1. SUFFICES ASSUME Init PROVE IfNamesInv
  OBVIOUS
<1>2. saving \in [Polls -> Range(saving)] /\ \A a \in Polls : saving[a] = NoMapping
  BY <1>1 DEF Init, Range
<1> QED
  BY <1>1, <1>2, NoneAssigns DEF Init, IfNamesInv, NoMapping

\* and every step keeps it.
LEMMA NextKeepsIfNames == IfNamesInv /\ [Next]_vars => IfNamesInv'
<1>1. SUFFICES ASSUME IfNamesInv, [Next]_vars PROVE IfNamesInv'
  OBVIOUS
<1>2. CASE \E p \in Peers : Join(p) \/ Leave(p) \/ ChangeKey(p)
  BY <1>1, <1>2 DEF Join, Leave, ChangeKey, maps, disk, IfNamesInv
<1>3. CASE \E a \in Polls : Poll(a)
  BY <1>1, <1>3, PollKeepsIfNames
<1>4. CASE Restart
  <2>1. saving' \in [Polls -> Range(saving')] /\ \A a \in Polls : saving'[a] = NoMapping
    BY <1>4 DEF Restart, Range
  <2>2. Assigns(peerToIf') /\ Assigns(file'.ifs)
    BY <1>1, <1>4 DEF Restart, IfNamesInv
  <2> QED
    BY <2>1, <2>2, NoneAssigns DEF IfNamesInv, NoMapping
<1>5. CASE UNCHANGED vars
  BY <1>1, <1>5 DEF vars, maps, disk, IfNamesInv
<1> QED
  BY <1>1, <1>2, <1>3, <1>4, <1>5 DEF Next

-----------------------------------------------------------------------------
(* Types, for any number of polls under way at once.                       *)

Fields == {"pc", "config", "keyed", "known", "seen", "todo", "peer", "idx", "ports"}
Handling == {"create", "set"}
Assigning == {"peer"} \union Handling
Removing == {"unlink", "forget"}
Reporting == {"list", "remove", "save", "report"} \union Assigning \union Removing

\* A mapping of peers of S to ports.
PortsOf(f, S) == DOMAIN f \subseteq S /\ Range(f) \subseteq Ports
MapsTyped(m) == DOMAIN m.ifs \subseteq Peers /\ PortsOf(m.ports, Peers)

PollTyped(r) ==
    /\ DOMAIN r = Fields
    /\ r.config \subseteq Peers /\ r.keyed \subseteq r.config /\ r.todo \subseteq r.keyed
    /\ r.pc \in Removing => r.peer \in Peers
    /\ r.pc \in Assigning => r.todo # {}
    /\ r.pc \in Handling => r.peer = Min(r.todo) /\ r.peer \in DOMAIN r.ports
    /\ r.pc \in Reporting => DOMAIN r.known = r.config /\ Range(r.known) \subseteq Ports \union {0}
    /\ PortsOf(r.ports, r.config)

ServerTyped ==
    /\ keyless \subseteq roster /\ roster \subseteq Peers /\ fresh \subseteq Peers \ roster
    /\ kept \subseteq Peers
    /\ peer_ports \in [Peers -> Ports \union {0}]
SavedTyped ==
    /\ MapsTyped(Mapping) /\ MapsTyped(file) /\ dirty \in BOOLEAN
    /\ DOMAIN saving = Polls /\ \A a \in Polls : MapsTyped(saving[a])
WatchTyped == DOMAIN relays \subseteq Peers /\ DOMAIN peerStates \subseteq DOMAIN relays
PollsTyped == DOMAIN polls = Polls /\ \A a \in Polls : PollTyped(polls[a])

Typed == ServerTyped /\ SavedTyped /\ WatchTyped /\ PollsTyped

\* What a mapping maps that has lost a peer.
LEMMA WithoutFacts ==
    ASSUME NEW f, NEW x
    PROVE  /\ DOMAIN Without(f, x) = DOMAIN f \ {x}
           /\ \A z \in DOMAIN f \ {x} : Without(f, x)[z] = f[z]
BY DEF Without, Restrict

\* A peer is given a port, or loses it: the mapping stays one of peers to ports.
LEMMA PortsKept ==
    ASSUME NEW f, NEW S, NEW x, PortsOf(f, S)
    PROVE  /\ \A y \in Ports : x \in S => PortsOf(With(f, x, y), S)
           /\ PortsOf(Without(f, x), S)
<1> DEFINE g == Without(f, x)
<1>1. PortsOf(g, S)
  <2>1. DOMAIN g = DOMAIN f \ {x} /\ \A z \in DOMAIN f \ {x} : g[z] = f[z]
    BY WithoutFacts
  <2> HIDE DEF g
  <2> QED
    BY <2>1 DEF PortsOf, Range
<1>2. ASSUME NEW y \in Ports, x \in S PROVE PortsOf(With(f, x, y), S)
  <2> DEFINE h == With(f, x, y)
  <2>1. /\ DOMAIN h = DOMAIN f \union {x} /\ h[x] = y
        /\ \A z \in DOMAIN f \ {x} : h[z] = f[z]
    BY DEF With
  <2> HIDE DEF h
  <2>2. PortsOf(h, S)
    BY <1>2, <2>1 DEF PortsOf, Range
  <2> QED
    BY <2>2 DEF h
<1> QED
  BY <1>1, <1>2

\* The empty mapping.
LEMMA NonePorts == DOMAIN None = {} /\ \A S : PortsOf(None, S)
BY DEF None, PortsOf, Range

\* The next peer of a loop is one of those left.
LEMMA CurrentIsMember ==
    ASSUME NEW a, polls[a].todo \subseteq Peers, polls[a].todo # {}
    PROVE  Current(a) \in polls[a].todo
BY PeersAssumption, MinIsMember DEF Current

\* A poll that goes on touches no other poll.
LEMMA BecomeTyped ==
    ASSUME PollsTyped, NEW a \in Polls, NEW r, Become(a, r), PollTyped(r)
    PROVE  PollsTyped'
BY DEF PollsTyped, Become

\* The poll that takes a step.
LEMMA BecomeIs ==
    ASSUME Typed, NEW a \in Polls, NEW r, Become(a, r)
    PROVE  polls'[a] = r
BY DEF Typed, PollsTyped, Become

\* A poll that fails is idle, and so is one that begins.
LEMMA IdleTyped == PollTyped(Idle)
BY NonePorts DEF Idle, PollTyped, Fields, Assigning, Handling, Removing, Reporting

\* A poll that goes on to the next peer.
LEMMA NextPeerTyped ==
    ASSUME PollsTyped, NEW a \in Polls, At(a, "create") \/ At(a, "set"), NEW t, NextPeer(a, t),
           DOMAIN t = Fields, t.config = polls[a].config, t.keyed = polls[a].keyed,
           t.known = polls[a].known, PortsOf(t.ports, polls[a].config)
    PROVE  PollsTyped'
<1> DEFINE s == polls[a]
           r == [t EXCEPT !.todo = Rest(a), !.peer = 0, !.idx = 0,
                          !.pc = IF Rest(a) = {} THEN "remove" ELSE "peer"]
<1>1. PollTyped(s) /\ s.pc \in Reporting
  BY DEF PollsTyped, At, Reporting, Assigning, Handling
<1>2. /\ DOMAIN r = Fields /\ r.config = s.config /\ r.keyed = s.keyed /\ r.known = s.known
      /\ r.ports = t.ports /\ r.todo = Rest(a) /\ r.pc = IF Rest(a) = {} THEN "remove" ELSE "peer"
  BY DEF Fields
<1>3. Become(a, r)
  BY DEF NextPeer
<1> HIDE DEF r
<1>4. PollTyped(r)
  BY <1>1, <1>2 DEF PollTyped, Rest, Assigning, Handling, Removing, Reporting
<1> QED
  BY <1>3, <1>4, BecomeTyped

-----------------------------------------------------------------------------
\* A poll that fetches the configuration, and one that lists the interfaces.
LEMMA BeginTyped ==
    ASSUME Typed, NEW a \in Polls, GetConfig(a) \/ ListInterfaces(a)
    PROVE  PollsTyped'
<1>1. PollTyped(polls[a])
  BY DEF Typed, PollsTyped
<1>2. CASE GetConfig(a)
  <2> DEFINE known == Restrict(peer_ports, roster)
             r == [Idle EXCEPT !.pc = "list", !.config = roster, !.keyed = roster \ keyless,
                               !.known = known]
  <2>1. DOMAIN known = roster /\ Range(known) \subseteq Ports \union {0}
    BY DEF Typed, ServerTyped, Restrict, Range
  <2>2. PollTyped(Idle)
    BY IdleTyped
  <2> HIDE DEF known
  <2>3. /\ DOMAIN r = Fields /\ r.pc = "list" /\ r.config = roster /\ r.known = known
        /\ r.keyed = roster \ keyless /\ r.todo = {} /\ r.ports = None
    BY DEF Idle, Fields
  <2>4. Become(a, r)
    BY <1>2 DEF GetConfig, known
  <2> HIDE DEF r
  <2>5. PollTyped(r)
    BY <2>1, <2>3, NonePorts DEF Typed, ServerTyped, PollTyped, Assigning, Handling, Removing
  <2> QED
    BY <2>4, <2>5, BecomeTyped DEF Typed
<1>3. CASE ListInterfaces(a)
  <2> DEFINE s == polls[a]
  <2>1. PICK seen : Become(a, [s EXCEPT !.seen = seen, !.todo = s.keyed,
                                 !.pc = IF s.keyed = {} THEN "remove" ELSE "peer"])
    BY <1>3 DEF ListInterfaces
  <2> DEFINE r == [s EXCEPT !.seen = seen, !.todo = s.keyed,
                            !.pc = IF s.keyed = {} THEN "remove" ELSE "peer"]
  <2>2. /\ DOMAIN r = Fields /\ r.config = s.config /\ r.keyed = s.keyed /\ r.todo = s.keyed
        /\ r.known = s.known /\ r.pc = (IF s.keyed = {} THEN "remove" ELSE "peer")
        /\ r.ports = s.ports /\ s.pc = "list"
    BY <1>1, <1>3 DEF PollTyped, Fields, ListInterfaces, At
  <2>4. Become(a, r)
    BY <2>1
  <2> HIDE DEF r
  <2>3. PollTyped(r)
    BY <1>1, <2>2 DEF PollTyped, Reporting, Assigning, Handling, Removing
  <2> QED
    BY <2>3, <2>4, BecomeTyped DEF Typed
<1> QED
  BY <1>2, <1>3

\* A peer that is given an interface and a port.
LEMMA AssignTyped ==
    ASSUME Typed, NEW a \in Polls, AssignPeer(a)
    PROVE  PollsTyped' /\ MapsTyped(Mapping)'
<1> DEFINE s == polls[a]
           p == Current(a)
           idx == GetIfName(p)
<1>1. PollTyped(s) /\ s.pc = "peer"
  BY DEF Typed, PollsTyped, AssignPeer, At
<1>2. s.todo # {} /\ s.todo \subseteq s.keyed /\ s.keyed \subseteq s.config /\ s.config \subseteq Peers
      /\ DOMAIN s.known = s.config /\ Range(s.known) \subseteq Ports \union {0}
      /\ PortsOf(s.ports, s.config) /\ DOMAIN s = Fields
  BY <1>1 DEF PollTyped, Assigning, Reporting
<1>3. p \in s.todo /\ p \in Peers /\ p = Min(s.todo)
  BY <1>2, CurrentIsMember DEF Current
<1> HIDE DEF p, idx
<1>4. DOMAIN peerToIf \subseteq Peers /\ PortsOf(peerToPort, Peers)
  BY DEF Typed, SavedTyped, MapsTyped, Mapping
<1>5. peerToIf' = With(peerToIf, p, idx)
  BY DEF AssignPeer, p, idx
<1>6. DOMAIN peerToIf' \subseteq Peers
  BY <1>3, <1>4, <1>5 DEF With
<1>7. ASSUME NEW port \in ListenPort(a, p), peerToPort' = With(peerToPort, p, port),
             Become(a, [s EXCEPT !.pc = IF idx \in s.seen THEN "set" ELSE "create",
                                 !.peer = p, !.idx = idx, !.ports = With(@, p, port)])
      PROVE  PollsTyped' /\ PortsOf(peerToPort', Peers)
  <2>1. port \in Ports
    <3>1. CASE s.known[p] > 0
      <4>1. port = s.known[p] /\ s.known[p] \in Range(s.known)
        BY <1>2, <1>3, <1>7, <3>1 DEF ListenPort, Range
      <4> QED
        BY <1>2, <3>1, <4>1
    <3>2. CASE ~(s.known[p] > 0)
      BY <1>4, <1>7, <3>2 DEF ListenPort, GetPort, PortsOf, Range
    <3> QED
      BY <3>1, <3>2
  <2> DEFINE ports == With(s.ports, p, port)
             r == [s EXCEPT !.pc = IF idx \in s.seen THEN "set" ELSE "create",
                            !.peer = p, !.idx = idx, !.ports = ports]
  <2>2. PortsOf(ports, s.config) /\ p \in DOMAIN ports
    BY <1>2, <1>3, <2>1, PortsKept DEF With
  <2> HIDE DEF ports
  <2>3. /\ DOMAIN r = Fields /\ r.config = s.config /\ r.keyed = s.keyed /\ r.todo = s.todo
        /\ r.known = s.known /\ r.pc \in Handling /\ r.ports = ports /\ r.peer = p
    BY <1>2 DEF Fields, Handling
  <2>4. Become(a, r)
    BY <1>7 DEF ports
  <2> HIDE DEF r
  <2>5. PollTyped(r)
    BY <1>2, <1>3, <2>2, <2>3 DEF PollTyped, Removing, Handling
  <2>6. PollsTyped'
    BY <2>4, <2>5, BecomeTyped DEF Typed
  <2> QED
    BY <1>3, <1>4, <1>7, <2>1, <2>6, PortsKept
<1>8. ASSUME Fail(a), UNCHANGED peerToPort PROVE PollsTyped' /\ PortsOf(peerToPort', Peers)
  BY <1>4, <1>8, IdleTyped, BecomeTyped DEF Fail, Typed
<1>9. PollsTyped' /\ PortsOf(peerToPort', Peers)
  BY <1>7, <1>8 DEF AssignPeer, p, idx
<1> QED
  BY <1>6, <1>9 DEF MapsTyped, Mapping

\* A poll that only goes on to another place keeps its types.
LEMMA GotoTyped ==
    ASSUME Typed, NEW a \in Polls, NEW pc,
           \/ Goto(a, pc)
           \/ \E p, idx : Become(a, [polls[a] EXCEPT !.pc = pc, !.peer = p, !.idx = idx]),
           \/ pc = "set" /\ At(a, "create") /\ Goto(a, pc)
           \/ /\ polls[a].pc \in Reporting /\ pc \in Reporting \ Assigning
              /\ pc \in Removing => polls'[a].peer \in Peers
    PROVE  PollsTyped'
<1> DEFINE s == polls[a]
<1>1. PollTyped(s)
  BY DEF Typed, PollsTyped
<1>2. CASE Goto(a, pc)
  <2> DEFINE r == [s EXCEPT !.pc = pc]
  <2>1. /\ DOMAIN r = Fields /\ r.config = s.config /\ r.keyed = s.keyed /\ r.todo = s.todo /\ r.known = s.known
        /\ r.pc = pc /\ r.ports = s.ports /\ r.peer = s.peer
    BY <1>1 DEF PollTyped, Fields
  <2>2. Become(a, r) /\ polls'[a] = r
    BY <1>2, BecomeIs DEF Goto
  <2> HIDE DEF r
  <2>3. PollTyped(r)
    BY <1>1, <2>1, <2>2 DEF PollTyped, Reporting, Assigning, Handling, Removing, At
  <2> QED
    BY <2>2, <2>3, BecomeTyped DEF Typed
<1>3. ASSUME NEW p, NEW idx, Become(a, [s EXCEPT !.pc = pc, !.peer = p, !.idx = idx]),
             s.pc \in Reporting, pc \in Reporting \ Assigning,
             pc \in Removing => polls'[a].peer \in Peers
      PROVE  PollsTyped'
  <2> DEFINE r == [s EXCEPT !.pc = pc, !.peer = p, !.idx = idx]
  <2>1. /\ DOMAIN r = Fields /\ r.config = s.config /\ r.keyed = s.keyed /\ r.todo = s.todo
        /\ r.known = s.known /\ r.pc = pc /\ r.ports = s.ports
    BY <1>1 DEF PollTyped, Fields
  <2>2. Become(a, r) /\ polls'[a] = r
    BY <1>3, BecomeIs
  <2> HIDE DEF r
  <2>3. PollTyped(r)
    BY <1>1, <1>3, <2>1, <2>2 DEF PollTyped, Assigning
  <2> QED
    BY <2>2, <2>3, BecomeTyped DEF Typed
<1> QED
  BY <1>2, <1>3

\* A step of ensureInterface, or a peer that is removed.
LEMMA InterfaceTyped ==
    ASSUME Typed, NEW a \in Polls,
           \/ CreateInterface(a) \/ SetInterface(a)
           \/ BeginRemove(a) \/ RemoveInterface(a) \/ ForgetPeer(a)
    PROVE  PollsTyped'
<1> DEFINE s == polls[a]
<1>1. PollTyped(s) /\ PollsTyped
  BY DEF Typed, PollsTyped
<1>2. ASSUME EnsureFails(a), At(a, "create") \/ At(a, "set") PROVE PollsTyped'
  <2>1. PortsOf(s.ports, s.config)
    BY <1>1 DEF PollTyped
  <2>2. PortsOf(Without(s.ports, s.peer), s.config)
    BY <2>1, PortsKept
  <2> DEFINE t == [s EXCEPT !.ports = Without(s.ports, s.peer)]
  <2>3. NextPeer(a, t)
    BY <1>2 DEF EnsureFails
  <2>4. /\ DOMAIN t = Fields /\ t.config = s.config /\ t.keyed = s.keyed
        /\ t.known = s.known /\ PortsOf(t.ports, s.config)
    BY <1>1, <2>2 DEF PollTyped, Fields
  <2> HIDE DEF t
  <2> QED
    BY <1>1, <1>2, <2>3, <2>4, NextPeerTyped
<1>3. CASE CreateInterface(a)
  <2>1. CASE Goto(a, "set")
    BY <1>3, <2>1, GotoTyped DEF CreateInterface
  <2> QED
    BY <1>2, <1>3, <2>1 DEF CreateInterface
<1>4. CASE SetInterface(a)
  <2>1. ASSUME NextPeer(a, s) PROVE PollsTyped'
    <3>1. DOMAIN s = Fields /\ PortsOf(s.ports, s.config)
      BY <1>1 DEF PollTyped
    <3> QED
      BY <1>1, <1>4, <2>1, <3>1, NextPeerTyped DEF SetInterface
  <2> QED
    BY <1>2, <1>4, <2>1 DEF SetInterface
<1>5. CASE BeginRemove(a)
  <2>1. PICK p \in Strays(a) : Become(a, [s EXCEPT !.pc = "unlink", !.peer = p, !.idx = peerToIf[p]])
    BY <1>5 DEF BeginRemove
  <2>2. p \in Peers
    BY DEF Strays, Typed, SavedTyped, MapsTyped, Mapping
  <2>3. polls'[a].peer \in Peers
    BY <1>1, <2>1, <2>2, BecomeIs DEF PollTyped, Fields
  <2>4. s.pc \in Reporting /\ "unlink" \in Reporting \ Assigning
    BY <1>5 DEF BeginRemove, At, Reporting, Removing, Assigning, Handling
  <2> QED
    BY <2>1, <2>3, <2>4, GotoTyped
<1>6. CASE RemoveInterface(a)
  <2>1. Goto(a, "forget") /\ s.pc = "unlink"
    BY <1>6 DEF RemoveInterface, At
  <2>2. polls'[a].peer \in Peers
    BY <1>1, <2>1, BecomeIs DEF Goto, PollTyped, Fields, Removing
  <2> QED
    BY <2>1, <2>2, GotoTyped DEF Reporting, Removing, Assigning, Handling
<1>7. CASE ForgetPeer(a)
  BY <1>7, GotoTyped DEF ForgetPeer, At, Reporting, Removing, Assigning, Handling
<1> QED
  BY <1>3, <1>4, <1>5, <1>6, <1>7

\* The mappings are saved, and what is saved is what may be loaded.
LEMMA SaveTyped ==
    ASSUME Typed, NEW a \in Polls, BeginSave(a) \/ EndSave(a)
    PROVE  PollsTyped' /\ SavedTyped'
<1>1. PollsTyped'
  <2>1. CASE Fail(a)
    BY <2>1, IdleTyped, BecomeTyped DEF Fail, Typed
  <2> QED
    BY <2>1, GotoTyped DEF BeginSave, EndSave, At, Reporting, Removing, Assigning, Handling
<1>2. MapsTyped(NoMapping)
  BY NonePorts DEF MapsTyped, NoMapping
<1>3. UNCHANGED <<peerToIf, peerToPort>> /\ dirty' \in BOOLEAN
  BY DEF BeginSave, EndSave, maps, Typed, SavedTyped
<1>4. MapsTyped(file') /\ DOMAIN saving' = Polls /\ \A b \in Polls : MapsTyped(saving'[b])
  <2>1. MapsTyped(Mapping) /\ MapsTyped(file) /\ DOMAIN saving = Polls
        /\ \A b \in Polls : MapsTyped(saving[b])
    BY DEF Typed, SavedTyped
  <2>2. CASE UNCHANGED disk
    BY <2>1, <2>2 DEF disk
  <2>3. CASE file' = NoMapping /\ saving' = [saving EXCEPT ![a] = Mapping]
    BY <1>2, <2>1, <2>3
  <2>4. CASE file' \in {file, saving[a]} /\ saving' = [saving EXCEPT ![a] = NoMapping]
    BY <1>2, <2>1, <2>4
  <2> QED
    BY <2>2, <2>3, <2>4 DEF BeginSave, EndSave
<1> QED
  BY <1>1, <1>3, <1>4 DEF Typed, SavedTyped, MapsTyped, Mapping

\* A report: what the server stores of it are ports.
LEMMA ReportTyped ==
    ASSUME Typed, NEW a \in Polls, ReportPorts(a)
    PROVE  PollsTyped' /\ peer_ports' \in [Peers -> Ports \union {0}]
<1> DEFINE s == polls[a]
<1>1. PollTyped(s)
  BY DEF Typed, PollsTyped
<1>2. Stored(s.ports) \in [Peers -> Ports \union {0}]
  BY <1>1 DEF Typed, ServerTyped, PollTyped, PortsOf, Range, Stored
<1>3. peer_ports' \in [Peers -> Ports \union {0}]
  BY <1>2 DEF ReportPorts, NothingToReport, ReportStored, ReportRefused, ReportLost,
              Typed, ServerTyped
<1>4. ASSUME StartRelays(a) PROVE PollsTyped'
  <2> DEFINE r == [s EXCEPT !.pc = "relay", !.todo = s.keyed, !.seen = {},
                            !.known = None, !.ports = None]
  <2>1. /\ DOMAIN r = Fields /\ r.config = s.config /\ r.keyed = s.keyed /\ r.todo = s.keyed
        /\ r.pc = "relay" /\ r.ports = None
    BY <1>1 DEF PollTyped, Fields
  <2>2. Become(a, r)
    BY <1>4 DEF StartRelays
  <2> HIDE DEF r
  <2>3. PollTyped(r)
    BY <1>1, <2>1, NonePorts DEF PollTyped, Reporting, Assigning, Handling, Removing
  <2> QED
    BY <2>2, <2>3, BecomeTyped DEF Typed
<1>5. ASSUME Fail(a) PROVE PollsTyped'
  BY <1>5, IdleTyped, BecomeTyped DEF Fail, Typed
<1> QED
  BY <1>3, <1>4, <1>5 DEF ReportPorts, NothingToReport, ReportStored, ReportRefused, ReportLost

\* A peer that is given a relay proxy and a monitor, or none, and the end of a
\* poll: a peer that is watched has a proxy.
LEMMA RelayTyped ==
    ASSUME Typed, NEW a \in Polls, RelayPeer(a) \/ EndPoll(a)
    PROVE  PollsTyped' /\ WatchTyped'
<1> DEFINE s == polls[a]
<1>1. PollTyped(s) /\ PollsTyped /\ WatchTyped
  BY DEF Typed, PollsTyped
<1>2. ASSUME Fail(a) \/ Become(a, Idle) PROVE PollsTyped'
  BY <1>1, <1>2, IdleTyped, BecomeTyped DEF Fail
<1>3. CASE EndPoll(a)
  <2>1. /\ DOMAIN relays' = DOMAIN relays \ (DOMAIN peerStates \ s.keyed)
        /\ DOMAIN peerStates' = DOMAIN peerStates \intersect s.keyed
    BY <1>3 DEF EndPoll, Restrict
  <2> QED
    BY <1>1, <1>2, <1>3, <2>1 DEF EndPoll, WatchTyped
<1>4. CASE RelayPeer(a)
  <2> DEFINE p == Current(a)
  <2>1. p \in s.todo /\ p \in Peers /\ s.pc = "relay"
    BY <1>1, <1>4, CurrentIsMember DEF PollTyped, RelayPeer, At
  <2>2. ASSUME NEW r, Become(a, r),
               \/ \E idx : r = [s EXCEPT !.todo = Rest(a), !.idx = idx]
               \/ r = [s EXCEPT !.todo = Rest(a)]
        PROVE  PollsTyped'
    <3>1. DOMAIN s = Fields
      BY <1>1 DEF PollTyped
    <3>2. /\ DOMAIN r = Fields /\ r.config = s.config /\ r.keyed = s.keyed
          /\ r.todo = Rest(a) /\ r.pc = s.pc /\ r.ports = s.ports
      BY <2>2, <3>1 DEF Fields
    <3>3. PollTyped(r)
      BY <1>1, <2>1, <3>2 DEF PollTyped, Rest, Reporting, Assigning, Handling, Removing
    <3> QED
      BY <1>1, <2>2, <3>3, BecomeTyped
  <2>3. CASE EnsureRelayProxy(a, p)
    <3>1. DOMAIN relays' = DOMAIN relays \union {p} /\ DOMAIN peerStates' = DOMAIN peerStates \union {p}
      BY <2>3 DEF EnsureRelayProxy, With
    <3>2. WatchTyped'
      BY <1>1, <2>1, <3>1 DEF WatchTyped
    <3>3. PollsTyped'
      BY <2>2, <2>3 DEF EnsureRelayProxy
    <3> QED
      BY <3>2, <3>3
  <2>4. CASE BindFails(a, p)
    BY <1>1, <1>2, <2>4 DEF BindFails, watch, WatchTyped
  <2>5. CASE NoInterface(a, p)
    BY <1>1, <2>2, <2>5 DEF NoInterface, watch, WatchTyped
  <2> QED
    BY <1>4, <2>3, <2>4, <2>5 DEF RelayPeer
<1> QED
  BY <1>3, <1>4

\* Every step of a poll keeps the types,
LEMMA PollKeepsTypes ==
    ASSUME Typed, NEW a \in Polls, Poll(a)
    PROVE  Typed'
<1>1. CASE GetConfig(a) \/ ListInterfaces(a)
  BY <1>1, BeginTyped DEF GetConfig, ListInterfaces, Typed, ServerTyped, SavedTyped, WatchTyped,
                          server, disk, maps, watch, MapsTyped, Mapping
<1>2. CASE AssignPeer(a)
  <2>1. dirty' \in BOOLEAN
    BY <1>2 DEF AssignPeer, Typed, SavedTyped
  <2> QED
    BY <1>2, <2>1, AssignTyped DEF AssignPeer, Typed, ServerTyped, SavedTyped, WatchTyped,
                                   server, disk, watch
<1>3. CASE CreateInterface(a) \/ SetInterface(a) \/ BeginRemove(a) \/ RemoveInterface(a)
  <2>1. kept' \subseteq Peers
    BY <1>3 DEF CreateInterface, SetInterface, BeginRemove, RemoveInterface, At, Removing,
                Typed, ServerTyped, PollsTyped, PollTyped
  <2> QED
    BY <1>3, <2>1, InterfaceTyped DEF CreateInterface, SetInterface, BeginRemove, RemoveInterface,
       Typed, ServerTyped, SavedTyped, WatchTyped, server, disk, maps, watch, MapsTyped, Mapping
<1>4. CASE ForgetPeer(a)
  <2>1. DOMAIN peerToIf \subseteq Peers /\ PortsOf(peerToPort, Peers)
    BY DEF Typed, SavedTyped, MapsTyped, Mapping
  <2>2. PortsOf(peerToPort', Peers) /\ dirty' = TRUE
    BY <1>4, <2>1, PortsKept DEF ForgetPeer
  <2>3. DOMAIN peerToIf' \subseteq Peers
    BY <1>4, <2>1 DEF ForgetPeer, Without, Restrict
  <2> QED
    BY <1>4, <2>2, <2>3, InterfaceTyped DEF ForgetPeer, Typed, ServerTyped, SavedTyped, WatchTyped,
                                      server, disk, watch, MapsTyped, Mapping
<1>5. CASE BeginSave(a) \/ EndSave(a)
  BY <1>5, SaveTyped DEF BeginSave, EndSave, Typed, ServerTyped, WatchTyped, server, watch
<1>6. CASE ReportPorts(a)
  BY <1>6, ReportTyped DEF ReportPorts, Typed, ServerTyped, SavedTyped, WatchTyped,
                           disk, maps, watch, MapsTyped, Mapping
<1>7. CASE RelayPeer(a) \/ EndPoll(a)
  BY <1>7, RelayTyped DEF RelayPeer, EndPoll, Typed, ServerTyped, SavedTyped,
                          server, disk, maps, MapsTyped, Mapping
<1> QED
  BY <1>1, <1>2, <1>3, <1>4, <1>5, <1>6, <1>7 DEF Poll, Reconcile

\* and so does every step of the agent and the server.
LEMMA NextKeepsTypes == Typed /\ [Next]_vars => Typed'
<1> SUFFICES ASSUME Typed, [Next]_vars PROVE Typed'
  OBVIOUS
<1>1. CASE UNCHANGED vars
  BY <1>1 DEF vars, Typed, ServerTyped, SavedTyped, WatchTyped, PollsTyped,
              server, disk, maps, watch, MapsTyped, Mapping
<1>2. ASSUME NEW p \in Peers, Join(p) \/ Leave(p) \/ ChangeKey(p) PROVE Typed'
  BY <1>2 DEF Join, Leave, ChangeKey, Typed, ServerTyped, SavedTyped, WatchTyped, PollsTyped,
              disk, maps, watch, MapsTyped, Mapping
<1>3. CASE Restart
  <2>1. ServerTyped' /\ WatchTyped' /\ PollsTyped'
    BY <1>3, NonePorts, IdleTyped DEF Restart, Typed, ServerTyped, WatchTyped, PollsTyped, server
  <2>2. MapsTyped(NoMapping)
    BY NonePorts DEF MapsTyped, NoMapping
  <2>3. SavedTyped'
    BY <1>3, <2>2 DEF Restart, Typed, SavedTyped, MapsTyped, Mapping
  <2> QED
    BY <2>1, <2>3 DEF Typed
<1> QED
  BY <1>1, <1>2, <1>3, PollKeepsTypes DEF Next

\* The initial states are well typed.
LEMMA InitTyped == Init => Typed
<1> SUFFICES ASSUME Init PROVE Typed
  OBVIOUS
<1>1. MapsTyped(NoMapping)
  BY NonePorts DEF MapsTyped, NoMapping
<1>2. SavedTyped
  BY <1>1, NonePorts DEF Init, SavedTyped, MapsTyped, Mapping
<1> QED
  BY <1>2, NonePorts, IdleTyped DEF Init, Typed, ServerTyped, WatchTyped, PollsTyped

\* getIfName, the file and the polls in flight never assign one interface twice.
THEOREM InterfacesAreDistinct == Spec => []IfNamesDistinct
<1>1. IfNamesInv => IfNamesDistinct
  BY DEF IfNamesInv, Assigns, IfNamesDistinct
<1> QED
  BY <1>1, InitIfNames, NextKeepsIfNames, PTL DEF Spec

\* The rows, the maps, the file and the polls keep their types, however many
\* polls overlap: whatever the agent saves, loads, reports or is answered.
THEOREM ReconcilerTypesHold == Spec => []ReconcilerTypeOK
<1>1. IfNamesInv /\ Typed => ReconcilerTypeOK
  <2> SUFFICES ASSUME IfNamesInv, Typed PROVE ReconcilerTypeOK
    OBVIOUS
  <2>1. ASSUME NEW m, Assigns(m.ifs), MapsTyped(m) PROVE MappingType(m)
    BY <2>1 DEF Assigns, MapsTyped, PortsOf, MappingType, Range
  <2>2. MappingType(Mapping) /\ MappingType(file)
    BY <2>1 DEF IfNamesInv, Typed, SavedTyped, Mapping
  <2>3. \A a \in Polls : /\ polls[a].keyed \subseteq polls[a].config /\ polls[a].config \subseteq Peers
                         /\ MappingType(saving[a])
    BY <2>1 DEF IfNamesInv, Typed, SavedTyped, PollsTyped, PollTyped
  <2> QED
    BY <2>2, <2>3 DEF ReconcilerTypeOK, Typed, ServerTyped, SavedTyped, WatchTyped
<1> QED
  BY <1>1, InitIfNames, NextKeepsIfNames, InitTyped, NextKeepsTypes, PTL DEF Spec

-----------------------------------------------------------------------------
(* One poll at a time, as when every poll ends before the timer's next.    *)

\* Who has not joined yet is known to nobody; whoever has an interface and is
\* still in the network is in the configuration of the poll; and whoever was
\* removed, and the interface was not, has left.
Joined(a) ==
    /\ kept \intersect (roster \union fresh \union polls[a].config) = {}
    /\ \A p \in fresh : p \notin DOMAIN peerToIf \union DOMAIN file.ifs
                                   \union DOMAIN saving[a].ifs \union polls[a].config
                                   \union DOMAIN relays
    /\ polls[a].pc # "idle" => roster \intersect DOMAIN peerToIf \subseteq polls[a].config
    /\ polls[a].pc \in Removing => polls[a].peer \in DOMAIN peerToIf \ polls[a].config

\* What the poll has been told and is going to report agrees with the server's
\* rows and the agent's map.
Reports(a) ==
    /\ \A p \in Peers \ roster : peer_ports[p] = 0
    /\ \A p \in DOMAIN polls[a].ports :
          p \in DOMAIN peerToPort /\ peerToPort[p] = polls[a].ports[p]
    /\ polls[a].pc \in Reporting =>
          \A p \in roster \intersect polls[a].config : polls[a].known[p] = peer_ports[p]

\* The agent has a port for p, and the server knows no other.
SettledPort(p) == p \in DOMAIN peerToPort /\ peer_ports[p] \in {0, peerToPort[p]}

\* The peers the poll has given a port.
Given(a) ==
    LET r == polls[a]
    IN  IF r.pc \in {"idle", "list"} THEN {}
        ELSE IF r.pc = "peer" THEN r.keyed \ r.todo
        ELSE IF r.pc \in Handling THEN (r.keyed \ r.todo) \union {r.peer}
        ELSE r.keyed

RelaysInv(a) ==
    /\ Given(a) \subseteq DOMAIN peerToPort
    /\ \A p \in roster \intersect Given(a) : SettledPort(p)
    /\ \A p \in roster \intersect DOMAIN relays :
          SettledPort(p) /\ relays[p].awg = peerToPort[p]

\* As long as the agent was not stopped, the ports that the poll or the server
\* knows are those of its map, and no two peers have the same.
PortsInv(a) ==
    /\ \A p \in Peers :
          peer_ports[p] > 0 => p \in DOMAIN peerToPort /\ peerToPort[p] = peer_ports[p]
    /\ polls[a].pc \in Reporting => \A p \in polls[a].config :
          polls[a].known[p] > 0 => p \in DOMAIN peerToPort /\ peerToPort[p] = polls[a].known[p]
    /\ IsInjective(peerToPort)
    /\ \A p \in DOMAIN relays \intersect (DOMAIN peerToIf \union roster \union polls[a].config) :
          p \in DOMAIN peerToPort /\ relays[p].awg = peerToPort[p]

\* And an interface serves peers that it is mapped to, at the port of their map,
\* and those whose interface was not deleted.
LinksInv(a) ==
    /\ \A i \in DOMAIN links : \A p \in links[i].hosts \ kept :
          p \in DOMAIN peerToIf /\ peerToIf[p] = i
    /\ \A i \in DOMAIN links : \A p \in Served(i) :
          p \in DOMAIN peerToPort /\ links[i].port = peerToPort[p]
    /\ polls[a].pc \in Handling \union Removing =>
          polls[a].peer \in DOMAIN peerToIf /\ polls[a].idx = peerToIf[polls[a].peer]
    /\ polls[a].pc = "forget" => \A i \in DOMAIN links : polls[a].peer \notin links[i].hosts \ kept

PollInv(a) == /\ Joined(a) /\ Reports(a) /\ RelaysInv(a) /\ crashes \in Nat
              /\ crashes = 0 => PortsInv(a) /\ LinksInv(a)

\* The poll goes on with what it was told, or fails.
GoesOn(s, t) ==
    \/ t = Idle
    \/ /\ s.pc # "idle" /\ t.config = s.config
       /\ t.pc \in Reporting => s.pc \in Reporting /\ t.known = s.known
       /\ \A p \in DOMAIN t.ports : p \in DOMAIN s.ports /\ t.ports[p] = s.ports[p]

\* A poll that is idle.
LEMMA IdleFacts ==
    /\ Idle.pc = "idle" /\ Idle.config = {} /\ DOMAIN Idle.ports = {}
    /\ Idle.pc \notin Reporting \union Handling \union Removing
BY NonePorts DEF Idle, Reporting, Assigning, Handling, Removing

\* A poll that goes on, while the server's rows and the maps stay.
LEMMA GoesOnKeeps ==
    ASSUME Typed, NEW a \in Polls, PollInv(a), UNCHANGED <<server, peerToIf, peerToPort, crashes>>,
           GoesOn(polls[a], polls'[a]), polls'[a].pc \in Removing => polls'[a].peer \in Strays(a),
           \A p \in DOMAIN file'.ifs \union DOMAIN saving'[a].ifs :
               p \in DOMAIN peerToIf \union DOMAIN file.ifs \union DOMAIN saving[a].ifs,
           \A p \in DOMAIN relays' :
               \/ p \in DOMAIN relays /\ relays'[p] = relays[p]
               \/ p \in polls[a].config \intersect DOMAIN peerToPort /\ relays'[p].awg = peerToPort[p],
           UNCHANGED kept \/ (polls[a].pc # "idle" /\ kept' \subseteq kept \union Strays(a))
    PROVE  Joined(a)' /\ Reports(a)' /\ (crashes = 0 => PortsInv(a)')
<1> DEFINE s == polls[a]
           t == polls'[a]
<1>1. UNCHANGED <<roster, peer_ports, fresh, peerToIf, peerToPort>>
  BY DEF server
<1>2. CASE t = Idle
  BY <1>1, <1>2, IdleFacts DEF PollInv, Joined, Reports, PortsInv, Strays
<1>3. CASE t # Idle
  <2>1. /\ s.pc # "idle" /\ t.config = s.config
        /\ t.pc \in Reporting => s.pc \in Reporting /\ t.known = s.known
        /\ \A p \in DOMAIN t.ports : p \in DOMAIN s.ports /\ t.ports[p] = s.ports[p]
    BY <1>3 DEF GoesOn
  <2>2. Joined(a)'
    BY <1>1, <2>1 DEF PollInv, Joined, Strays
  <2>3. Reports(a)'
    BY <1>1, <2>1 DEF PollInv, Reports
  <2>4. crashes = 0 => PortsInv(a)'
    BY <1>1, <2>1 DEF PollInv, PortsInv
  <2> QED
    BY <2>2, <2>3, <2>4
<1> QED
  BY <1>2, <1>3

\* A poll that has given a port to no further peer.
LEMMA GivenKeeps ==
    ASSUME NEW a \in Polls, PollInv(a), UNCHANGED <<server, peerToPort, relays>>,
           Given(a)' \subseteq Given(a)
    PROVE  RelaysInv(a)'
BY DEF PollInv, RelaysInv, SettledPort, server

\* A poll begins: what it is told is what the server has.
LEMMA GetConfigKeeps ==
    ASSUME Typed, NEW a \in Polls, PollInv(a), GetConfig(a)
    PROVE  PollInv(a)'
<1> DEFINE t == polls'[a]
<1>1. UNCHANGED <<server, links, kept, disk, maps, relays, crashes>>
  BY DEF GetConfig, watch, faults
<1>2. /\ t.pc = "list" /\ t.config = roster /\ DOMAIN t.ports = {}
      /\ t.known = Restrict(peer_ports, roster)
  <2> DEFINE known == Restrict(peer_ports, roster)
             r == [Idle EXCEPT !.pc = "list", !.config = roster, !.keyed = roster \ keyless,
                               !.known = known]
  <2>1. polls'[a] = r
    BY BecomeIs DEF GetConfig
  <2> HIDE DEF known
  <2>2. r.pc = "list" /\ r.config = roster /\ r.ports = None /\ r.known = known
    BY DEF Idle
  <2> QED
    BY <2>1, <2>2, NonePorts DEF known
<1> HIDE DEF t
<1>3. roster \subseteq Peers /\ \A p \in roster : t.known[p] = peer_ports[p]
  BY <1>2 DEF Restrict, Typed, ServerTyped
<1>4. Joined(a)'
  BY <1>1, <1>2 DEF PollInv, Joined, server, disk, maps, t, Typed, ServerTyped, Removing
<1>5. Reports(a)'
  BY <1>1, <1>2, <1>3 DEF PollInv, Reports, server, maps, t
<1>6. RelaysInv(a)'
  BY <1>1, <1>2, GivenKeeps DEF Given, t, maps
<1>7. crashes' = 0 => PortsInv(a)' /\ LinksInv(a)'
  BY <1>1, <1>2, <1>3 DEF PollInv, PortsInv, LinksInv, Served, server, maps, t, Handling, Removing
<1> QED
  BY <1>1, <1>4, <1>5, <1>6, <1>7 DEF PollInv

\* A poll that takes the next peer, or has none left, has given a port to the
\* peer it leaves.
LEMMA NextPeerMoves ==
    ASSUME Typed, NEW a \in Polls, polls[a].pc \in Handling, NEW t, NextPeer(a, t),
           DOMAIN t = Fields, t.config = polls[a].config, t.keyed = polls[a].keyed,
           t.known = polls[a].known,
           \A p \in DOMAIN t.ports : p \in DOMAIN polls[a].ports /\ t.ports[p] = polls[a].ports[p]
    PROVE  /\ GoesOn(polls[a], polls'[a]) /\ Given(a)' \subseteq Given(a)
           /\ polls'[a].pc \in {"peer", "remove"}
<1> DEFINE s == polls[a]
           r == [t EXCEPT !.todo = Rest(a), !.peer = 0, !.idx = 0,
                          !.pc = IF Rest(a) = {} THEN "remove" ELSE "peer"]
<1>1. PollTyped(s)
  BY DEF Typed, PollsTyped
<1>2. /\ r.config = s.config /\ r.keyed = s.keyed /\ r.known = s.known /\ r.ports = t.ports
      /\ r.todo = Rest(a) /\ r.pc = IF Rest(a) = {} THEN "remove" ELSE "peer"
  BY DEF Fields
<1>3. polls'[a] = r
  BY BecomeIs DEF NextPeer
<1> HIDE DEF r
<1>4. GoesOn(s, r)
  BY <1>2 DEF GoesOn, Handling, Reporting, Assigning
<1>5. Rest(a) = s.todo \ {s.peer}
  BY <1>1 DEF PollTyped, Rest, Current
<1>6. r.keyed \ Rest(a) \subseteq (s.keyed \ s.todo) \union {s.peer}
  BY <1>2, <1>5
<1>7. Given(a) = (s.keyed \ s.todo) \union {s.peer}
  BY DEF Given, Handling
<1>8. Given(a)' = r.keyed \ Rest(a)
  BY <1>2, <1>3 DEF Given, Handling
<1> QED
  BY <1>2, <1>3, <1>4, <1>6, <1>7, <1>8

\* ensureInterface throws: the poll forgets the port it would report.
LEMMA EnsureFailsMoves ==
    ASSUME Typed, NEW a \in Polls, polls[a].pc \in Handling, EnsureFails(a)
    PROVE  /\ GoesOn(polls[a], polls'[a]) /\ Given(a)' \subseteq Given(a)
           /\ polls'[a].pc \in {"peer", "remove"}
<1> DEFINE s == polls[a]
           ports == Without(s.ports, s.peer)
           t == [s EXCEPT !.ports = ports]
<1>1. DOMAIN s = Fields
  BY DEF Typed, PollsTyped, PollTyped
<1>2. \A p \in DOMAIN ports : p \in DOMAIN s.ports /\ ports[p] = s.ports[p]
  BY DEF Without, Restrict
<1>3. NextPeer(a, t)
  BY DEF EnsureFails
<1> HIDE DEF ports
<1>4. /\ DOMAIN t = Fields /\ t.config = s.config /\ t.keyed = s.keyed
      /\ t.known = s.known /\ t.ports = ports
  BY <1>1 DEF Fields
<1> HIDE DEF t
<1> QED
  BY <1>2, <1>3, <1>4, NextPeerMoves

\* An interface is made, and set to serve the peer it is mapped to.
LEMMA InterfaceKeeps ==
    ASSUME Typed, NEW a \in Polls, IfNamesInv, PollInv(a), CreateInterface(a) \/ SetInterface(a)
    PROVE  PollInv(a)'
<1> DEFINE s == polls[a]
           t == polls'[a]
<1>1. /\ UNCHANGED <<server, kept, disk, peerToIf, peerToPort, relays, crashes>>
      /\ s.pc \in Handling /\ DOMAIN s = Fields
  BY DEF CreateInterface, SetInterface, maps, watch, faults, Failure, At, Handling,
         Typed, PollsTyped, PollTyped
<1>2. /\ GoesOn(s, t) /\ Given(a)' \subseteq Given(a)
      /\ t.pc \in {"peer", "remove"} \/ (t.pc = "set" /\ t.peer = s.peer /\ t.idx = s.idx)
  <2>1. CASE EnsureFails(a)
    BY <1>1, <2>1, EnsureFailsMoves
  <2>2. CASE NextPeer(a, s)
    BY <1>1, <2>2, NextPeerMoves
  <2>3. CASE Goto(a, "set")
    <3> DEFINE r == [s EXCEPT !.pc = "set"]
    <3>1. t = r
      BY <2>3, BecomeIs DEF Goto
    <3>2. /\ r.pc = "set" /\ r.config = s.config /\ r.keyed = s.keyed /\ r.known = s.known
          /\ r.todo = s.todo /\ r.peer = s.peer /\ r.idx = s.idx /\ r.ports = s.ports
      BY <1>1 DEF Fields
    <3> HIDE DEF r
    <3> QED
      BY <1>1, <3>1, <3>2 DEF GoesOn, Given, Handling, Reporting, Assigning
  <2> QED
    BY <2>1, <2>2, <2>3 DEF CreateInterface, SetInterface
<1> HIDE DEF s, t
<1>3. Joined(a)' /\ Reports(a)' /\ (crashes = 0 => PortsInv(a)')
  BY <1>1, <1>2, GoesOnKeeps DEF s, t, disk, Removing
<1>4. RelaysInv(a)'
  BY <1>1, <1>2, GivenKeeps
<1>5. ASSUME crashes = 0 PROVE LinksInv(a)'
  <2>1. LinksInv(a)
    BY <1>5 DEF PollInv
  <2>2. s.peer \in DOMAIN peerToIf /\ s.idx = peerToIf[s.peer]
    BY <1>1, <2>1 DEF LinksInv, s
  <2>3. s.pc = "set" => s.peer \in DOMAIN peerToPort /\ s.ports[s.peer] = peerToPort[s.peer]
    BY <1>1 DEF Typed, PollsTyped, PollTyped, PollInv, Reports, Handling, s
  <2>4. \A i \in DOMAIN links' : \A p \in links'[i].hosts :
           \/ i \in DOMAIN links /\ p \in links[i].hosts /\ links'[i].port = links[i].port
           \/ i = s.idx /\ s.pc = "set" /\ links'[i].port = s.ports[s.peer]
              /\ (p = s.peer \/ (i \in DOMAIN links /\ p \in links[i].hosts))
    <3>1. CASE UNCHANGED links
      BY <3>1
    <3>2. CASE links' = With(links, s.idx, [port |-> 0, hosts |-> {}, up |-> FALSE])
               /\ s.idx \notin DOMAIN links
      BY <3>2 DEF With
    <3>3. ASSUME NEW up, s.pc = "set",
                 links' = [links EXCEPT ![s.idx] = [port |-> s.ports[s.peer],
                              hosts |-> @.hosts \union {s.peer}, up |-> up]]
          PROVE \A i \in DOMAIN links' : \A p \in links'[i].hosts :
                  \/ i \in DOMAIN links /\ p \in links[i].hosts /\ links'[i].port = links[i].port
                  \/ i = s.idx /\ s.pc = "set" /\ links'[i].port = s.ports[s.peer]
                     /\ (p = s.peer \/ (i \in DOMAIN links /\ p \in links[i].hosts))
      BY <3>3
    <3>4. CASE \E comesUp \in BOOLEAN : Configure(a, comesUp) /\ s.pc = "set"
      BY <3>3, <3>4 DEF Configure, Set, s
    <3> QED
      BY <3>1, <3>2, <3>4 DEF CreateInterface, SetInterface, s, At
  <2>5. \A i \in DOMAIN links' : \A p \in links'[i].hosts \ kept : p \in DOMAIN peerToIf /\ peerToIf[p] = i
    BY <2>1, <2>2, <2>4 DEF LinksInv
  <2>6. \A p \in DOMAIN peerToIf : peerToIf[p] = s.idx => p = s.peer
    BY <2>2 DEF IfNamesInv, Assigns, IsInjective
  <2>7. \A i \in DOMAIN links' : \A p \in links'[i].hosts :
           p \in DOMAIN peerToIf /\ peerToIf[p] = i
             => p \in DOMAIN peerToPort /\ links'[i].port = peerToPort[p]
    BY <2>1, <2>2, <2>3, <2>4, <2>6 DEF LinksInv, Served
  <2> QED
    BY <1>1, <1>2, <2>1, <2>2, <2>5, <2>7 DEF LinksInv, Served, Handling, Removing, t
<1> QED
  BY <1>1, <1>3, <1>4, <1>5 DEF PollInv

\* A poll that only goes on to another place: it lists the interfaces, comes to
\* a peer that has left, removes its interface, or saves the mappings.
LEMMA PlaceKeeps ==
    ASSUME Typed, NEW a \in Polls, PollInv(a),
           \/ ListInterfaces(a) \/ BeginRemove(a) \/ RemoveInterface(a)
           \/ BeginSave(a) \/ EndSave(a)
    PROVE  PollInv(a)'
<1> DEFINE s == polls[a]
           t == polls'[a]
<1>1. DOMAIN s = Fields
  BY DEF Typed, PollsTyped, PollTyped
<1>2. /\ UNCHANGED <<server, peerToIf, peerToPort, relays, crashes>>
      /\ UNCHANGED <<links, kept>> \/ RemoveInterface(a)
      /\ \A p \in DOMAIN file'.ifs \union DOMAIN saving'[a].ifs :
            p \in DOMAIN peerToIf \union DOMAIN file.ifs \union DOMAIN saving[a].ifs
  <2>1. DOMAIN NoMapping.ifs = {} /\ DOMAIN Mapping.ifs = DOMAIN peerToIf /\ DOMAIN saving = Polls
    BY NonePorts DEF NoMapping, Mapping, Typed, SavedTyped
  <2>2. CASE UNCHANGED disk
    BY <2>2 DEF disk, ListInterfaces, BeginRemove, RemoveInterface, BeginSave, EndSave,
                maps, watch, faults, Failure
  <2>3. CASE BeginSave(a) \/ EndSave(a)
    <3>1. \/ UNCHANGED disk
          \/ file' = NoMapping /\ saving' = [saving EXCEPT ![a] = Mapping]
          \/ file' \in {file, saving[a]} /\ saving' = [saving EXCEPT ![a] = NoMapping]
      BY <2>3 DEF BeginSave, EndSave
    <3> QED
      BY <2>1, <2>3, <3>1 DEF disk, BeginSave, EndSave, maps, watch, faults, Failure
  <2> QED
    BY <2>2, <2>3 DEF ListInterfaces, BeginRemove, RemoveInterface
<1>3. /\ GoesOn(s, t) /\ Given(a)' \subseteq Given(a) /\ t.pc \notin Handling
      /\ t.pc \in Removing => \/ (t.peer \in Strays(a) /\ t.idx = peerToIf[t.peer])
                              \/ (t.peer = s.peer /\ t.idx = s.idx /\ s.pc \in Removing)
      /\ t.pc = "forget" => RemoveInterface(a)
  <2>1. CASE ListInterfaces(a)
    <3>0. PICK seen : Become(a, [s EXCEPT !.seen = seen, !.todo = s.keyed,
                                   !.pc = IF s.keyed = {} THEN "remove" ELSE "peer"])
      BY <2>1 DEF ListInterfaces
    <3> DEFINE r == [s EXCEPT !.seen = seen, !.todo = s.keyed,
                              !.pc = IF s.keyed = {} THEN "remove" ELSE "peer"]
    <3>1. t = r /\ s.pc = "list"
      BY <2>1, <3>0, BecomeIs DEF ListInterfaces, At
    <3>2. /\ r.config = s.config /\ r.keyed = s.keyed /\ r.known = s.known /\ r.todo = s.keyed
          /\ r.ports = s.ports /\ r.pc = (IF s.keyed = {} THEN "remove" ELSE "peer")
      BY <1>1 DEF Fields
    <3> HIDE DEF r
    <3>3. GoesOn(s, r) /\ r.pc \notin Handling \union Removing /\ r.pc # "forget"
      BY <3>1, <3>2 DEF GoesOn, Handling, Removing, Reporting
    <3>4. Given(a)' = {}
      BY <3>1, <3>2 DEF Given, Handling
    <3> QED
      BY <3>1, <3>3, <3>4
  <2>2. CASE BeginRemove(a)
    <3>1. PICK p \in Strays(a) : t = [s EXCEPT !.pc = "unlink", !.peer = p, !.idx = peerToIf[p]]
      BY <2>2, BecomeIs DEF BeginRemove
    <3>2. /\ t.config = s.config /\ t.keyed = s.keyed /\ t.known = s.known /\ t.todo = s.todo
          /\ t.ports = s.ports /\ t.pc = "unlink" /\ t.peer = p /\ t.idx = peerToIf[p] /\ s.pc = "remove"
      BY <1>1, <2>2, <3>1 DEF Fields, BeginRemove, At
    <3>3. Given(a)' = Given(a)
      BY <3>2 DEF Given, Handling
    <3>4. GoesOn(s, t)
      BY <3>2 DEF GoesOn, Reporting, Removing
    <3> QED
      BY <3>2, <3>3, <3>4 DEF Handling
  <2>3. ASSUME NEW pc, Goto(a, pc), s.pc \in {"unlink", "remove", "save"},
               pc \in {"save", "report"} \/ (pc = "forget" /\ s.pc = "unlink")
        PROVE  /\ GoesOn(s, t) /\ Given(a)' \subseteq Given(a)
               /\ t.pc = pc /\ t.peer = s.peer /\ t.idx = s.idx
    <3>1. t = [s EXCEPT !.pc = pc]
      BY <2>3, BecomeIs DEF Goto
    <3>2. /\ t.config = s.config /\ t.keyed = s.keyed /\ t.known = s.known /\ t.todo = s.todo
          /\ t.ports = s.ports /\ t.pc = pc /\ t.peer = s.peer /\ t.idx = s.idx
      BY <1>1, <3>1 DEF Fields
    <3>3. Given(a)' = Given(a)
      BY <2>3, <3>2 DEF Given, Handling
    <3> QED
      BY <2>3, <3>2, <3>3 DEF GoesOn, Reporting, Removing
  <2>4. CASE RemoveInterface(a)
    <3>1. Goto(a, "forget") /\ s.pc = "unlink"
      BY <2>4 DEF RemoveInterface, At
    <3> QED
      BY <2>3, <2>4, <3>1 DEF Handling, Removing
  <2>5. CASE BeginSave(a) \/ EndSave(a)
    <3>1. CASE Fail(a)
      <4>1. t = Idle
        BY <3>1, BecomeIs DEF Fail
      <4> QED
        BY <4>1, IdleFacts DEF GoesOn, Given
    <3> QED
      BY <2>3, <2>5, <3>1 DEF BeginSave, EndSave, At, Handling, Removing
  <2> QED
    BY <2>1, <2>2, <2>4, <2>5
<1> HIDE DEF t
<1>4. t.pc \in Removing => t.peer \in Strays(a)
  BY <1>3 DEF PollInv, Joined, Strays
<1>5. Joined(a)' /\ Reports(a)' /\ (crashes = 0 => PortsInv(a)')
  <2>1. UNCHANGED kept \/ (s.pc # "idle" /\ kept' \subseteq kept \union Strays(a))
    BY <1>2 DEF RemoveInterface, At, PollInv, Joined, Strays, Removing
  <2> QED
    BY <1>2, <1>3, <1>4, <2>1, GoesOnKeeps DEF t
<1>6. RelaysInv(a)'
  BY <1>2, <1>3, GivenKeeps
<1>7. ASSUME crashes = 0 PROVE LinksInv(a)'
  <2>1. LinksInv(a)
    BY <1>7 DEF PollInv
  <2>2. t.pc \in Removing => t.peer \in DOMAIN peerToIf /\ t.idx = peerToIf[t.peer]
    BY <1>3, <1>4, <2>1 DEF LinksInv, Strays
  <2>3. CASE UNCHANGED <<links, kept>> /\ t.pc # "forget"
    BY <1>2, <1>3, <2>1, <2>2, <2>3 DEF LinksInv, Served, t
  <2>4. CASE RemoveInterface(a)
    <3>1. /\ DOMAIN links' \subseteq DOMAIN links /\ \A i \in DOMAIN links' : links'[i] = links[i]
          /\ s.idx \notin DOMAIN links' \/ s.peer \in kept'
          /\ kept \subseteq kept'
      BY <2>4 DEF RemoveInterface, Without, Restrict
    <3>2. t.peer = s.peer
      <4>1. t = [s EXCEPT !.pc = "forget"]
        BY <2>4, BecomeIs DEF RemoveInterface, Goto, t
      <4> QED
        BY <1>1, <4>1 DEF Fields
    <3>3. s.peer \in DOMAIN peerToIf /\ s.idx = peerToIf[s.peer]
      BY <2>1, <2>4 DEF LinksInv, RemoveInterface, At, Removing
    <3>4. \A i \in DOMAIN links' : s.peer \notin links'[i].hosts \ kept'
      BY <2>1, <3>1, <3>3 DEF LinksInv
    <3> QED
      BY <1>2, <1>3, <2>1, <2>2, <3>1, <3>2, <3>4 DEF LinksInv, Served, t
  <2> QED
    BY <1>2, <1>3, <2>3, <2>4
<1> QED
  BY <1>2, <1>5, <1>6, <1>7 DEF PollInv

\* A peer is given the interface and the port it has, or new ones: what the
\* server knows of it is then its port, and what it is relayed goes there.
LEMMA AssignKeeps ==
    ASSUME Typed, IfNamesInv, NEW a \in Polls, PollInv(a), AssignPeer(a)
    PROVE  PollInv(a)'
<1> SUFFICES ASSUME NEW p, p = Current(a) PROVE PollInv(a)'
  OBVIOUS
<1> DEFINE s == polls[a]
           t == polls'[a]
           idx == GetIfName(p)
<1>1. /\ UNCHANGED <<server, links, kept, disk, relays, crashes>> /\ s.pc = "peer"
      /\ PollTyped(s) /\ DOMAIN s = Fields
  BY DEF AssignPeer, At, watch, faults, Typed, PollsTyped, PollTyped
<1>2. p \in s.todo /\ p \in s.config /\ p \in Peers /\ s.pc \in Reporting
  BY <1>1, CurrentIsMember DEF PollTyped, Assigning, Reporting
<1> HIDE DEF idx
<1>3. /\ DOMAIN peerToIf' = DOMAIN peerToIf \union {p} /\ peerToIf'[p] = idx
      /\ \A q \in DOMAIN peerToIf : peerToIf'[q] = peerToIf[q]
  BY DEF AssignPeer, With, GetIfName, idx
<1>4. p \notin fresh /\ UNCHANGED <<roster, fresh, peer_ports>>
  BY <1>1, <1>2 DEF PollInv, Joined, server
<1>7. ASSUME crashes = 0 PROVE \A i \in DOMAIN links : Served(i)' \subseteq Served(i)
  <2>1. p \notin kept /\ UNCHANGED links
    BY <1>1, <1>2 DEF PollInv, Joined
  <2>2. \A i \in DOMAIN links : p \in links[i].hosts => p \in DOMAIN peerToIf
    BY <1>7, <2>1 DEF PollInv, LinksInv
  <2> QED
    BY <1>3, <2>1, <2>2 DEF Served
<1>5. CASE Fail(a) /\ UNCHANGED peerToPort
  <2>1. t = Idle
    BY <1>5, BecomeIs DEF Fail
  <2>2. Joined(a)'
    BY <1>1, <1>3, <1>4, <2>1, IdleFacts DEF PollInv, Joined, disk
  <2>3. Reports(a)' /\ Given(a)' = {} /\ (crashes' = 0 => PortsInv(a)')
    BY <1>1, <1>2, <1>3, <1>4, <1>5, <2>1, IdleFacts DEF PollInv, Reports, PortsInv, Given
  <2>4. RelaysInv(a)'
    BY <1>1, <1>5, <2>3, GivenKeeps
  <2>5. crashes' = 0 => LinksInv(a)'
    BY <1>1, <1>3, <1>5, <1>7, <2>1, IdleFacts DEF PollInv, LinksInv
  <2> QED
    BY <1>1, <2>2, <2>3, <2>4, <2>5 DEF PollInv
<1>6. ASSUME NEW port \in ListenPort(a, p), peerToPort' = With(peerToPort, p, port),
             Become(a, [s EXCEPT !.pc = IF idx \in s.seen THEN "set" ELSE "create",
                                 !.peer = p, !.idx = idx, !.ports = With(@, p, port)])
      PROVE  PollInv(a)'
  <2> DEFINE ports == With(s.ports, p, port)
             r == [s EXCEPT !.pc = IF idx \in s.seen THEN "set" ELSE "create",
                            !.peer = p, !.idx = idx, !.ports = ports]
  <2>1. /\ DOMAIN ports = DOMAIN s.ports \union {p} /\ ports[p] = port
        /\ \A q \in DOMAIN s.ports \ {p} : ports[q] = s.ports[q]
    BY DEF With
  <2>2. t = r
    BY <1>6, BecomeIs
  <2> HIDE DEF ports
  <2>3. /\ t.pc \in Handling /\ t.config = s.config /\ t.keyed = s.keyed /\ t.todo = s.todo
        /\ t.known = s.known /\ t.peer = p /\ t.idx = idx /\ t.ports = ports
    BY <1>1, <2>2 DEF Fields, Handling
  <2> HIDE DEF r, t
  <2>4. /\ DOMAIN peerToPort' = DOMAIN peerToPort \union {p} /\ peerToPort'[p] = port
        /\ \A q \in DOMAIN peerToPort \ {p} : peerToPort'[q] = peerToPort[q]
    BY <1>6 DEF With
  <2>5. s.known[p] > 0 => port = s.known[p]
    BY <1>6 DEF ListenPort
  <2>6. ~(s.known[p] > 0) /\ p \in DOMAIN peerToPort => port = peerToPort[p]
    BY <1>6 DEF ListenPort, GetPort
  <2>7. ~(s.known[p] > 0) /\ p \notin DOMAIN peerToPort => port \notin Range(peerToPort)
    BY <1>6 DEF ListenPort, GetPort
  <2>8. s.known[p] \in Ports \union {0} /\ (s.known[p] > 0 \/ s.known[p] = 0)
    <3>1. p \in DOMAIN s.known /\ Range(s.known) \subseteq Ports \union {0}
      BY <1>1, <1>2 DEF PollTyped
    <3>2. s.known[p] \in Ports \union {0}
      BY <3>1 DEF Range
    <3>3. \A x \in Ports \union {0} : x > 0 \/ x = 0
      BY PortsAssumption
    <3> QED
      BY <3>2, <3>3
  <2>9. p \in roster => s.known[p] = peer_ports[p]
    BY <1>2 DEF PollInv, Reports
  <2>10. Joined(a)'
    BY <1>1, <1>2, <1>3, <1>4, <2>3 DEF PollInv, Joined, disk, t, Handling, Removing
  <2>11. Reports(a)'
    <3>1. \A q \in DOMAIN ports : q \in DOMAIN peerToPort' /\ peerToPort'[q] = ports[q]
      BY <2>1, <2>4 DEF PollInv, Reports
    <3> QED
      BY <1>2, <1>4, <2>3, <3>1 DEF PollInv, Reports, t
  <2>12. RelaysInv(a)'
    <3>1. Given(a) = s.keyed \ s.todo
      BY <1>1 DEF Given
    <3>2. Given(a)' = (s.keyed \ s.todo) \union {p}
      BY <2>3 DEF Given, Handling, t
    <3>3. p \in roster => SettledPort(p)'
      <4>1. ASSUME p \in roster PROVE peer_ports[p] \in {0, port}
        BY <2>5, <2>8, <2>9, <4>1
      <4>2. p \in DOMAIN peerToPort' /\ peerToPort'[p] = port /\ UNCHANGED peer_ports
        BY <1>4, <2>4
      <4> QED
        BY <4>1, <4>2 DEF SettledPort
    <3>4. \A q : q # p /\ SettledPort(q) => SettledPort(q)'
      BY <1>4, <2>4 DEF SettledPort
    <3>5. p \in roster /\ SettledPort(p) => peerToPort'[p] = peerToPort[p]
      BY <2>4, <2>5, <2>6, <2>8, <2>9 DEF SettledPort
    <3>6. \A q \in roster \intersect DOMAIN relays : SettledPort(q) /\ relays[q].awg = peerToPort[q]
      BY DEF PollInv, RelaysInv
    <3>7. \A q \in roster \intersect DOMAIN relays : relays[q].awg = peerToPort'[q]
      BY <2>4, <3>5, <3>6 DEF SettledPort
    <3>8. \A q \in roster \intersect Given(a) : SettledPort(q)
      BY DEF PollInv, RelaysInv
    <3>9. UNCHANGED <<relays, roster>>
      BY <1>1, <1>4
    <3>10. \A q \in roster \intersect Given(a)' : SettledPort(q)'
      BY <3>1, <3>2, <3>3, <3>4, <3>8
    <3>11. \A q \in roster \intersect DOMAIN relays : SettledPort(q)'
      BY <3>3, <3>4, <3>6
    <3>12. Given(a)' \subseteq DOMAIN peerToPort'
      BY <2>4, <3>1, <3>2 DEF PollInv, RelaysInv
    <3> QED
      BY <3>7, <3>9, <3>10, <3>11, <3>12 DEF RelaysInv
  <2>13. ASSUME crashes = 0
         PROVE  /\ PortsInv(a)'
                /\ \A q \in DOMAIN peerToPort : q \in DOMAIN peerToPort' /\ peerToPort'[q] = peerToPort[q]
    <3>1. PortsInv(a)
      BY <2>13 DEF PollInv
    <3>2. p \in DOMAIN peerToPort => port = peerToPort[p]
      BY <1>2, <2>5, <2>6, <3>1 DEF PortsInv
    <3>3. p \notin DOMAIN peerToPort => port \notin Range(peerToPort)
      BY <1>2, <2>5, <2>7, <3>1 DEF PortsInv
    <3>4. \A q \in DOMAIN peerToPort : q \in DOMAIN peerToPort' /\ peerToPort'[q] = peerToPort[q]
      BY <2>4, <3>2
    <3>5. IsInjective(peerToPort')
      BY <2>4, <3>1, <3>3, <3>4 DEF PortsInv, IsInjective, Range
    <3>6. \A q \in DOMAIN relays \intersect (DOMAIN peerToIf' \union roster \union s.config) :
             q \in DOMAIN peerToPort' /\ relays[q].awg = peerToPort'[q]
      BY <1>2, <1>3, <3>1, <3>4 DEF PortsInv
    <3> QED
      BY <1>1, <1>2, <1>4, <2>3, <3>1, <3>4, <3>5, <3>6 DEF PortsInv, t
  <2>14. ASSUME crashes = 0 PROVE LinksInv(a)'
    <3>1. LinksInv(a)
      BY <2>14 DEF PollInv
    <3>2. \A i \in DOMAIN links : \A q \in Served(i)' :
             q \in DOMAIN peerToPort' /\ links[i].port = peerToPort'[q]
      BY <1>7, <2>13, <2>14, <3>1 DEF LinksInv
    <3> QED
      BY <1>1, <1>3, <2>3, <3>1, <3>2 DEF LinksInv, t, Handling, Removing
  <2> QED
    BY <1>1, <2>10, <2>11, <2>12, <2>13, <2>14 DEF PollInv
<1> QED
  BY <1>5, <1>6 DEF AssignPeer, idx

\* A peer that has left, and its interface is removed, is forgotten.
LEMMA ForgetKeeps ==
    ASSUME Typed, NEW a \in Polls, PollInv(a), ForgetPeer(a)
    PROVE  PollInv(a)'
<1> DEFINE s == polls[a]
           t == polls'[a]
           p == s.peer
<1>1. /\ UNCHANGED <<server, links, kept, disk, relays, crashes>> /\ s.pc = "forget"
      /\ DOMAIN s = Fields
  BY DEF ForgetPeer, At, watch, faults, Typed, PollsTyped, PollTyped
<1>2. /\ t.config = s.config /\ t.keyed = s.keyed /\ t.known = s.known /\ t.todo = s.todo
      /\ t.ports = s.ports /\ t.pc = "remove"
  <2>1. t = [s EXCEPT !.pc = "remove", !.peer = 0, !.idx = 0]
    BY BecomeIs DEF ForgetPeer
  <2> QED
    BY <1>1, <2>1 DEF Fields
<1> HIDE DEF t
<1>3. p \in DOMAIN peerToIf \ s.config /\ p \notin roster /\ p \in Peers
  BY <1>1 DEF PollInv, Joined, Removing, Typed, SavedTyped, MapsTyped, Mapping
<1>4. /\ DOMAIN peerToIf' = DOMAIN peerToIf \ {p}
      /\ \A q \in DOMAIN peerToIf' : peerToIf'[q] = peerToIf[q]
      /\ DOMAIN peerToPort' = DOMAIN peerToPort \ {p}
      /\ \A q \in DOMAIN peerToPort' : peerToPort'[q] = peerToPort[q]
  BY DEF ForgetPeer, Without, Restrict
<1>5. Joined(a)'
  BY <1>1, <1>2, <1>4 DEF PollInv, Joined, server, disk, t, Removing
<1>6. DOMAIN s.ports \subseteq s.config /\ s.pc \in Reporting
  BY <1>1 DEF Typed, PollsTyped, PollTyped, PortsOf, Reporting, Removing
<1>7. Reports(a)'
  <2>1. \A q \in DOMAIN s.ports : q \in DOMAIN peerToPort' /\ peerToPort'[q] = s.ports[q]
    BY <1>3, <1>4, <1>6 DEF PollInv, Reports
  <2> QED
    BY <1>1, <1>2, <1>6, <2>1 DEF PollInv, Reports, server, t
<1>8. RelaysInv(a)'
  <2>1. Given(a)' = Given(a)
    BY <1>1, <1>2 DEF Given, Handling, t
  <2>2. \A q \in roster : SettledPort(q) => SettledPort(q)' /\ peerToPort'[q] = peerToPort[q]
    BY <1>1, <1>3, <1>4 DEF SettledPort, server
  <2>3. p \notin Given(a)
    BY <1>1, <1>3 DEF Given, Handling, Typed, PollsTyped, PollTyped
  <2> QED
    BY <1>1, <1>4, <2>1, <2>2, <2>3 DEF PollInv, RelaysInv, server
<1>9. ASSUME crashes = 0 PROVE PortsInv(a)' /\ LinksInv(a)'
  <2>1. PortsInv(a) /\ LinksInv(a) /\ peer_ports[p] = 0
    BY <1>3, <1>9 DEF PollInv, Reports
  <2>2. IsInjective(peerToPort')
    BY <1>4, <2>1 DEF PortsInv, IsInjective
  <2>3. PortsInv(a)'
    BY <1>1, <1>2, <1>3, <1>4, <1>6, <2>1, <2>2 DEF PortsInv, server, t
  <2>4. \A i \in DOMAIN links : p \notin links[i].hosts \ kept
    BY <1>1, <2>1 DEF LinksInv, Removing
  <2>6. \A i \in DOMAIN links : Served(i)' \subseteq Served(i) \ {p}
    BY <1>1, <1>4 DEF Served
  <2>5. LinksInv(a)'
    BY <1>1, <1>2, <1>4, <2>1, <2>4, <2>6 DEF LinksInv, Handling, Removing, t
  <2> QED
    BY <2>3, <2>5
<1> QED
  BY <1>1, <1>5, <1>7, <1>8, <1>9 DEF PollInv

\* A report: whatever of it the server stores, or the agent never learns it did,
\* is in the agent's map.
LEMMA ReportKeeps ==
    ASSUME Typed, NEW a \in Polls, PollInv(a), ReportPorts(a)
    PROVE  PollInv(a)'
<1> DEFINE s == polls[a]
           t == polls'[a]
<1>1. /\ UNCHANGED <<roster, fresh, links, kept, disk, peerToIf, peerToPort, relays, crashes>>
      /\ s.pc = "report" /\ DOMAIN s = Fields
      /\ DOMAIN s.ports \subseteq s.config /\ s.config \subseteq Peers /\ s.keyed \subseteq s.config
  BY DEF ReportPorts, NothingToReport, ReportStored, ReportRefused, ReportLost, At, maps, watch,
         faults, Failure, Typed, PollsTyped, PollTyped, PortsOf
<1>2. \/ t = Idle
      \/ t.pc = "relay" /\ t.config = s.config /\ t.keyed = s.keyed /\ DOMAIN t.ports = {}
  <2>1. CASE Fail(a)
    BY <2>1, BecomeIs DEF Fail
  <2>2. CASE StartRelays(a)
    <3>1. t = [s EXCEPT !.pc = "relay", !.todo = s.keyed, !.seen = {},
                        !.known = None, !.ports = None]
      BY <2>2, BecomeIs DEF StartRelays
    <3> QED
      BY <1>1, <3>1, NonePorts DEF Fields
  <2> QED
    BY <2>1, <2>2 DEF ReportPorts, NothingToReport, ReportStored, ReportRefused, ReportLost
<1> HIDE DEF t
<1>3. \A p \in DOMAIN s.ports : p \in DOMAIN peerToPort /\ s.ports[p] = peerToPort[p]
  BY DEF PollInv, Reports
<1>4. \A p \in Peers : \/ peer_ports'[p] = peer_ports[p]
                       \/ p \in roster /\ p \in DOMAIN peerToPort /\ peer_ports'[p] = peerToPort[p]
  <2>1. CASE UNCHANGED peer_ports
    BY <2>1
  <2>2. CASE ~Rejected(s.ports) /\ peer_ports' = Stored(s.ports)
    BY <1>3, <2>2 DEF Stored, Rejected
  <2> QED
    BY <2>1, <2>2 DEF ReportPorts, NothingToReport, ReportStored, ReportRefused, ReportLost
<1>5. Joined(a)'
  BY <1>1, <1>2, IdleFacts DEF PollInv, Joined, disk, t, Removing
<1>6. Reports(a)'
  BY <1>1, <1>2, <1>4, IdleFacts
     DEF PollInv, Reports, t, Reporting, Assigning, Handling, Removing
<1>7. RelaysInv(a)'
  <2>1. Given(a)' \subseteq Given(a) /\ Given(a) \subseteq Peers
    BY <1>1, <1>2, IdleFacts DEF Given, Handling, t
  <2>2. \A p \in Peers : SettledPort(p) => SettledPort(p)'
    BY <1>1, <1>4 DEF SettledPort
  <2> QED
    BY <1>1, <2>1, <2>2 DEF PollInv, RelaysInv, Typed, ServerTyped
<1>8. ASSUME crashes = 0 PROVE PortsInv(a)' /\ LinksInv(a)'
  <2>1. PortsInv(a) /\ LinksInv(a)
    BY <1>8 DEF PollInv
  <2>2. t.pc \notin Reporting \union Handling \union Removing /\ t.pc # "forget"
    BY <1>2, IdleFacts DEF Reporting, Assigning, Handling, Removing
  <2>3. PortsInv(a)'
    BY <1>1, <1>2, <1>4, <2>1, <2>2, IdleFacts DEF PortsInv, t
  <2>4. LinksInv(a)'
    BY <1>1, <2>1, <2>2 DEF LinksInv, Served, t
  <2> QED
    BY <2>3, <2>4
<1> QED
  BY <1>1, <1>5, <1>6, <1>7, <1>8 DEF PollInv

\* A peer is given a proxy to the port the agent has for it, unless it has one.
LEMMA RelayKeeps ==
    ASSUME Typed, NEW a \in Polls, PollInv(a), RelayPeer(a) \/ EndPoll(a)
    PROVE  PollInv(a)'
<1> DEFINE s == polls[a]
           t == polls'[a]
<1>1. /\ UNCHANGED <<server, links, kept, disk, peerToIf, peerToPort, crashes>>
      /\ s.pc = "relay" /\ DOMAIN s = Fields /\ PollTyped(s)
  BY DEF RelayPeer, EndPoll, maps, faults, At, Typed, PollsTyped, PollTyped
<1>2. \/ t = Idle
      \/ t.pc = "relay" /\ t.config = s.config /\ t.keyed = s.keyed /\ t.ports = s.ports
  <2>1. CASE Become(a, Idle)
    BY <2>1, BecomeIs
  <2>2. ASSUME NEW idx, Become(a, [s EXCEPT !.todo = Rest(a), !.idx = idx])
        PROVE  t.pc = "relay" /\ t.config = s.config /\ t.keyed = s.keyed /\ t.ports = s.ports
    <3>1. t = [s EXCEPT !.todo = Rest(a), !.idx = idx]
      BY <2>2, BecomeIs
    <3> QED
      BY <1>1, <3>1 DEF Fields
  <2>3. CASE Become(a, [s EXCEPT !.todo = Rest(a)])
    <3>1. t = [s EXCEPT !.todo = Rest(a)]
      BY <2>3, BecomeIs
    <3> QED
      BY <1>1, <3>1 DEF Fields
  <2> QED
    BY <2>1, <2>2, <2>3 DEF RelayPeer, EndPoll, EnsureRelayProxy, BindFails, NoInterface, Fail
<1> HIDE DEF t
<1>3. /\ GoesOn(s, t) /\ t.pc \notin Handling \union Removing /\ t.pc # "forget"
      /\ Given(a)' \subseteq Given(a) /\ Given(a) = s.keyed
  BY <1>1, <1>2, IdleFacts
     DEF GoesOn, Given, t, Reporting, Assigning, Handling, Removing
<1>4. Joined(a)' /\ Reports(a)' /\ (crashes = 0 => PortsInv(a)')
  <2>1. \A p \in DOMAIN relays' :
           \/ p \in DOMAIN relays /\ relays'[p] = relays[p]
           \/ p \in s.config \intersect DOMAIN peerToPort /\ relays'[p].awg = peerToPort[p]
    <3>1. CASE EndPoll(a)
      BY <3>1 DEF EndPoll, Restrict
    <3>2. CASE RelayPeer(a)
      <4>1. Current(a) \in s.config /\ Current(a) \in s.keyed
        BY <1>1, <3>2, CurrentIsMember DEF PollTyped, RelayPeer
      <4>2. Current(a) \in DOMAIN peerToPort
        BY <1>3, <4>1 DEF PollInv, RelaysInv
      <4> QED
        BY <3>2, <4>1, <4>2 DEF RelayPeer, EnsureRelayProxy, BindFails, NoInterface, watch, With, AwgPort
    <3> QED
      BY <3>1, <3>2
  <2> QED
    BY <1>1, <1>3, <2>1, GoesOnKeeps DEF t, disk
<1>5. \A q \in roster \intersect DOMAIN relays' :
         SettledPort(q) /\ relays'[q].awg = peerToPort[q]
  <2>1. \A q \in roster \intersect DOMAIN relays :
           SettledPort(q) /\ relays[q].awg = peerToPort[q]
    BY DEF PollInv, RelaysInv
  <2>2. CASE UNCHANGED relays
    BY <2>1, <2>2
  <2>3. CASE EndPoll(a)
    BY <2>1, <2>3 DEF EndPoll, Restrict
  <2>4. CASE relays' = With(relays, Current(a), [local |-> s.idx, awg |-> AwgPort(Current(a))])
             /\ RelayPeer(a)
    <3>1. Current(a) \in s.keyed
      BY <1>1, <2>4, CurrentIsMember DEF PollTyped, RelayPeer
    <3>2. Current(a) \in roster => SettledPort(Current(a))
      BY <1>3, <3>1 DEF PollInv, RelaysInv
    <3>3. Current(a) \in roster => AwgPort(Current(a)) = peerToPort[Current(a)]
      BY <3>2 DEF SettledPort, AwgPort
    <3> QED
      BY <2>1, <2>4, <3>2, <3>3 DEF With
  <2> QED
    BY <2>2, <2>3, <2>4 DEF RelayPeer, EnsureRelayProxy, BindFails, NoInterface, watch
<1>6. RelaysInv(a)'
  <2>1. \A q : SettledPort(q)' <=> SettledPort(q)
    BY <1>1 DEF SettledPort, server
  <2> QED
    BY <1>1, <1>3, <1>5, <2>1 DEF PollInv, RelaysInv, server
<1>7. crashes = 0 => LinksInv(a)'
  BY <1>1, <1>3 DEF PollInv, LinksInv, Served, t
<1> QED
  BY <1>1, <1>4, <1>6, <1>7 DEF PollInv

\* A peer joins or leaves, or its key is changed, while the poll is under way.
LEMMA RosterKeeps ==
    ASSUME Typed, NEW a \in Polls, PollInv(a), NEW p \in Peers, Join(p) \/ Leave(p) \/ ChangeKey(p)
    PROVE  PollInv(a)'
<1>1. UNCHANGED <<links, kept, disk, peerToIf, peerToPort, relays, polls, crashes>>
  BY DEF Join, Leave, ChangeKey, maps, watch, faults
<1>2. /\ roster' = roster \union {p} \/ roster' = roster \ {p} \/ roster' = roster
      /\ \A q \in roster' \ roster : q \in fresh
      /\ fresh' \subseteq fresh /\ roster' \subseteq Peers
      /\ \A q \in roster' : peer_ports'[q] = peer_ports[q]
      /\ \A q \in Peers : peer_ports'[q] = peer_ports[q] \/ peer_ports'[q] = 0
      /\ \A q \in Peers \ roster' : q \in roster => peer_ports'[q] = 0
  BY DEF Join, Leave, ChangeKey, Typed, ServerTyped
<1>3. \A q \in Peers \ roster' : peer_ports'[q] = 0
  BY <1>2 DEF PollInv, Reports
<1>4. \A q \in roster' : q \in roster \/ q \notin DOMAIN peerToIf \union polls[a].config \union DOMAIN relays
  BY <1>2 DEF PollInv, Joined
<1>5. Joined(a)'
  BY <1>1, <1>2, <1>4 DEF PollInv, Joined, disk
<1>6. Reports(a)'
  BY <1>1, <1>2, <1>3, <1>4 DEF PollInv, Reports
<1>7. RelaysInv(a)'
  <2>1. Given(a) \subseteq polls[a].config /\ UNCHANGED Given(a)
    <3>1. /\ polls[a].pc \in Handling => polls[a].peer \in polls[a].config
          /\ polls[a].keyed \subseteq polls[a].config
      BY DEF Typed, PollsTyped, PollTyped, PortsOf
    <3> QED
      BY <1>1, <3>1 DEF Given
  <2>2. \A q \in roster' : SettledPort(q) => SettledPort(q)'
    BY <1>1, <1>2 DEF SettledPort
  <2> QED
    BY <1>1, <1>2, <1>4, <2>1, <2>2 DEF PollInv, RelaysInv
<1>8. crashes = 0 => PortsInv(a)' /\ LinksInv(a)'
  BY <1>1, <1>2, <1>4 DEF PollInv, PortsInv, LinksInv, Served
<1> QED
  BY <1>1, <1>5, <1>6, <1>7, <1>8 DEF PollInv

\* The agent stops, and comes back with what the file has.
LEMMA RestartKeeps ==
    ASSUME Typed, NEW a \in Polls, PollInv(a), Restart
    PROVE  PollInv(a)'
<1>1. /\ UNCHANGED <<server, kept>> /\ polls'[a] = Idle /\ peerToIf' = file.ifs /\ crashes' # 0 /\ crashes' \in Nat
      /\ file' = file /\ DOMAIN saving'[a].ifs = {} /\ DOMAIN relays' = {}
  <2>1. crashes' # 0 /\ crashes' \in Nat
    BY BoundsAssumption DEF Restart, PollInv
  <2> QED
    BY <2>1, NonePorts DEF Restart, NoMapping
<1>2. Joined(a)' /\ Reports(a)'
  BY <1>1, IdleFacts DEF PollInv, Joined, Reports, server
<1>3. RelaysInv(a)'
  BY <1>1, IdleFacts DEF RelaysInv, Given
<1> QED
  BY <1>1, <1>2, <1>3 DEF PollInv

\* With one poll at a time, every step keeps the invariant,
LEMMA NextKeepsPoll ==
    ASSUME NEW a, Polls = {a}, Typed, IfNamesInv, PollInv(a), [Next]_vars
    PROVE  PollInv(a)'
<1>1. a \in Polls
  OBVIOUS
<1>2. CASE UNCHANGED vars
  BY <1>2 DEF vars, server, disk, maps, watch, faults, PollInv, Joined, Reports, RelaysInv,
              SettledPort, Given, PortsInv, LinksInv, Served
<1>3. CASE Poll(a)
  BY <1>1, <1>3, GetConfigKeeps, InterfaceKeeps, PlaceKeeps, AssignKeeps, ForgetKeeps,
     ReportKeeps, RelayKeeps DEF Poll, Reconcile
<1> QED
  BY <1>1, <1>2, <1>3, RosterKeeps, RestartKeeps DEF Next

\* which holds in the initial states.
LEMMA InitPoll ==
    ASSUME NEW a \in Polls, Init
    PROVE  PollInv(a)
<1>1. /\ polls[a] = Idle /\ roster = {} /\ peer_ports = [p \in Peers |-> 0]
      /\ DOMAIN peerToIf = {} /\ DOMAIN file.ifs = {} /\ DOMAIN saving[a].ifs = {}
      /\ DOMAIN relays = {} /\ DOMAIN links = {} /\ DOMAIN peerToPort = {} /\ kept = {}
  BY NonePorts DEF Init, NoMapping
<1>2. Joined(a) /\ Reports(a) /\ RelaysInv(a)
  BY <1>1, IdleFacts DEF Joined, Reports, RelaysInv, Given
<1>3. PortsInv(a) /\ LinksInv(a)
  BY <1>1, IdleFacts DEF PortsInv, LinksInv, IsInjective
<1> QED
  BY <1>2, <1>3 DEF PollInv, Init

\* PollInv holds throughout, with one poll at a time.
LEMMA PollInvariant ==
    ASSUME NEW a, Polls = {a}
    PROVE  Spec => [](IfNamesInv /\ PollInv(a))
<1>1. Init => PollInv(a)
  BY InitPoll
<1>2. Typed /\ IfNamesInv /\ PollInv(a) /\ [Next]_vars => PollInv(a)'
  BY NextKeepsPoll
<1> QED
  BY <1>1, <1>2, InitIfNames, NextKeepsIfNames, InitTyped, NextKeepsTypes, PTL DEF Spec

\* With one poll at a time, the proxy of every peer of the network sends to the port
\* the agent has for the peer, however often the agent stops and whatever reports are
\* lost; and in an agent that was not stopped, to the port the peer's interface
\* listens on, whichever commands fail (ensureRelayProxy, ensureInterface).
THEOREM RelaysFollowPorts ==
    ASSUME NEW a, Polls = {a}
    PROVE  Spec => []RelaysReachInterfaces
<1>1. PollInv(a) => RelaysReachInterfaces
  <2>1. SUFFICES ASSUME PollInv(a), crashes = 0, NEW i \in DOMAIN links,
                        NEW p \in Served(i) \intersect DOMAIN relays
                 PROVE  relays[p].awg = links[i].port
    BY DEF PollInv, RelaysInv, SettledPort, RelaysReachInterfaces
  <2>2. relays[p].awg = peerToPort[p]
    BY <2>1 DEF PollInv, PortsInv, Served
  <2>3. links[i].port = peerToPort[p]
    BY <2>1 DEF PollInv, LinksInv
  <2> QED
    BY <2>2, <2>3
<1> QED
  BY <1>1, PollInvariant, PTL

\* With one poll at a time and an agent that is not stopped, no two peers are given
\* one port (getPort and the maps of reconciler.ts).
THEOREM PortsAreApart ==
    ASSUME NEW a, Polls = {a}
    PROVE  Spec => []PortsDistinct
<1>1. PollInv(a) => PortsDistinct
  BY DEF PollInv, PortsInv, PortsDistinct
<1> QED
  BY <1>1, PollInvariant, PTL

\* And an interface serves the peer it is mapped to, besides peers that have left and
\* whose interface could not be deleted, whoever leaves, whoever takes its name over
\* and whichever commands fail (ensureInterface and removeInterface of awg.ts).
THEOREM PeersAreApart ==
    ASSUME NEW a, Polls = {a}
    PROVE  Spec => []OnePeerPerInterface
<1>1. PollInv(a) /\ IfNamesInv => OnePeerPerInterface
  <2>1. SUFFICES ASSUME PollInv(a), IfNamesInv, crashes = 0, NEW i \in DOMAIN links
                 PROVE  /\ Cardinality(links[i].hosts \ kept) <= 1
                        /\ \A p \in links[i].hosts \ kept : p \in DOMAIN peerToIf /\ peerToIf[p] = i
    BY DEF PollInv, Joined, OnePeerPerInterface
  <2> DEFINE hosts == links[i].hosts \ kept
  <2>2. \A p \in hosts : p \in DOMAIN peerToIf /\ peerToIf[p] = i
    BY <2>1 DEF PollInv, LinksInv
  <2>3. \A p, q \in hosts : p = q
    BY <2>1, <2>2 DEF IfNamesInv, Assigns, IsInjective
  <2> HIDE DEF hosts
  <2>4. Cardinality(hosts) <= 1
    <3>1. CASE hosts = {}
      BY <3>1, FS_EmptySet
    <3>2. ASSUME NEW p \in hosts PROVE Cardinality(hosts) <= 1
      <4>1. hosts = {p}
        BY <2>3, <3>2
      <4>2. Cardinality({p}) = 1
        BY FS_Singleton
      <4> QED
        BY <4>1, <4>2
    <3> QED
      BY <3>1, <3>2
  <2> QED
    BY <2>2, <2>4 DEF hosts
<1> QED
  BY <1>1, PollInvariant, PTL
=============================================================================
