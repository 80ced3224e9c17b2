----------------------------- MODULE MeshProofs -----------------------------
(***************************************************************************)
(* What is proved of the server, its agents and their sockets together.    *)
(*                                                                         *)
(* The mesh implements the negotiator: each of its steps is a step of the  *)
(* server's side or leaves that side alone, so what is proved of the       *)
(* server for any agents holds here.  A server that handles a message      *)
(* takes the Negotiator's step for inputs that it accepts, since no agent  *)
(* sends of itself or of an unknown peer: AgentsTyped, part of MeshInv.    *)
(*                                                                         *)
(* Then two invariants that relate both ends.  DueInv: what an agent holds *)
(* for a probe is due to a negotiation that is active, to mail that is     *)
(* still to be read, or to a task under way.  AgreeInv: as long as nothing *)
(* has failed, the modes that the two agents of a pair are in, or are told *)
(* to switch to, end in the same one.                                      *)
(***************************************************************************)
EXTENDS Mesh, NegotiatorProofs, SetLemmas

\* What agent p may send.
ReportsOfOthers(p) ==
    [type : {"health-report"},
     reports : UNION {[about -> Statuses] : about \in SUBSET Others(p)}]
ProbesOfOthers(p) ==
    [type : {"probe-relay-ready", "probe-relay-result",
             "probe-direct-ready", "probe-direct-result", "probe-error"},
     with : Others(p), success : BOOLEAN]
UpMail(p) == ReportsOfOthers(p) \cup ProbesOfOthers(p)

UpTyped == DOMAIN up = Peers /\ \A p \in Peers : up[p] \in Seq(UpMail(p))
ModeTyped == DOMAIN mode = Peers /\ \A p \in Peers : DOMAIN mode[p] \subseteq Others(p)
AgentsTyped == UpTyped /\ ModeTyped

(***************************************************************************)
(* The queues to the server.                                               *)
(***************************************************************************)

\* An agent that sends well-typed mail leaves the queues well typed.
LEMMA SendTyped ==
    ASSUME UpTyped, NEW p \in Peers, NEW m \in UpMail(p), Send(p, m)
    PROVE  UpTyped'
<1>1. up[p] \in Seq(UpMail(p))
  BY DEF UpTyped
<1>2. Append(up[p], m) \in Seq(UpMail(p))
  BY <1>1
<1>3. /\ DOMAIN up' = Peers
      /\ \A r \in Peers : up'[r] = up[r] \/ (r = p /\ up'[r] = Append(up[r], m))
  BY DEF Send, UpTyped
<1> QED
  BY <1>1, <1>2, <1>3 DEF UpTyped, UpMail, ReportsOfOthers, ProbesOfOthers, Others

\* A probe message about another peer is one that the agent may send.
LEMMA ProbeTyped ==
    ASSUME NEW p \in Peers, NEW q \in Others(p), NEW success \in BOOLEAN,
           NEW type \in {"probe-relay-ready", "probe-relay-result",
                         "probe-direct-ready", "probe-direct-result", "probe-error"}
    PROVE  Probe(type, q, success) \in UpMail(p)
BY DEF Probe, UpMail, ProbesOfOthers

\* A step that empties queues, or takes the head off one, leaves them well typed.
LEMMA ReceivedTyped ==
    ASSUME UpTyped, NEW p \in Peers, up[p] # <<>>, up' = [up EXCEPT ![p] = Tail(@)]
    PROVE  UpTyped' /\ Head(up[p]) \in UpMail(p)
<1>1. up[p] \in Seq(UpMail(p))
  BY DEF UpTyped
<1>2. Head(up[p]) \in UpMail(p) /\ Tail(up[p]) \in Seq(UpMail(p))
  BY <1>1
<1>3. /\ DOMAIN up' = Peers
      /\ \A r \in Peers : up'[r] = up[r] \/ (r = p /\ up'[r] = Tail(up[r]))
  BY DEF UpTyped
<1> QED
  BY <1>1, <1>2, <1>3 DEF UpTyped, UpMail, ReportsOfOthers, ProbesOfOthers, Others

\* A step that leaves the queues and the modes alone keeps both well typed.
LEMMA UnsentTyped == AgentsTyped /\ UNCHANGED <<up, mode>> => AgentsTyped'
BY DEF AgentsTyped, UpTyped, ModeTyped, UpMail, ReportsOfOthers, ProbesOfOthers, Others

(***************************************************************************)
(* The server's steps.                                                     *)
(***************************************************************************)

\* The handler of a message that an agent may send is a step of the Negotiator.
LEMMA DispatchIsNext ==
    ASSUME NEW p \in Peers, NEW m \in UpMail(p), Dispatch(p, m)
    PROVE  Next
<1>1. CASE m.type = "health-report"
  <2>1. PICK about \in SUBSET Others(p) : m.reports \in [about -> Statuses]
    BY <1>1 DEF UpMail, ReportsOfOthers, ProbesOfOthers
  <2>2. DOMAIN m.reports = about /\ about \in SUBSET (Peers \ {p})
    BY <2>1 DEF Others
  <2>3. HealthReport(p, m.reports, about)
    BY <1>1, <2>2 DEF Dispatch
  <2>4. Report(p)
    BY <2>1, <2>2, <2>3 DEF Report
  <2> QED
    BY <2>4 DEF Next
<1>2. CASE m.type # "health-report"
  <2>1. m.with \in Peers \ {p} /\ m.success \in BOOLEAN
    BY <1>2 DEF UpMail, ReportsOfOthers, ProbesOfOthers, Others
  <2>2. ProbeMessage(p, m.with)
    BY <1>2, <2>1 DEF Dispatch, ProbeMessage
  <2> QED
    BY <2>1, <2>2 DEF Next
<1> QED
  BY <1>1, <1>2

\* A step of the connections between an agent and the server.
LEMMA ConnectionStep ==
    ASSUME AgentsTyped, NEW p \in Peers,
           Connect(p) \/ AgentClose(p) \/ ServerClose(p)
    PROVE  AgentsTyped' /\ [Next]_vars
<1>1. CASE Connect(p)
  <2>1. AgentsTyped'
    BY <1>1, UnsentTyped DEF Connect, agents
  <2> QED
    BY <1>1, <2>1 DEF Connect, Next
<1>2. CASE AgentClose(p)
  <2>1. AgentsTyped'
    BY <1>2, UnsentTyped DEF AgentClose
  <2> QED
    BY <1>2, <2>1 DEF AgentClose
<1>3. CASE ServerClose(p)
  <2>1. UpTyped'
    <3>1. <<>> \in Seq(UpMail(p))
      OBVIOUS
    <3>2. DOMAIN up' = Peers /\ \A r \in Peers : up'[r] = up[r] \/ (r = p /\ up'[r] = <<>>)
      BY <1>3 DEF ServerClose, AgentsTyped, UpTyped
    <3> QED
      BY <3>1, <3>2 DEF AgentsTyped, UpTyped, UpMail, ReportsOfOthers, ProbesOfOthers, Others
  <2>2. ModeTyped'
    BY <1>3 DEF ServerClose, agents, AgentsTyped, ModeTyped, Others
  <2> QED
    BY <1>3, <2>1, <2>2 DEF ServerClose, AgentsTyped, Next
<1> QED
  BY <1>1, <1>2, <1>3

\* A step of the server is one of the Negotiator.
LEMMA ServerStep ==
    ASSUME AgentsTyped, Server
    PROVE  AgentsTyped' /\ Next
<1>1. ASSUME NEW p \in Peers, ServerReceive(p) PROVE AgentsTyped' /\ Next
  <2>1. UpTyped' /\ Head(up[p]) \in UpMail(p)
    BY <1>1, ReceivedTyped DEF ServerReceive, AgentsTyped
  <2>2. Next
    BY <1>1, <2>1, DispatchIsNext DEF ServerReceive
  <2>3. ModeTyped'
    BY <1>1 DEF ServerReceive, agents, AgentsTyped, ModeTyped, Others
  <2> QED
    BY <2>1, <2>2, <2>3 DEF AgentsTyped
<1>2. ASSUME NEW k \in Keys, ServerTimeout(k) PROVE AgentsTyped' /\ Next
  <2>1. AgentsTyped'
    BY <1>2, UnsentTyped DEF ServerTimeout, agents
  <2> QED
    BY <1>2, <2>1 DEF ServerTimeout, Next
<1>3. ASSUME NEW due \in SUBSET Keys, ServerSweep(due) PROVE AgentsTyped' /\ Next
  <2>1. AgentsTyped'
    BY <1>3, UnsentTyped DEF ServerSweep, agents
  <2>2. Sweep
    BY <1>3 DEF ServerSweep, Sweep
  <2> QED
    BY <2>1, <2>2 DEF Next
<1> QED
  BY <1>1, <1>2, <1>3 DEF Server

\* What an administrator does is a step of the Negotiator.
LEMMA AdministratorStep ==
    ASSUME AgentsTyped, Administrator
    PROVE  AgentsTyped' /\ Next
<1>1. ASSUME NEW k \in Keys, NEW forced \in {"force-direct", "force-relay", "auto"},
             ForcePair(k, forced)
      PROVE  AgentsTyped' /\ Next
  <2>1. AgentsTyped'
    BY <1>1, UnsentTyped DEF ForcePair, agents
  <2> QED
    BY <1>1, <2>1 DEF ForcePair, Next
<1>2. CASE RestartServer
  <2>1. UpTyped'
    <3>1. \A p \in Peers : <<>> \in Seq(UpMail(p))'
      OBVIOUS
    <3> QED
      BY <1>2, <3>1 DEF RestartServer, UpTyped
  <2>2. ModeTyped'
    BY <1>2 DEF RestartServer, agents, AgentsTyped, ModeTyped, Others
  <2> QED
    BY <1>2, <2>1, <2>2 DEF RestartServer, AgentsTyped, Next
<1> QED
  BY <1>1, <1>2 DEF Administrator

(***************************************************************************)
(* The agents' steps: none of them is a step of the server.                *)
(***************************************************************************)

\* A step that sends one message, or none, and changes no mode.
LEMMA SentTyped ==
    ASSUME AgentsTyped, NEW p \in Peers, NEW m \in UpMail(p), Send(p, m), UNCHANGED mode
    PROVE  AgentsTyped'
BY SendTyped DEF AgentsTyped, ModeTyped, Others

\* The handler of a message from the server.
LEMMA AgentReceiveStep ==
    ASSUME AgentsTyped, NEW p \in Peers, NEW q \in Others(p), AgentReceive(p, q)
    PROVE  AgentsTyped' /\ UNCHANGED vars
<1>1. CASE ProbeRelayServe(p, q)
  <2>1. /\ Probe("probe-relay-ready", q, TRUE) \in UpMail(p)
        /\ Probe("probe-error", q, FALSE) \in UpMail(p)
    BY ProbeTyped
  <2> QED
    BY <1>1, <2>1, SentTyped DEF ProbeRelayServe
<1>2. CASE ~ProbeRelayServe(p, q)
  <2>1. UNCHANGED <<vars, up, mode>>
    BY <1>2 DEF AgentReceive, ProbeRelayCheck, ProbeDirectStart, ProbeDirectGo, ProbeVerdict,
                NegotiateAbort, ForcedByServer
  <2> QED
    BY <2>1, UnsentTyped
<1> QED
  BY <1>1, <1>2

\* What follows an await.
LEMMA TaskDoneStep ==
    ASSUME AgentsTyped, NEW p \in Peers, NEW q \in Others(p), TaskDone(p, q)
    PROVE  AgentsTyped' /\ UNCHANGED vars
<1>1. CASE CheckDone(p, q)
  <2>1. PICK success \in BOOLEAN : Send(p, Probe("probe-relay-result", q, success))
    BY <1>1 DEF CheckDone
  <2>2. Probe("probe-relay-result", q, success) \in UpMail(p)
    BY ProbeTyped
  <2> QED
    BY <1>1, <2>1, <2>2, SentTyped DEF CheckDone
<1>2. CASE BindDone(p, q)
  <2>1. /\ Probe("probe-direct-ready", q, TRUE) \in UpMail(p)
        /\ Probe("probe-error", q, FALSE) \in UpMail(p)
    BY ProbeTyped
  <2> QED
    BY <1>2, <2>1, SentTyped DEF BindDone
<1>3. CASE GoDone(p, q)
  <2>1. PICK success \in BOOLEAN : Send(p, Probe("probe-direct-result", q, success))
    BY <1>3 DEF GoDone
  <2>2. Probe("probe-direct-result", q, success) \in UpMail(p)
    BY ProbeTyped
  <2> QED
    BY <1>3, <2>1, <2>2, SentTyped DEF GoDone
<1>4. CASE SwitchDone(p, q)
  <2>1. UpTyped'
    BY <1>4 DEF SwitchDone, network, AgentsTyped, UpTyped, UpMail, ReportsOfOthers,
                ProbesOfOthers, Others
  <2>2. DOMAIN mode' = Peers /\ \A r \in Peers : DOMAIN mode'[r] = DOMAIN mode[r]
    BY <1>4 DEF SwitchDone, AgentsTyped, ModeTyped
  <2>3. ModeTyped'
    BY <2>2 DEF AgentsTyped, ModeTyped, Others
  <2> QED
    BY <1>4, <2>1, <2>3 DEF SwitchDone, AgentsTyped
<1> QED
  BY <1>1, <1>2, <1>3, <1>4 DEF TaskDone

\* A report is of the peers that the agent knows, which are others.
LEMMA SendReportStep ==
    ASSUME AgentsTyped, NEW p \in Peers, SendReport(p)
    PROVE  AgentsTyped' /\ UNCHANGED vars
<1> DEFINE about == DOMAIN mode[p] \ frozenPeers[p]
<1>1. PICK reports \in [about -> Statuses] :
        up' = [up EXCEPT ![p] = Append(@, [type |-> "health-report", reports |-> reports])]
  BY DEF SendReport
<1> DEFINE m == [type |-> "health-report", reports |-> reports]
<1>2. about \in SUBSET Others(p)
  BY DEF AgentsTyped, ModeTyped
<1> HIDE DEF about
<1>3. m \in UpMail(p)
  BY <1>1, <1>2 DEF UpMail, ReportsOfOthers
<1>4. wsOpen[p] /\ sockets[p] > 0 /\ UNCHANGED <<vars, agents>>
  BY DEF SendReport
<1>5. Send(p, m)
  BY <1>1, <1>4 DEF Send
<1> HIDE DEF m
<1>6. AgentsTyped'
  BY <1>3, <1>4, <1>5, SentTyped DEF agents
<1> QED
  BY <1>4, <1>6

\* A step that changes the modes of one agent, to modes of others, and sends
\* nothing.
LEMMA ModeStep ==
    ASSUME AgentsTyped, NEW p \in Peers, NEW f, DOMAIN f \subseteq Others(p),
           mode' = [mode EXCEPT ![p] = f], UNCHANGED up
    PROVE  AgentsTyped'
<1>1. UpTyped'
  BY DEF AgentsTyped, UpTyped, UpMail, ReportsOfOthers, ProbesOfOthers, Others
<1>2. DOMAIN mode' = Peers /\ \A r \in Peers : mode'[r] = mode[r] \/ (r = p /\ mode'[r] = f)
  BY DEF AgentsTyped, ModeTyped
<1>3. ModeTyped'
  BY <1>2 DEF AgentsTyped, ModeTyped, Others
<1> QED
  BY <1>1, <1>3 DEF AgentsTyped

\* A step of an agent.
LEMMA AgentStep ==
    ASSUME AgentsTyped, NEW p \in Peers, Agent(p)
    PROVE  AgentsTyped' /\ UNCHANGED vars
<1>1. ASSUME NEW q \in Others(p), AutoUnfreeze(p, q) PROVE AgentsTyped' /\ UNCHANGED vars
  BY <1>1, UnsentTyped DEF AutoUnfreeze, network
<1>2. CASE Poll(p)
  <2> DEFINE f == [q \in Others(p) |-> IF q \in DOMAIN mode[p] THEN mode[p][q] ELSE "direct"]
  <2>1. mode' = [mode EXCEPT ![p] = f] /\ UNCHANGED <<vars, up>>
    BY <1>2 DEF Poll, network
  <2>2. DOMAIN f \subseteq Others(p)
    OBVIOUS
  <2> HIDE DEF f
  <2> QED
    BY <2>1, <2>2, ModeStep
<1>3. CASE RestartAgent(p)
  <2> DEFINE f == [q \in {} |-> "direct"]
  <2>1. mode' = [mode EXCEPT ![p] = f] /\ UNCHANGED <<vars, up>>
    BY <1>3 DEF RestartAgent
  <2>2. DOMAIN f \subseteq Others(p)
    OBVIOUS
  <2> HIDE DEF f
  <2> QED
    BY <2>1, <2>2, ModeStep
<1> QED
  BY <1>1, <1>2, <1>3, AgentReceiveStep, TaskDoneStep, SendReportStep DEF Agent

(***************************************************************************)
(* What a step of the server pushes, and what the agents then have queued. *)
(***************************************************************************)

\* There are finitely many messages, as the peers are finitely many.
LEMMA MessagesAreFinite == IsFiniteSet(Message)
<1> DEFINE Parts == MsgTypes \X (Peers \X Args)
           f == [e \in Parts |-> Msg(e[1], e[2][1], e[2][2])]
<1>1. IsFiniteSet(MsgTypes)
  <2>1. IsFiniteSet({} \cup {"probe-relay-serve", "probe-relay-check",
                           "probe-direct-start", "probe-direct-go"})
    BY FS_EmptySet, FourMoreAreFinite
  <2>2. IsFiniteSet({} \cup {"probe-relay-serve", "probe-relay-check",
                           "probe-direct-start", "probe-direct-go"}
                    \cup {"probe-verdict", "negotiate-abort", "force-mode", "peer-removed"})
    BY <2>1, FourMoreAreFinite
  <2> QED
    BY <2>2 DEF MsgTypes
<1>2. IsFiniteSet(Args)
  <2>1. IsFiniteSet({} \cup {"", "switch-relay", "switch-direct", "stay"})
    BY FS_EmptySet, FourMoreAreFinite
  <2>2. IsFiniteSet({} \cup {"", "switch-relay", "switch-direct", "stay"}
                    \cup {"timeout", "ws-reset", "admin-force", "peer-removed"})
    BY <2>1, FourMoreAreFinite
  <2>3. IsFiniteSet({} \cup {"", "switch-relay", "switch-direct", "stay"}
                    \cup {"timeout", "ws-reset", "admin-force", "peer-removed"}
                    \cup {"force-direct", "force-relay", "auto", "auto"})
    BY <2>2, FourMoreAreFinite
  <2> QED
    BY <2>3 DEF Args
<1>3. IsFiniteSet(Parts)
  BY <1>1, <1>2, FS_Product, PeersAssumption
<1>4. f \in Surjection(Parts, Message)
  <2>1. \A e \in Parts : f[e] \in Message
    BY MsgType
  <2>2. ASSUME NEW m \in Message PROVE \E e \in Parts : f[e] = m
    <3>1. <<m.type, <<m.with, m.arg>>>> \in Parts
      BY DEF Message, MsgTypes, Args
    <3>2. m = Msg(m.type, m.with, m.arg)
      BY DEF Message, Msg
    <3> QED
      BY <3>1, <3>2
  <2> QED
    BY <2>1, <2>2 DEF Surjection
<1> QED
  BY <1>3, <1>4, FS_Surjection

\* What is pushed to p, and nothing else, is in its mail.
LEMMA MailFacts ==
    ASSUME SentOK', NEW p \in Peers
    PROVE  /\ MailOf(p) \in Seq(Message)
           /\ \A i \in DOMAIN MailOf(p) : <<p, MailOf(p)[i]>> \in sent'
           /\ \A m : <<p, m>> \in sent' => \E i \in DOMAIN MailOf(p) : MailOf(p)[i] = m
<1> DEFINE mail == {e[2] : e \in {m \in sent' : m[1] = p}}
           aborts == {m \in mail : m.type = "negotiate-abort"}
           rest == mail \ aborts
           s == SetToSeq(aborts)
           t == SetToSeq(rest)
<1>1. mail \subseteq Message /\ \A m : m \in mail <=> <<p, m>> \in sent'
  BY DEF SentOK
<1>2. IsFiniteSet(aborts) /\ IsFiniteSet(rest)
  BY <1>1, MessagesAreFinite, FS_Subset
<1>3. MailOf(p) = s \o t
  BY DEF MailOf
<1> HIDE DEF mail
<1>4. aborts \subseteq mail /\ rest \subseteq mail /\ mail = aborts \cup rest
  OBVIOUS
<1> HIDE DEF aborts, rest
<1>5. /\ s \in Seq(aborts) /\ \A x \in aborts : \E i \in DOMAIN s : s[i] = x
      /\ t \in Seq(rest) /\ \A x \in rest : \E i \in DOMAIN t : t[i] = x
  BY <1>2, SetToSeqFacts
<1> HIDE DEF s, t
<1>6. s \in Seq(mail) /\ t \in Seq(mail)
  BY <1>4, <1>5
<1>7. s \o t \in Seq(mail) /\ DOMAIN (s \o t) = 1..(Len(s) + Len(t))
  BY <1>6
<1>8. /\ \A i \in DOMAIN s : i \in DOMAIN (s \o t) /\ (s \o t)[i] = s[i]
      /\ \A i \in DOMAIN t : Len(s) + i \in DOMAIN (s \o t) /\ (s \o t)[Len(s) + i] = t[i]
  BY <1>6
<1>9. \A x \in mail : \E i \in DOMAIN (s \o t) : (s \o t)[i] = x
  BY <1>4, <1>5, <1>8
<1>10. \A i \in DOMAIN (s \o t) : (s \o t)[i] \in mail
  BY <1>7
<1>11. s \o t \in Seq(Message)
  BY <1>1, <1>7
<1> QED
  BY <1>1, <1>3, <1>9, <1>10, <1>11

\* What was queued for an agent whose socket is open stays, in its place, and
\* what is pushed to it comes behind.
LEMMA DeliverFacts ==
    ASSUME SentOK', Deliver, NEW p \in Peers, down[p] \in Seq(Message)
    PROVE  /\ down'[p] \in Seq(Message)
           /\ ~wsOpen[p] => down'[p] = down[p]
           /\ \A i \in DOMAIN down[p] : i \in DOMAIN down'[p] /\ down'[p][i] = down[p][i]
           /\ \A i \in DOMAIN down'[p] \ DOMAIN down[p] :
                 i > Len(down[p]) /\ <<p, down'[p][i]>> \in sent'
           /\ wsOpen[p] => \A m : <<p, m>> \in sent' =>
                 \E i \in DOMAIN down'[p] \ DOMAIN down[p] : down'[p][i] = m
<1> DEFINE s == down[p]
           t == MailOf(p)
<1>1. down'[p] = IF wsOpen[p] THEN s \o t ELSE s
  BY DEF Deliver
<1>2. /\ t \in Seq(Message) /\ \A i \in DOMAIN t : <<p, t[i]>> \in sent'
      /\ \A m : <<p, m>> \in sent' => \E i \in DOMAIN t : t[i] = m
  BY MailFacts
<1> HIDE DEF s, t
<1>3. s \in Seq(Message)
  BY DEF s
<1>4. /\ s \o t \in Seq(Message) /\ DOMAIN (s \o t) = 1..(Len(s) + Len(t))
      /\ DOMAIN s = 1..Len(s) /\ DOMAIN t = 1..Len(t) /\ Len(s) \in Nat /\ Len(t) \in Nat
  BY <1>2, <1>3
<1>5. /\ \A i \in DOMAIN s : (s \o t)[i] = s[i]
      /\ \A i \in DOMAIN t : (s \o t)[Len(s) + i] = t[i]
  BY <1>2, <1>3
<1>6. \A i \in DOMAIN (s \o t) \ DOMAIN s : i > Len(s) /\ i - Len(s) \in DOMAIN t
  BY <1>4
<1>7. \A i \in DOMAIN (s \o t) \ DOMAIN s : (s \o t)[i] = t[i - Len(s)]
  BY <1>4, <1>5, <1>6
<1>8. \A i \in DOMAIN t : Len(s) + i \in DOMAIN (s \o t) \ DOMAIN s
  BY <1>4
<1>9. CASE wsOpen[p]
  <2>1. down'[p] = s \o t
    BY <1>1, <1>9
  <2>2. \A i \in DOMAIN s : i \in DOMAIN (s \o t)
    BY <1>4
  <2>3. \A i \in DOMAIN (s \o t) \ DOMAIN s : <<p, (s \o t)[i]>> \in sent'
    BY <1>2, <1>6, <1>7
  <2>4. \A m : <<p, m>> \in sent' => \E i \in DOMAIN (s \o t) \ DOMAIN s : (s \o t)[i] = m
    BY <1>2, <1>5, <1>8
  <2> QED
    BY <2>1, <2>2, <2>3, <2>4, <1>4, <1>5, <1>6, <1>9 DEF s
<1>10. CASE ~wsOpen[p]
  BY <1>1, <1>3, <1>10 DEF s
<1> QED
  BY <1>9, <1>10

(***************************************************************************)
(* The types of the agents' variables and of the network's.                *)
(***************************************************************************)
NetworkTyped ==
    /\ wsOpen \in [Peers -> BOOLEAN]
    /\ up = [p \in Peers |-> up[p]]
    /\ down \in [Peers -> Seq(Message)]
ProbingTyped ==
    /\ frozenPeers \in [Peers -> SUBSET Peers]
    /\ tcpProbeServer \in [Peers -> SUBSET Peers]
    /\ udpProbeSockets \in [Peers -> SUBSET Peers]
ModesTyped ==
    \A p \in Peers : /\ DOMAIN mode[p] \in {{}, Others(p)}
                     /\ \A q \in DOMAIN mode[p] : mode[p][q] \in LinkModes
TasksTyped ==
    /\ DOMAIN tasks = Peers /\ \A p \in Peers : DOMAIN tasks[p] \subseteq Tasks
    /\ switching \in [Peers -> [Peers -> Seq(LinkModes)]]
FaultsTyped == faults \in 0..MaxFaults
MeshTyped ==
    AgentsTyped /\ NetworkTyped /\ ProbingTyped /\ ModesTyped /\ TasksTyped /\ FaultsTyped

\* MeshTyped implies the type invariant as the specification states it.
LEMMA MeshTypedTypes == MeshTyped => MeshTypeOK
<1> SUFFICES ASSUME MeshTyped PROVE MeshTypeOK
  OBVIOUS
<1>1. \A p \in Peers : UpMail(p) \subseteq HealthReports \cup ProbeMessages
  <2>1. ASSUME NEW p \in Peers PROVE ReportsOfOthers(p) \subseteq HealthReports
    <3>1. SUBSET Others(p) \subseteq SUBSET Peers
      BY DEF Others
    <3> QED
      BY <3>1 DEF ReportsOfOthers, HealthReports
  <2>2. ASSUME NEW p \in Peers PROVE ProbesOfOthers(p) \subseteq ProbeMessages
    BY DEF ProbesOfOthers, ProbeMessages, Others
  <2> QED
    BY <2>1, <2>2 DEF UpMail
<1>2. \A p \in Peers : up[p] \in Seq(HealthReports \cup ProbeMessages)
  <2> SUFFICES ASSUME NEW p \in Peers PROVE up[p] \in Seq(HealthReports \cup ProbeMessages)
    OBVIOUS
  <2>1. up[p] \in Seq(UpMail(p))
    BY DEF MeshTyped, AgentsTyped, UpTyped
  <2>2. UpMail(p) \subseteq HealthReports \cup ProbeMessages
    BY <1>1
  <2> QED
    BY <2>1, <2>2
<1>3. up \in [Peers -> Seq(HealthReports \cup ProbeMessages)]
  BY <1>2 DEF MeshTyped, NetworkTyped
<1> QED
  BY <1>3 DEF MeshTyped, NetworkTyped, ProbingTyped, ModesTyped, TasksTyped, FaultsTyped,
              MeshTypeOK, BagToSet

\* The variables other than those of the server and AgentsTyped.
Typed == NetworkTyped /\ ProbingTyped /\ ModesTyped /\ TasksTyped /\ FaultsTyped

\* What is delivered is well typed.
LEMMA DeliverTyped ==
    ASSUME SentOK', Deliver, NetworkTyped
    PROVE  down' \in [Peers -> Seq(Message)]
<1>1. \A p \in Peers : down'[p] \in Seq(Message)
  BY DeliverFacts DEF NetworkTyped
<1>2. down' = [p \in Peers |-> IF wsOpen[p] THEN down[p] \o MailOf(p) ELSE down[p]]
  BY DEF Deliver
<1>3. down' = [p \in Peers |-> down'[p]]
  BY <1>2
<1> QED
  BY <1>1, <1>3

\* A fault that may happen keeps their count within its bound.
LEMMA FaultTyped == FaultsTyped /\ (Fault \/ UNCHANGED faults) => FaultsTyped'
BY MeshBoundsAssumption DEF FaultsTyped, Fault

\* A step that leaves the agents alone leaves them well typed.
LEMMA AgentsRest == ProbingTyped /\ ModesTyped /\ TasksTyped /\ UNCHANGED agents
                    => ProbingTyped' /\ ModesTyped' /\ TasksTyped'
BY DEF ProbingTyped, ModesTyped, TasksTyped, agents, probing

\* A step of the connections, of the server, of an administrator.
LEMMA ServerTyped ==
    ASSUME Typed, SentOK',
           Connection \/ Server \/ Administrator
    PROVE  Typed'
<1>1. ASSUME NEW p \in Peers, Connect(p) PROVE Typed'
  BY <1>1, AgentsRest DEF Typed, Connect, NetworkTyped, FaultsTyped
<1>2. ASSUME NEW p \in Peers, AgentClose(p) PROVE Typed'
  <2>1. FaultsTyped'
    BY <1>2, FaultTyped DEF Typed, AgentClose
  <2>2. <<>> \in Seq(Message)
    OBVIOUS
  <2>3. NetworkTyped' /\ ProbingTyped'
    BY <1>2, <2>2 DEF Typed, AgentClose, AgentClosed, NetworkTyped, ProbingTyped
  <2>4. ModesTyped' /\ TasksTyped'
    BY <1>2 DEF Typed, AgentClose, ModesTyped, TasksTyped
  <2> QED
    BY <2>1, <2>3, <2>4 DEF Typed
<1>3. ASSUME Deliver, UNCHANGED <<wsOpen, agents>>, Fault \/ UNCHANGED faults,
             up' = [p \in Peers |-> up'[p]]
      PROVE  Typed'
  BY <1>3, DeliverTyped, AgentsRest, FaultTyped DEF Typed, NetworkTyped
<1>4. ASSUME NEW p \in Peers, ServerClose(p) PROVE Typed'
  <2>1. up' = [r \in Peers |-> up'[r]]
    BY <1>4 DEF ServerClose, Typed, NetworkTyped
  <2> QED
    BY <1>3, <1>4, <2>1 DEF ServerClose
<1>5. ASSUME Server PROVE Typed'
  <2>1. up' = [p \in Peers |-> up'[p]]
    BY <1>5 DEF Server, ServerReceive, ServerTimeout, ServerSweep, Typed, NetworkTyped
  <2> QED
    BY <1>3, <1>5, <2>1 DEF Server, ServerReceive, ServerTimeout, ServerSweep
<1>6. ASSUME NEW k \in Keys, NEW forced, ForcePair(k, forced) PROVE Typed'
  BY <1>3, <1>6 DEF ForcePair, Typed, NetworkTyped
<1>7. ASSUME RestartServer PROVE Typed'
  BY <1>7, AgentsRest, FaultTyped DEF RestartServer, Typed, NetworkTyped
<1> QED
  BY <1>1, <1>2, <1>4, <1>5, <1>6, <1>7 DEF Connection, Administrator

\* An agent that takes the first message from its queue leaves the rest.
LEMMA ReceivesTyped ==
    ASSUME NetworkTyped, NEW p \in Peers, NEW type, NEW q, Receives(p, type, q)
    PROVE  /\ down' \in [Peers -> Seq(Message)]
           /\ Head(down[p]) \in Message
           /\ Head(down[p]).type = type /\ Head(down[p]).with = q
<1>1. down[p] \in Seq(Message) /\ down[p] # <<>>
  BY DEF Receives, NetworkTyped
<1>2. Tail(down[p]) \in Seq(Message) /\ Head(down[p]) \in Message
  BY <1>1
<1> QED
  BY <1>2 DEF Receives, NetworkTyped

\* A message that an agent sends leaves the queues a function of the peers.
LEMMA SendTypedToo ==
    ASSUME NetworkTyped, NEW p, NEW m, Send(p, m)
    PROVE  up' = [r \in Peers |-> up'[r]]
BY DEF NetworkTyped, Send

\* A task that is begun or ends.
LEMMA TaskTyped ==
    ASSUME TasksTyped, NEW p \in Peers, NEW t \in Tasks, Begin(p, t) \/ End(p, t)
    PROVE  DOMAIN tasks' = Peers /\ \A r \in Peers : DOMAIN tasks'[r] \subseteq Tasks
<1>1. DOMAIN (tasks[p] (+) SetToBag({t})) = DOMAIN tasks[p] \cup {t}
  BY DEF SetToBag, (+)
<1>2. DOMAIN (tasks[p] (-) SetToBag({t})) \subseteq DOMAIN tasks[p]
  BY DEF SetToBag, (-)
<1> QED
  BY <1>1, <1>2 DEF TasksTyped, Begin, End

\* A switch that is begun, or is not as the peer is unknown.
LEMMA SwitchTyped ==
    ASSUME TasksTyped, NEW p \in Peers, NEW q \in Peers, NEW target \in LinkModes,
           Switch(p, q, target)
    PROVE  switching' \in [Peers -> [Peers -> Seq(LinkModes)]]
<1>1. switching[p][q] \in Seq(LinkModes)
  BY DEF TasksTyped
<1>2. Append(switching[p][q], target) \in Seq(LinkModes)
  BY <1>1
<1> QED
  BY <1>2 DEF TasksTyped, Switch

\* The bags that a step leaves alone stay what they are.
LEMMA TasksRest ==
    TasksTyped /\ UNCHANGED tasks
        => DOMAIN tasks' = Peers /\ \A r \in Peers : DOMAIN tasks'[r] \subseteq Tasks
BY DEF TasksTyped

\* What a handler or a task of an agent does to the sets of the probes.
LEMMA ProbingStep ==
    ASSUME ProbingTyped, NEW p \in Peers, NEW q \in Peers,
           \/ frozenPeers' = With(frozenPeers, p, q)
           \/ frozenPeers' = Without(frozenPeers, p, q)
           \/ UNCHANGED frozenPeers,
           \/ tcpProbeServer' = [tcpProbeServer EXCEPT ![p] = {q}]
           \/ tcpProbeServer' = Without(tcpProbeServer, p, q)
           \/ UNCHANGED tcpProbeServer,
           \/ udpProbeSockets' = With(udpProbeSockets, p, q)
           \/ udpProbeSockets' = Without(udpProbeSockets, p, q)
           \/ UNCHANGED udpProbeSockets
    PROVE  ProbingTyped'
<1>1. frozenPeers' \in [Peers -> SUBSET Peers]
  BY DEF ProbingTyped, With, Without
<1>2. tcpProbeServer' \in [Peers -> SUBSET Peers]
  BY DEF ProbingTyped, Without
<1>3. udpProbeSockets' \in [Peers -> SUBSET Peers]
  BY DEF ProbingTyped, With, Without
<1> QED
  BY <1>1, <1>2, <1>3 DEF ProbingTyped

\* The handler of a message from the server keeps the types.
LEMMA AgentReceiveTyped ==
    ASSUME Typed, NEW p \in Peers, NEW q \in Others(p), AgentReceive(p, q)
    PROVE  Typed'
<1>1. q \in Peers /\ Task("check", q) \in Tasks /\ Task("bind", q) \in Tasks
      /\ Task("go", q) \in Tasks /\ "relay" \in LinkModes /\ "direct" \in LinkModes
  BY DEF Others, Task, Tasks, LinkModes
<1>2. UNCHANGED <<wsOpen, mode, faults>>
  BY DEF AgentReceive, ProbeRelayServe, ProbeRelayCheck, ProbeDirectStart, ProbeDirectGo,
         ProbeVerdict, NegotiateAbort, ForcedByServer
<1>3. down' \in [Peers -> Seq(Message)]
  BY ReceivesTyped DEF Typed, AgentReceive, ProbeRelayServe, ProbeRelayCheck, ProbeDirectStart,
                       ProbeDirectGo, ProbeVerdict, NegotiateAbort, ForcedByServer
<1>4. up' = [r \in Peers |-> up'[r]]
  BY SendTypedToo DEF Typed, NetworkTyped, AgentReceive, ProbeRelayServe, ProbeRelayCheck,
                      ProbeDirectStart, ProbeDirectGo, ProbeVerdict, NegotiateAbort, ForcedByServer
<1>5. NetworkTyped' /\ ModesTyped' /\ FaultsTyped'
  <2>1. NetworkTyped'
    BY <1>2, <1>3, <1>4 DEF Typed, NetworkTyped
  <2>2. ModesTyped'
    BY <1>2 DEF Typed, ModesTyped
  <2> QED
    BY <1>2, <2>1, <2>2 DEF Typed, FaultsTyped
<1>6. ProbingTyped'
  <2>1. CASE ProbeRelayServe(p, q)
    BY <1>1, <2>1, ProbingStep DEF ProbeRelayServe, Typed
  <2>2. CASE ProbeRelayCheck(p, q) \/ ProbeDirectStart(p, q)
    BY <1>1, <2>2, ProbingStep DEF ProbeRelayCheck, ProbeDirectStart, Typed
  <2>3. CASE ProbeDirectGo(p, q)
    BY <2>3 DEF ProbeDirectGo, Typed, ProbingTyped, probing
  <2>4. CASE ProbeVerdict(p, q) \/ NegotiateAbort(p, q) \/ ForcedByServer(p, q)
    BY <1>1, <2>4, ProbingStep DEF ProbeVerdict, NegotiateAbort, ForcedByServer, Release, Typed
  <2> QED
    BY <2>1, <2>2, <2>3, <2>4 DEF AgentReceive
<1>7. DOMAIN tasks' = Peers /\ \A r \in Peers : DOMAIN tasks'[r] \subseteq Tasks
  <2>1. CASE ProbeRelayCheck(p, q)
    BY <1>1, <2>1, TaskTyped DEF ProbeRelayCheck, Typed
  <2>2. CASE ProbeDirectStart(p, q)
    BY <1>1, <2>2, TaskTyped DEF ProbeDirectStart, Typed
  <2>3. CASE ProbeDirectGo(p, q)
    BY <1>1, <2>3, TaskTyped, TasksRest DEF ProbeDirectGo, Typed
  <2>4. CASE \/ ProbeRelayServe(p, q) \/ ProbeVerdict(p, q)
             \/ NegotiateAbort(p, q) \/ ForcedByServer(p, q)
    <3>1. UNCHANGED tasks
      BY <2>4 DEF ProbeRelayServe, ProbeVerdict, NegotiateAbort, ForcedByServer
    <3> QED
      BY <3>1, TasksRest DEF Typed
  <2> QED
    BY <2>1, <2>2, <2>3, <2>4 DEF AgentReceive
<1>8. switching' \in [Peers -> [Peers -> Seq(LinkModes)]]
  <2>1. CASE ProbeVerdict(p, q) \/ ForcedByServer(p, q)
    <3>1. UNCHANGED switching \/ Switch(p, q, "relay") \/ Switch(p, q, "direct")
      BY <2>1 DEF ProbeVerdict, ForcedByServer
    <3>2. CASE UNCHANGED switching
      BY <3>2 DEF Typed, TasksTyped
    <3> QED
      BY <1>1, <3>1, <3>2, SwitchTyped DEF Typed
  <2>2. CASE ~ (ProbeVerdict(p, q) \/ ForcedByServer(p, q))
    <3>1. UNCHANGED switching
      BY <2>2 DEF AgentReceive, ProbeRelayServe, ProbeRelayCheck, ProbeDirectStart, ProbeDirectGo,
                  NegotiateAbort
    <3> QED
      BY <3>1 DEF Typed, TasksTyped
  <2> QED
    BY <2>1, <2>2
<1> QED
  BY <1>5, <1>6, <1>7, <1>8 DEF Typed, TasksTyped

\* What follows an await keeps the types.
LEMMA TaskDoneTyped ==
    ASSUME Typed, NEW p \in Peers, NEW q \in Others(p), TaskDone(p, q)
    PROVE  Typed'
<1>1. q \in Peers /\ Task("check", q) \in Tasks /\ Task("bind", q) \in Tasks
      /\ Task("go", q) \in Tasks
  BY DEF Others, Task, Tasks
<1>2. CASE CheckDone(p, q) \/ BindDone(p, q) \/ GoDone(p, q)
  <2>1. UNCHANGED <<wsOpen, down, mode, switching, faults>>
    BY <1>2 DEF CheckDone, BindDone, GoDone
  <2>2. up' = [r \in Peers |-> up'[r]]
    BY <1>2, SendTypedToo DEF Typed, CheckDone, BindDone, GoDone
  <2>3. DOMAIN tasks' = Peers /\ \A r \in Peers : DOMAIN tasks'[r] \subseteq Tasks
    BY <1>1, <1>2, TaskTyped DEF Typed, CheckDone, BindDone, GoDone
  <2>4. ProbingTyped'
    BY <1>1, <1>2, ProbingStep DEF Typed, CheckDone, BindDone, GoDone, probing
  <2>5. NetworkTyped' /\ ModesTyped' /\ FaultsTyped'
    BY <2>1, <2>2 DEF Typed, NetworkTyped, ModesTyped, FaultsTyped
  <2> QED
    BY <2>1, <2>3, <2>4, <2>5 DEF Typed, TasksTyped
<1>3. CASE SwitchDone(p, q)
  <2>1. switching[p][q] \in Seq(LinkModes) /\ switching[p][q] # <<>>
    BY <1>1, <1>3 DEF SwitchDone, Typed, TasksTyped
  <2>2. Tail(switching[p][q]) \in Seq(LinkModes) /\ Head(switching[p][q]) \in LinkModes
    BY <2>1
  <2>3. switching' \in [Peers -> [Peers -> Seq(LinkModes)]]
    BY <1>1, <1>3, <2>2 DEF SwitchDone, Typed, TasksTyped
  <2>4. ModesTyped'
    <3>1. \A r \in Peers : DOMAIN mode'[r] = DOMAIN mode[r]
      BY <1>3 DEF SwitchDone
    <3>2. \A r \in Peers : \A s \in DOMAIN mode[r] :
            mode'[r][s] = mode[r][s] \/ mode'[r][s] = Head(switching[p][q])
      BY <1>3 DEF SwitchDone
    <3> QED
      BY <2>2, <3>1, <3>2 DEF Typed, ModesTyped, Others
  <2>5. NetworkTyped' /\ ProbingTyped' /\ FaultsTyped'
    BY <1>3 DEF SwitchDone, network, probing, Typed, NetworkTyped, ProbingTyped, FaultsTyped
  <2> QED
    BY <1>3, <2>3, <2>4, <2>5 DEF SwitchDone, Typed, TasksTyped
<1> QED
  BY <1>2, <1>3 DEF TaskDone

\* A step of an agent keeps the types.
LEMMA AgentTyped ==
    ASSUME AgentsTyped, Typed, NEW p \in Peers, Agent(p)
    PROVE  Typed'
<1>1. ASSUME NEW q \in Others(p), AutoUnfreeze(p, q) PROVE Typed'
  <2>1. ProbingTyped'
    BY <1>1, ProbingStep DEF AutoUnfreeze, Typed, Others
  <2> QED
    BY <1>1, <2>1 DEF AutoUnfreeze, network, Typed, NetworkTyped, ModesTyped, TasksTyped,
                      FaultsTyped, Others
<1>2. CASE SendReport(p)
  <2>1. up' = [r \in Peers |-> up'[r]] /\ UNCHANGED <<wsOpen, down, agents, faults>>
    BY <1>2 DEF SendReport, Typed, NetworkTyped
  <2> QED
    BY <2>1, AgentsRest DEF Typed, NetworkTyped, FaultsTyped
<1>3. CASE Poll(p)
  <2> DEFINE f == [q \in Others(p) |-> IF q \in DOMAIN mode[p] THEN mode[p][q] ELSE "direct"]
  <2>1. mode' = [mode EXCEPT ![p] = f]
    BY <1>3 DEF Poll
  <2>2. DOMAIN f = Others(p) /\ \A q \in DOMAIN f : f[q] \in LinkModes
    BY DEF Typed, ModesTyped, LinkModes
  <2> HIDE DEF f
  <2>3. \A r \in Peers : mode'[r] = mode[r] \/ (r = p /\ mode'[r] = f)
    BY <2>1 DEF AgentsTyped, ModeTyped
  <2>4. ModesTyped'
    BY <2>2, <2>3 DEF Typed, ModesTyped, Others
  <2> QED
    BY <1>3, <2>4 DEF Poll, network, probing, Typed, NetworkTyped, ProbingTyped, TasksTyped,
                      FaultsTyped
<1>4. CASE RestartAgent(p)
  <2> DEFINE f == [q \in {} |-> "direct"]
  <2>1. mode' = [mode EXCEPT ![p] = f]
    BY <1>4 DEF RestartAgent
  <2>2. DOMAIN f = {}
    OBVIOUS
  <2> HIDE DEF f
  <2>3. \A r \in Peers : mode'[r] = mode[r] \/ (r = p /\ mode'[r] = f)
    BY <2>1 DEF AgentsTyped, ModeTyped
  <2>4. ModesTyped'
    BY <2>2, <2>3 DEF Typed, ModesTyped, Others
  <2>5. FaultsTyped'
    BY <1>4, FaultTyped DEF Typed, RestartAgent
  <2>6. <<>> \in Seq(Message) /\ [q \in Peers |-> <<>>] \in [Peers -> Seq(LinkModes)]
    OBVIOUS
  <2>7. NetworkTyped' /\ ProbingTyped'
    BY <1>4, <2>6 DEF RestartAgent, AgentClosed, Typed, NetworkTyped, ProbingTyped
  <2>8. DOMAIN EmptyBag = {}
    BY DEF EmptyBag, SetToBag
  <2>9. TasksTyped'
    BY <1>4, <2>6, <2>8 DEF RestartAgent, Typed, TasksTyped
  <2> QED
    BY <2>4, <2>5, <2>7, <2>9 DEF Typed
<1> QED
  BY <1>1, <1>2, <1>3, <1>4, AgentReceiveTyped, TaskDoneTyped DEF Agent
(***************************************************************************)
(* The theorems.                                                           *)
(***************************************************************************)

\* Every step of the mesh keeps what agents send well typed, and is a step of
\* the Negotiator or leaves its variables alone.
LEMMA MeshStep == AgentsTyped /\ [MeshNext]_meshVars => AgentsTyped' /\ [Next]_vars
<1>1. ASSUME AgentsTyped, UNCHANGED meshVars PROVE AgentsTyped' /\ [Next]_vars
  BY <1>1, UnsentTyped DEF meshVars, network, agents
<1>2. ASSUME AgentsTyped, MeshNext PROVE AgentsTyped' /\ [Next]_vars
  BY <1>2, ConnectionStep, ServerStep, AdministratorStep, AgentStep DEF MeshNext, Connection
<1> QED
  BY <1>1, <1>2

\* In every state of the mesh, what is queued for the server is of a peer the
\* agent may speak of, and an agent has no state of itself.
THEOREM AgentsAreTyped == MeshSpec => []AgentsTyped
<1>1. MeshInit => AgentsTyped
  <2>1. \A p \in Peers : <<>> \in Seq(UpMail(p))
    OBVIOUS
  <2> QED
    BY <2>1 DEF MeshInit, AgentsTyped, UpTyped, ModeTyped
<1> QED
  BY <1>1, MeshStep, PTL DEF MeshSpec

\* The mesh implements the negotiator: whatever agents, sockets and faults do,
\* the server's side behaves as Negotiator says.
THEOREM MeshImplementsNegotiator == MeshSpec => ImplementsNegotiator
<1>1. MeshInit => Init
  BY DEF MeshInit
<1> QED
  BY <1>1, AgentsAreTyped, MeshStep, PTL DEF MeshSpec, Spec, ImplementsNegotiator

\* So, in the mesh: timeouts are those of the active negotiations, the peers of
\* a negotiation are registered, and its end is announced to them.
THEOREM MeshInheritsSafety == MeshSpec => [](TimerOwnership /\ ActivePeersConnected)
BY MeshImplementsNegotiator, TimeoutsAreOwned, NegotiatorsArePresent, PTL
   DEF ImplementsNegotiator

\* And the mesh implements the failover of pairs: what an agent does, loses or
\* repeats never makes the server probe, conclude or abort out of turn.
THEOREM MeshImplementsPairFailover == MeshSpec => ImplementsPairFailover
BY MeshImplementsNegotiator, NegotiatorImplementsPairFailover, PTL
   DEF ImplementsNegotiator

\* And an end of a negotiation is told, in the mesh, to both agents.
THEOREM MeshAnnouncesEnds == MeshSpec => EndIsAnnounced
BY MeshImplementsNegotiator, EndsAreAnnounced, PTL DEF ImplementsNegotiator

\* The invariant of the mesh: what the server keeps, and the types.
MeshInv == IInv /\ MeshTyped

\* MeshInv is inductive.
LEMMA MeshInvStep == MeshInv /\ [MeshNext]_meshVars => MeshInv' /\ [Next]_vars
<1> SUFFICES ASSUME MeshInv, [MeshNext]_meshVars PROVE MeshInv' /\ [Next]_vars
  OBVIOUS
<1>1. AgentsTyped' /\ [Next]_vars
  BY MeshStep DEF MeshInv, MeshTyped
<1>2. IInv'
  BY <1>1, NextIInv DEF MeshInv
<1>3. Typed'
  <2>1. SentOK'
    BY <1>2 DEF IInv
  <2>2. CASE UNCHANGED meshVars
    BY <2>2, AgentsRest DEF meshVars, network, MeshInv, MeshTyped, Typed, NetworkTyped, FaultsTyped
  <2>3. CASE MeshNext
    BY <2>1, <2>3, ServerTyped, AgentTyped DEF MeshNext, MeshInv, MeshTyped, Typed
  <2> QED
    BY <2>2, <2>3
<1> QED
  BY <1>1, <1>2, <1>3 DEF MeshInv, MeshTyped, Typed

\* MeshInv holds in the initial states.
LEMMA MeshInitInv == MeshInit => MeshInv
<1> SUFFICES ASSUME MeshInit PROVE MeshInv
  OBVIOUS
<1>1. IInv
  BY InitIInv DEF MeshInit
<1>2. AgentsTyped
  <2>1. \A p \in Peers : <<>> \in Seq(UpMail(p))
    OBVIOUS
  <2> QED
    BY <2>1 DEF MeshInit, AgentsTyped, UpTyped, ModeTyped
<1>3. NetworkTyped /\ ProbingTyped /\ ModesTyped /\ FaultsTyped
  BY MeshBoundsAssumption DEF MeshInit, NetworkTyped, ProbingTyped, ModesTyped, FaultsTyped
<1>4. DOMAIN EmptyBag = {}
  BY DEF EmptyBag, SetToBag
<1>5. TasksTyped
  <2>1. [q \in Peers |-> <<>>] \in [Peers -> Seq(LinkModes)]
    OBVIOUS
  <2> QED
    BY <1>4, <2>1 DEF MeshInit, TasksTyped
<1> QED
  BY <1>1, <1>2, <1>3, <1>5 DEF MeshInv, MeshTyped

\* In every behaviour of the mesh the server's invariant holds, and every
\* variable of the agents and of the network keeps its type.
THEOREM MeshInvariant == MeshSpec => []MeshInv
BY MeshInitInv, MeshInvStep, PTL DEF MeshSpec

\* Every variable of the agents and of the network keeps its type, whatever
\* is lost and whoever restarts.
THEOREM MeshTypesHold == MeshSpec => []MeshTypeOK
<1>1. MeshInv => MeshTypeOK
  BY MeshTypedTypes DEF MeshInv
<1> QED
  BY <1>1, MeshInvariant, PTL

(***************************************************************************)
(* What the server pushes in a step of the mesh.                           *)
(***************************************************************************)

\* The pair of a member and the other is the key.
LEMMA PairOfMember ==
    ASSUME NEW k \in Keys, NEW p \in Members(k)
    PROVE  /\ PairKey(p, Other(k, p)) = k /\ Other(k, p) # p
           /\ p \in Peers /\ Other(k, p) \in Peers
<1>1. k = <<k[1], k[2]>> /\ k[1] \in Peers /\ k[2] \in Peers /\ k[1] < k[2]
  BY DEF Keys
<1>2. k[1] \in Int /\ k[2] \in Int
  BY <1>1, PeersAssumption
<1>3. ~ (k[2] < k[1]) /\ k[1] # k[2]
  BY <1>1, <1>2
<1> QED
  BY <1>1, <1>3 DEF PairKey, Other, Members

\* The mail to both peers of a pair: to each, of the other.
LEMMA ToBothFacts ==
    ASSUME NEW k \in Keys, NEW type, NEW arg, NEW e \in ToBoth(k, type, arg)
    PROVE  /\ e[1] \in Members(k) /\ e[2].with = Other(k, e[1])
           /\ e[2].type = type /\ e[2].arg = arg
<1>1. k[1] # k[2]
  BY KeyFacts
<1> QED
  BY <1>1 DEF ToBoth, Msg, Members, Other

\* The mail of an abort, and of several pairs.
LEMMA ToBothOfFacts ==
    ASSUME NEW K \in SUBSET Keys, NEW type, NEW arg, NEW e \in ToBothOf(K, type, arg)
    PROVE  /\ e[2].type = type /\ e[2].arg = arg
           /\ \E k \in K : e[1] \in Members(k) /\ e[2].with = Other(k, e[1])
<1>1. PICK k \in K : e \in ToBoth(k, type, arg)
  BY DEF ToBothOf
<1> QED
  BY <1>1, ToBothFacts

\* An abort pushes nothing but aborts.
LEMMA AbortFacts ==
    ASSUME NegotiationsOK, NEW K, NEW reason, NEW e \in Abort(K, reason)
    PROVE  e[2].type = "negotiate-abort"
<1>1. K \cap DOMAIN activeNegotiations \in SUBSET Keys
  BY DEF NegotiationsOK
<1> QED
  BY <1>1, ToBothOfFacts DEF Abort

\* What makes an agent freeze its detection of the other, or serve.
BeginTypes == {"probe-relay-serve", "probe-relay-check", "probe-direct-start"}

\* It is only told to the agents of a pair that is being negotiated.
BeginsAreActive ==
    \A e \in sent : e[2].type \in BeginTypes =>
        e[1] # e[2].with /\ PairKey(e[1], e[2].with) \in DOMAIN activeNegotiations

\* A turn: a verdict to switch.  The server gives one to nobody, or the same
\* one to both peers of one pair, which was being negotiated.
IsTurn(m, q) == m.with = q /\ m.type = "probe-verdict" /\ m.arg # "stay"
NoTurns == \A e \in sent : ~IsTurn(e[2], e[2].with)
TurnsAlike ==
    \/ NoTurns'
    \/ \E k \in DOMAIN activeNegotiations, action \in {"switch-relay", "switch-direct"} :
        sent' = ToBoth(k, "probe-verdict", action)

\* A mode is forced by an administrator only, which counts as a fault.
ForcedByFault == \A e \in sent' : e[2].type = "force-mode" => faults' = faults + 1

\* What the three say of the mail of a step.
MailOK == BeginsAreActive' /\ TurnsAlike /\ ForcedByFault

\* No mail is good mail.
LEMMA PushNothing == Silent => MailOK
BY DEF Silent, MailOK, BeginsAreActive, TurnsAlike, NoTurns, ForcedByFault

\* Mail without what begins a probe and without verdicts.
LEMMA PushOthers ==
    ASSUME NEW mail, Push(mail),
           \A e \in mail : /\ e[2].type \notin BeginTypes \cup {"probe-verdict"}
                           /\ e[2].type # "force-mode" \/ faults' = faults + 1
    PROVE  MailOK
BY DEF Push, MailOK, BeginsAreActive, TurnsAlike, NoTurns, IsTurn, ForcedByFault

\* Mail without verdicts, and what begins a probe is of an active pair.
LEMMA PushBegins ==
    ASSUME NEW mail, Push(mail),
           \A e \in mail :
              /\ e[2].type \notin {"probe-verdict", "force-mode"}
              /\ e[2].type \in BeginTypes =>
                    \E k \in Keys : /\ k \in DOMAIN activeNegotiations'
                                    /\ e[1] \in Members(k) /\ e[2].with = Other(k, e[1])
    PROVE  MailOK
<1>1. BeginsAreActive'
  <2> SUFFICES ASSUME NEW e \in mail, e[2].type \in BeginTypes
               PROVE  /\ e[1] # e[2].with
                      /\ PairKey(e[1], e[2].with) \in DOMAIN activeNegotiations'
    BY DEF BeginsAreActive, Push
  <2>1. PICK k \in Keys : /\ k \in DOMAIN activeNegotiations'
                          /\ e[1] \in Members(k) /\ e[2].with = Other(k, e[1])
    OBVIOUS
  <2> QED
    BY <2>1, PairOfMember
<1>2. NoTurns'
  BY DEF NoTurns, IsTurn, Push
<1>3. ForcedByFault
  BY DEF ForcedByFault, Push
<1> QED
  BY <1>1, <1>2, <1>3 DEF MailOK, TurnsAlike

\* So are the aborts of a set of negotiations,
LEMMA PushAbort ==
    ASSUME IInv, NEW K, NEW reason, Push(Abort(K, reason))
    PROVE  MailOK
<1>1. \A e \in Abort(K, reason) : e[2].type = "negotiate-abort"
  BY AbortFacts DEF IInv
<1> QED
  BY <1>1, PushOthers DEF BeginTypes

\* and the verdict on a pair, told to both of its agents.
LEMMA PushVerdict ==
    ASSUME IInv, NEW k \in DOMAIN activeNegotiations,
           NEW action \in {"switch-relay", "switch-direct", "stay"},
           Push(ToBoth(k, "probe-verdict", action))
    PROVE  MailOK
<1>1. k \in Keys /\ Members(k) \subseteq connected
  BY DEF IInv, NegotiationsOK, ActivePeersConnected
<1>2. sent' = ToBoth(k, "probe-verdict", action)
  BY <1>1, ToBothFacts DEF Push
<1>3. BeginsAreActive'
  BY <1>1, <1>2, ToBothFacts DEF BeginsAreActive, BeginTypes
<1>4. action = "stay" => NoTurns'
  BY <1>1, <1>2, ToBothFacts DEF NoTurns, IsTurn
<1>5. ForcedByFault
  BY <1>1, <1>2, ToBothFacts DEF ForcedByFault
<1> QED
  BY <1>2, <1>3, <1>4, <1>5 DEF MailOK, TurnsAlike

\* The messages of a probe.
LEMMA ProbeMail ==
    ASSUME IInv, NEW from \in Peers, NEW p \in Peers \ {from}, ProbeMessage(from, p)
    PROVE  MailOK /\ UNCHANGED <<sockets, connected>>
                  /\ DOMAIN pairHealthMap' = DOMAIN pairHealthMap
<1> DEFINE k == PairKey(from, p)
<1>1. k \in Keys /\ Members(k) = {from, p} /\ Other(k, from) = p /\ from # p
  BY PairKeyFacts
<1> HIDE DEF k
<1>2. Other(k, p) = from
  BY <1>1, KeyFacts
<1>3. CASE ProbeRelayReady(from, p)
  <2>1. ASSUME IsActive(k, "relay-probe"), UNCHANGED activeNegotiations,
               Push({<<p, Msg("probe-relay-check", from, "")>>})
        PROVE  MailOK
    <3> DEFINE e == <<p, Msg("probe-relay-check", from, "")>>
    <3>1. /\ k \in DOMAIN activeNegotiations' /\ e[1] \in Members(k)
          /\ e[2].with = Other(k, e[1]) /\ e[2].type = "probe-relay-check"
      BY <1>1, <1>2, <2>1 DEF Msg, IsActive
    <3> HIDE DEF e
    <3>2. \A f \in {e} : f = e
      OBVIOUS
    <3> QED
      BY <1>1, <2>1, <3>1, <3>2, PushBegins DEF e
  <2> QED
    BY <1>3, <2>1, PushAbort, PushNothing DEF ProbeRelayReady, Ignored, k
<1>4. CASE \E success \in BOOLEAN : ProbeRelayResult(from, p, success)
  <2>1. PICK success \in BOOLEAN : ProbeRelayResult(from, p, success)
    BY <1>4
  <2>2. ASSUME IsActive(k, "relay-probe"),
               Push(ToBoth(k, "probe-verdict", IF success THEN "switch-relay" ELSE "stay"))
        PROVE  MailOK
    BY <2>2, PushVerdict DEF IsActive
  <2> QED
    BY <2>1, <2>2, PushNothing DEF ProbeRelayResult, Ignored, k
<1>5. CASE ProbeDirectReady(from, p)
  <2>1. ASSUME Push(ToBoth(k, "probe-direct-go", "")) PROVE MailOK
    <3> DEFINE empty == ""
               mail == ToBoth(k, "probe-direct-go", empty)
    <3> HIDE DEF empty
    <3>1. ASSUME NEW e \in mail PROVE e[2].type = "probe-direct-go"
      BY <1>1, ToBothFacts
    <3> HIDE DEF mail
    <3>2. \A e \in mail : e[2].type \notin BeginTypes \cup {"probe-verdict", "force-mode"}
      BY <3>1 DEF BeginTypes
    <3> QED
      BY <2>1, <3>2, PushOthers DEF mail, empty
  <2> QED
    BY <1>5, <2>1, PushAbort, PushNothing DEF ProbeDirectReady, Ignored, k
<1>6. CASE \E success \in BOOLEAN : ProbeDirectResult(from, p, success)
  <2>1. PICK success \in BOOLEAN : ProbeDirectResult(from, p, success)
    BY <1>6
  <2> DEFINE neg == [activeNegotiations[k] EXCEPT
                       !.result[Side(k, from)] = IF success THEN "ok" ELSE "fail"]
             action == IF \A s \in Sides : neg.result[s] = "ok" THEN "switch-direct" ELSE "stay"
  <2>2. \/ Silent
        \/ IsActive(k, "direct-probe") /\ Push(ToBoth(k, "probe-verdict", action))
    BY <2>1 DEF ProbeDirectResult, Ignored, k
  <2>3. action \in {"switch-relay", "switch-direct", "stay"}
    OBVIOUS
  <2> HIDE DEF action
  <2>4. MailOK
    BY <2>2, <2>3, PushVerdict, PushNothing DEF IsActive
  <2> QED
    BY <2>1, <2>4 DEF ProbeDirectResult, Ignored
<1>7. CASE ProbeError(from, p)
  BY <1>7, PushAbort, PushNothing DEF ProbeError, Ignored, k
<1> QED
  BY <1>3, <1>4, <1>5, <1>6, <1>7 DEF ProbeMessage

\* A health report: what it pushes is to serve, of the pairs whose probe begins.
LEMMA ReportMail ==
    ASSUME IInv, NEW from \in Peers, NEW about \in SUBSET (Peers \ {from}),
           NEW reports \in [about -> Statuses], NEW over,
           HealthReport(from, reports, over)
    PROVE  MailOK /\ UNCHANGED <<sockets, connected>>
                  /\ DOMAIN pairHealthMap \subseteq DOMAIN pairHealthMap'
<1>1. PICK H, B : /\ B \subseteq {PairKey(from, p) : p \in DOMAIN reports}
                  /\ Lifecycle({}, {}, [k \in B |-> RelayProbe(k, H[k])])
                  /\ Push({<<ServerNode(k, H[k]),
                             Msg("probe-relay-serve", Other(k, ServerNode(k, H[k])), "")>> : k \in B})
  <2> DEFINE keys == {PairKey(from, p) : p \in DOMAIN reports}
             status(k) == reports[Other(k, from)]
             health == [k \in keys |->
                           AfterReport(HealthOf(k), Side(k, from), status(k), Other(k, from) \in over)]
             asked == {k \in keys : /\ BothDead(health[k], Side(k, from), status(k))
                                    /\ k \notin DOMAIN activeNegotiations}
             forced(row, k) == IF health[k].forcedMode # "none" THEN health[k].forcedMode ELSE row[k]
             begun(row) == {k \in asked : /\ forced(row, k) = "none"
                                          /\ Members(k) \subseteq connected
                                          /\ RelayAllowed(from)}
  <2>1. PICK row \in [asked -> ForcedModes] :
          /\ Lifecycle({}, {}, [k \in begun(row) |-> RelayProbe(k, health[k])])
          /\ Push({LET server == ServerNode(k, health[k]) IN
                   <<server, Msg("probe-relay-serve", Other(k, server), "")>> : k \in begun(row)})
    BY DEF HealthReport
  <2>2. begun(row) \subseteq keys
    OBVIOUS
  <2> HIDE DEF asked, forced, health
  <2> WITNESS health, begun(row)
  <2> QED
    BY <2>1, <2>2
<1> DEFINE serve(k) == <<ServerNode(k, H[k]),
                         Msg("probe-relay-serve", Other(k, ServerNode(k, H[k])), "")>>
           mail == {serve(k) : k \in B}
<1>2. B \subseteq Keys
  <2>1. \A p \in DOMAIN reports : PairKey(from, p) \in Keys
    BY PairKeyFacts
  <2> QED
    BY <1>1, <2>1
<1>3. B \subseteq DOMAIN activeNegotiations'
  BY <1>1 DEF Lifecycle
<1>4. ASSUME NEW k \in B
      PROVE  /\ serve(k)[2].type = "probe-relay-serve"
             /\ serve(k)[1] \in Members(k) /\ serve(k)[2].with = Other(k, serve(k)[1])
  BY DEF Msg, ServerNode, Members
<1>5. Push(mail)
  BY <1>1
<1>6. MailOK
  <2> HIDE DEF serve
  <2>1. \A e \in mail : e[2].type = "probe-relay-serve"
                        /\ \E k \in B : e[1] \in Members(k) /\ e[2].with = Other(k, e[1])
    BY <1>4
  <2> HIDE DEF mail
  <2> QED
    BY <1>2, <1>3, <1>5, <2>1, PushBegins
<1>7. DOMAIN pairHealthMap \subseteq DOMAIN pairHealthMap'
  BY DEF HealthReport
<1> QED
  BY <1>6, <1>7 DEF HealthReport

\* The message that an agent sent is handled.
LEMMA DispatchMail ==
    ASSUME IInv, NEW p \in Peers, NEW m \in UpMail(p), Dispatch(p, m)
    PROVE  MailOK /\ UNCHANGED <<sockets, connected>>
                  /\ DOMAIN pairHealthMap \subseteq DOMAIN pairHealthMap'
<1>1. CASE m.type = "health-report"
  <2>1. PICK about \in SUBSET Others(p) : m.reports \in [about -> Statuses]
    BY <1>1 DEF UpMail, ReportsOfOthers, ProbesOfOthers
  <2>2. about \in SUBSET (Peers \ {p})
    BY DEF Others
  <2>3. HealthReport(p, m.reports, DOMAIN m.reports)
    BY <1>1 DEF Dispatch
  <2> QED
    BY <2>1, <2>2, <2>3, ReportMail
<1>2. CASE m.type # "health-report"
  <2>1. m.with \in Peers \ {p} /\ m.success \in BOOLEAN
    BY <1>2 DEF UpMail, ReportsOfOthers, ProbesOfOthers, Others
  <2>2. ProbeMessage(p, m.with)
    BY <1>2, <2>1 DEF Dispatch, ProbeMessage
  <2> QED
    BY <2>1, <2>2, ProbeMail
<1> QED
  BY <1>1, <1>2

\* A timeout, and the sweep.
LEMMA TimeoutMail ==
    ASSUME IInv, NEW k \in Keys, Timeout(k)
    PROVE  MailOK /\ UNCHANGED <<sockets, connected, pairHealthMap>>
<1>1. CASE RelayProbeTimeout(k)
  BY <1>1, PushAbort DEF RelayProbeTimeout
<1>2. CASE DirectReadyTimeout(k) \/ DirectResultTimeout(k)
  <2>1. k \in DOMAIN activeNegotiations
    BY <1>2 DEF DirectReadyTimeout, DirectResultTimeout, IInv, TimerOwnership, Handles
  <2> QED
    BY <1>2, <2>1, PushVerdict DEF DirectReadyTimeout, DirectResultTimeout
<1> QED
  BY <1>1, <1>2 DEF Timeout

\* A sweep of the stale negotiations that aborts none but begins direct probes.
LEMMA SweepMail ==
    ASSUME IInv, NEW due \in SUBSET Keys, StaleSweep({}, due)
    PROVE  MailOK /\ UNCHANGED <<sockets, connected, pairHealthMap>>
<1> DEFINE empty == ""
           mail == Abort({}, "timeout") \cup ToBothOf(due, "probe-direct-start", empty)
<1>1. Push(mail)
  BY DEF StaleSweep
<1> HIDE DEF empty
<1>2. due \subseteq DOMAIN activeNegotiations'
  BY DEF StaleSweep, Lifecycle
<1>3. \A e \in Abort({}, "timeout") : e[2].type = "negotiate-abort"
  BY AbortFacts DEF IInv
<1>4. ASSUME NEW e \in ToBothOf(due, "probe-direct-start", empty)
      PROVE  /\ e[2].type = "probe-direct-start"
             /\ \E k \in due : e[1] \in Members(k) /\ e[2].with = Other(k, e[1])
  BY ToBothOfFacts
<1>5. MailOK
  <2>1. \A e \in mail :
          /\ e[2].type \notin {"probe-verdict", "force-mode"}
          /\ e[2].type \in BeginTypes =>
                \E k \in Keys : /\ k \in DOMAIN activeNegotiations'
                                /\ e[1] \in Members(k) /\ e[2].with = Other(k, e[1])
    BY <1>2, <1>3, <1>4 DEF BeginTypes
  <2> HIDE DEF mail
  <2> QED
    BY <1>1, <2>1, PushBegins
<1> QED
  BY <1>5 DEF StaleSweep

\* A mode that is forced, and a socket that closes.
LEMMA ForceMail ==
    ASSUME IInv, NEW k \in Keys, NEW forced, ForceMode(k, forced), Fault
    PROVE  MailOK /\ UNCHANGED <<sockets, connected>>
                  /\ DOMAIN pairHealthMap \subseteq DOMAIN pairHealthMap'
<1> DEFINE mail == Abort({k}, "admin-force") \cup ToBoth(k, "force-mode", forced)
<1>1. Push(mail)
  BY DEF ForceMode
<1>2. \A e \in Abort({k}, "admin-force") : e[2].type = "negotiate-abort"
  BY AbortFacts DEF IInv
<1>3. \A e \in ToBoth(k, "force-mode", forced) : e[2].type = "force-mode"
  BY ToBothFacts
<1>4. MailOK
  <2>1. \A e \in mail : e[2].type \notin BeginTypes \cup {"probe-verdict"}
    BY <1>2, <1>3 DEF BeginTypes
  <2>2. faults' = faults + 1
    BY DEF Fault
  <2> HIDE DEF mail
  <2> QED
    BY <1>1, <2>1, <2>2, PushOthers
<1> QED
  BY <1>4 DEF ForceMode

\* A socket that closes: the other agents of its negotiations are told.
LEMMA CloseMail ==
    ASSUME IInv, NEW p \in Peers, WsClose(p)
    PROVE  MailOK /\ UNCHANGED pairHealthMap
<1>1. MailOK
  BY PushOthers DEF WsClose, Msg, BeginTypes
<1> QED
  BY <1>1 DEF WsClose

\* One socket of each peer at most, in the registry as long as it is open.
OneSocket ==
    \A p \in Peers : sockets[p] \in 0..1 /\ (sockets[p] = 1 <=> p \in connected)

\* A step of the server: its mail, and that it drops no health record.
LEMMA ServerMail ==
    ASSUME MeshInv, Server
    PROVE  /\ MailOK /\ Deliver /\ UNCHANGED <<sockets, connected, wsOpen, agents, faults>>
           /\ DOMAIN pairHealthMap \subseteq DOMAIN pairHealthMap'
<1>1. IInv /\ AgentsTyped
  BY DEF MeshInv, MeshTyped
<1>2. ASSUME NEW p \in Peers, ServerReceive(p)
      PROVE  MailOK /\ Deliver /\ UNCHANGED <<sockets, connected, wsOpen, agents, faults>>
             /\ DOMAIN pairHealthMap \subseteq DOMAIN pairHealthMap'
  <2>1. Head(up[p]) \in UpMail(p)
    BY <1>1, <1>2, ReceivedTyped DEF ServerReceive, AgentsTyped
  <2> QED
    BY <1>1, <1>2, <2>1, DispatchMail DEF ServerReceive
<1>3. ASSUME NEW k \in Keys, ServerTimeout(k)
      PROVE  /\ MailOK /\ Deliver
             /\ UNCHANGED <<sockets, connected, wsOpen, agents, faults, pairHealthMap>>
  BY <1>1, <1>3, TimeoutMail DEF ServerTimeout
<1>4. ASSUME NEW due \in SUBSET Keys, ServerSweep(due)
      PROVE  /\ MailOK /\ Deliver
             /\ UNCHANGED <<sockets, connected, wsOpen, agents, faults, pairHealthMap>>
  BY <1>1, <1>4, SweepMail DEF ServerSweep
<1> QED
  BY <1>2, <1>3, <1>4 DEF Server

\* The steps of the server's side in which it pushes and the agents do nothing.
ServerPushes ==
    Server \/ (\E p \in Peers : ServerClose(p)) \/ (\E k \in Keys, forced \in
                  {"force-direct", "force-relay", "auto"} : ForcePair(k, forced))

\* Such a step: what it pushes, and that it drops no health record and opens
\* no socket.
LEMMA ServerPushesMail ==
    ASSUME MeshInv, OneSocket, ServerPushes
    PROVE  /\ MailOK /\ Deliver /\ UNCHANGED <<wsOpen, agents>>
           /\ DOMAIN pairHealthMap \subseteq DOMAIN pairHealthMap'
           /\ OneSocket' /\ \A p \in Peers : sockets[p] = 0 => sockets'[p] = 0
<1>1. IInv /\ AgentsTyped /\ RegistryOK
  BY DEF MeshInv, MeshTyped, IInv
<1>2. ASSUME MailOK, Deliver, UNCHANGED <<sockets, connected, wsOpen, agents>>,
             DOMAIN pairHealthMap \subseteq DOMAIN pairHealthMap'
      PROVE  /\ MailOK /\ Deliver /\ UNCHANGED <<wsOpen, agents>>
             /\ DOMAIN pairHealthMap \subseteq DOMAIN pairHealthMap'
             /\ OneSocket' /\ \A p \in Peers : sockets[p] = 0 => sockets'[p] = 0
  BY <1>2 DEF OneSocket
<1>3. ASSUME NEW k \in Keys, NEW forced \in {"force-direct", "force-relay", "auto"},
             ForcePair(k, forced)
      PROVE  MailOK /\ Deliver /\ UNCHANGED <<sockets, connected, wsOpen, agents>>
             /\ DOMAIN pairHealthMap \subseteq DOMAIN pairHealthMap'
  BY <1>1, <1>3, ForceMail DEF ForcePair
<1>4. ASSUME NEW p \in Peers, ServerClose(p)
      PROVE  /\ MailOK /\ Deliver /\ UNCHANGED <<wsOpen, agents, pairHealthMap>>
             /\ OneSocket' /\ \A r \in Peers : sockets[r] = 0 => sockets'[r] = 0
  <2>1. MailOK /\ UNCHANGED pairHealthMap
    BY <1>1, <1>4, CloseMail DEF ServerClose
  <2>2. /\ \A r \in Peers \ {p} : sockets'[r] = sockets[r] /\ (r \in connected' <=> r \in connected)
        /\ sockets[p] = 1 /\ sockets'[p] = 0 /\ p \notin connected'
    BY <1>1, <1>4 DEF ServerClose, WsClose, RegistryOK, OneSocket
  <2>3. OneSocket' /\ \A r \in Peers : sockets[r] = 0 => sockets'[r] = 0
    BY <2>2 DEF OneSocket
  <2> QED
    BY <1>4, <2>1, <2>3 DEF ServerClose
<1> QED
  BY <1>2, <1>3, <1>4, ServerMail DEF ServerPushes

(***************************************************************************)
(* What an agent holds for a probe is always due to be released.           *)
(***************************************************************************)

\* A message that makes an agent hold something for q, and one that releases it.
Holds(m, q) == m.with = q /\ m.type \in BeginTypes
Releases(m, q) == m.with = q /\ m.type \in {"probe-verdict", "negotiate-abort", "force-mode"}

\* Something will release what p holds for q, once the first n messages that
\* are queued for p are handled.
Due(p, q, n) ==
    /\ wsOpen[p]
    /\ \/ PairKey(p, q) \in DOMAIN activeNegotiations
       \/ sockets[p] = 0
       \/ \E i \in DOMAIN down[p] : i > n /\ Releases(down[p][i], q)

\* So it is with what p holds, and with what messages in its queue will make it
\* hold; an agent whose socket is closed holds nothing.
HeldIsDue ==
    \A p \in Peers : \A q \in frozenPeers[p] \cup tcpProbeServer[p] : q # p /\ Due(p, q, 0)
MailIsDue ==
    \A p \in Peers : \A q \in Others(p) : \A n \in DOMAIN down[p] :
        Holds(down[p][n], q) => Due(p, q, n)
ClosedHoldsNothing ==
    \A p \in Peers : ~wsOpen[p] => /\ frozenPeers[p] = {} /\ tcpProbeServer[p] = {}
                                   /\ down[p] = <<>>
DueInv == HeldIsDue /\ MailIsDue /\ ClosedHoldsNothing /\ OneSocket

\* What is due stays due in a step of the server: if that ends the negotiation
\* of the pair it pushes the release.
LEMMA DueStays ==
    ASSUME MeshInv, MeshInv', Next, OneSocket, ServerPushes, NEW p \in Peers, NEW q \in Others(p),
           NEW n \in 0..Len(down[p]), Due(p, q, n)
    PROVE  Due(p, q, n)'
<1> DEFINE k == PairKey(p, q)
<1>1. /\ Deliver /\ UNCHANGED <<wsOpen, agents>>
      /\ OneSocket' /\ (sockets[p] = 0 => sockets'[p] = 0)
      /\ DOMAIN pairHealthMap \subseteq DOMAIN pairHealthMap'
  BY ServerPushesMail
<1>2. k \in Keys /\ Members(k) = {p, q} /\ Other(k, p) = q
  BY PairKeyFacts DEF Others
<1>3. /\ down[p] \in Seq(Message) /\ SentOK' /\ wsOpen[p]
      /\ \A i \in DOMAIN down[p] : i \in DOMAIN down'[p] /\ down'[p][i] = down[p][i]
      /\ \A m : <<p, m>> \in sent' => \E i \in DOMAIN down'[p] \ DOMAIN down[p] : down'[p][i] = m
      /\ \A i \in DOMAIN down'[p] \ DOMAIN down[p] : i > Len(down[p])
  <2>1. down[p] \in Seq(Message) /\ SentOK' /\ wsOpen[p]
    BY DEF MeshInv, MeshTyped, NetworkTyped, IInv, Due
  <2> QED
    BY <1>1, <2>1, DeliverFacts
<1>4. CASE k \in DOMAIN activeNegotiations
  <2>1. CASE k \in DOMAIN activeNegotiations'
    BY <1>1, <1>3, <2>1 DEF Due
  <2>2. CASE sockets'[p] = 0
    BY <1>1, <1>3, <2>2 DEF Due
  <2>3. CASE k \notin DOMAIN activeNegotiations' /\ sockets'[p] # 0
    <3>1. p \in connected'
      BY <1>1, <2>3 DEF OneSocket
    <3>2. k \in DOMAIN pairHealthMap'
      BY <1>1, <1>4 DEF MeshInv, IInv, ActiveHasHealth
    <3>3. p \in ToldOfEnd(k)'
      BY <1>2, <1>4, <2>3, <3>1, <3>2, NextAnnounces DEF MeshInv, EndAnnounced
    <3>4. PICK e \in sent' : TellsEnd(k, e) /\ e[1] = p
      BY <3>3 DEF ToldOfEnd, TellsEnd
    <3>5. e = <<p, e[2]>> /\ Releases(e[2], q)
      BY <1>2, <1>3, <3>4 DEF SentOK, TellsEnd, Releases
    <3>6. PICK i \in DOMAIN down'[p] \ DOMAIN down[p] : down'[p][i] = e[2]
      BY <1>3, <3>5
    <3>7. i > n
      <4>1. i > Len(down[p]) /\ Len(down[p]) \in Nat /\ n <= Len(down[p]) /\ n \in Nat
        BY <1>3
      <4>2. i \in Nat
        <5>1. down'[p] \in Seq(Message)
          BY DEF MeshInv, MeshTyped, NetworkTyped
        <5> QED
          BY <5>1
      <4> QED
        BY <4>1, <4>2
    <3> QED
      BY <1>1, <1>3, <3>5, <3>6, <3>7 DEF Due
  <2> QED
    BY <2>1, <2>2, <2>3
<1>5. CASE sockets[p] = 0
  BY <1>1, <1>3, <1>5 DEF Due
<1>6. CASE \E i \in DOMAIN down[p] : i > n /\ Releases(down[p][i], q)
  BY <1>1, <1>3, <1>6 DEF Due
<1> QED
  BY <1>4, <1>5, <1>6 DEF Due

\* So a step of the server keeps DueInv.
LEMMA ServerDue ==
    ASSUME MeshInv, MeshInv', Next, DueInv, ServerPushes
    PROVE  DueInv'
<1>1. /\ BeginsAreActive' /\ Deliver /\ UNCHANGED <<wsOpen, agents>> /\ OneSocket'
  BY ServerPushesMail DEF DueInv, MailOK
<1>2. UNCHANGED <<frozenPeers, tcpProbeServer>> /\ SentOK' /\ down \in [Peers -> Seq(Message)]
  BY <1>1 DEF agents, probing, MeshInv, IInv, MeshTyped, NetworkTyped
<1>3. HeldIsDue'
  <2> SUFFICES ASSUME NEW p \in Peers, NEW q \in frozenPeers[p] \cup tcpProbeServer[p]
               PROVE  q # p /\ Due(p, q, 0)'
    BY <1>2 DEF HeldIsDue
  <2>1. q # p /\ Due(p, q, 0) /\ q \in Others(p)
    BY DEF DueInv, HeldIsDue, MeshInv, MeshTyped, ProbingTyped, Others
  <2>2. 0 \in 0..Len(down[p])
    BY <1>2
  <2> QED
    BY <2>1, <2>2, DueStays DEF DueInv
<1>4. MailIsDue'
  <2> SUFFICES ASSUME NEW p \in Peers, NEW q \in Others(p), NEW n \in DOMAIN down'[p],
                      Holds(down'[p][n], q)
               PROVE  Due(p, q, n)'
    BY DEF MailIsDue, Others
  <2>1. /\ \A i \in DOMAIN down[p] : down'[p][i] = down[p][i]
        /\ n \notin DOMAIN down[p] => <<p, down'[p][n]>> \in sent'
        /\ ~wsOpen[p] => down'[p] = down[p]
    BY <1>1, <1>2, DeliverFacts
  <2>2. CASE n \in DOMAIN down[p]
    <3>1. Due(p, q, n)
      BY <2>1, <2>2 DEF DueInv, MailIsDue
    <3>2. n \in 0..Len(down[p])
      BY <1>2, <2>2
    <3> QED
      BY <3>1, <3>2, DueStays DEF DueInv
  <2>3. CASE n \notin DOMAIN down[p]
    <3>1. PairKey(p, q) \in DOMAIN activeNegotiations'
      BY <1>1, <2>1, <2>3 DEF BeginsAreActive, Holds
    <3>2. wsOpen'[p]
      BY <1>1, <2>1, <2>3
    <3> QED
      BY <3>1, <3>2 DEF Due
  <2> QED
    BY <2>2, <2>3
<1>5. ClosedHoldsNothing'
  <2> SUFFICES ASSUME NEW p \in Peers, ~wsOpen[p]
               PROVE  frozenPeers[p] = {} /\ tcpProbeServer[p] = {} /\ down'[p] = <<>>
    BY <1>1, <1>2 DEF ClosedHoldsNothing
  <2>1. down'[p] = down[p]
    BY <1>1, <1>2, DeliverFacts
  <2> QED
    BY <2>1 DEF DueInv, ClosedHoldsNothing
<1> QED
  BY <1>1, <1>3, <1>4, <1>5 DEF DueInv

\* The restart of the server closes every socket.
LEMMA RestartDue == MeshInv /\ DueInv /\ RestartServer => DueInv'
<1> SUFFICES ASSUME MeshInv, DueInv, RestartServer PROVE DueInv'
  OBVIOUS
<1>1. /\ UNCHANGED <<wsOpen, down, frozenPeers, tcpProbeServer>>
      /\ \A p \in Peers : sockets'[p] = 0 /\ p \notin connected'
  BY DEF RestartServer, ServerRestart, agents, probing
<1>2. HeldIsDue' /\ MailIsDue'
  BY <1>1 DEF DueInv, HeldIsDue, MailIsDue, Due, Others
<1> QED
  BY <1>1, <1>2 DEF DueInv, ClosedHoldsNothing, OneSocket

\* A step of the sockets of p, and the restart of p, leave what is due to other
\* agents as it is; p holds nothing then, and nothing is queued for it.
LEMMA ResetDue ==
    ASSUME MeshInv, DueInv, NEW p \in Peers, UNCHANGED activeNegotiations, OneSocket',
           \A r \in Peers \ {p} : /\ wsOpen'[r] = wsOpen[r] /\ sockets'[r] = sockets[r]
                                  /\ down'[r] = down[r] /\ frozenPeers'[r] = frozenPeers[r]
                                  /\ tcpProbeServer'[r] = tcpProbeServer[r],
           frozenPeers'[p] = {}, tcpProbeServer'[p] = {}, down'[p] = <<>>
    PROVE  DueInv'
<1>1. \A r \in Peers \ {p} : \A q, n : Due(r, q, n) => Due(r, q, n)'
  BY DEF Due
<1>2. HeldIsDue'
  BY <1>1 DEF DueInv, HeldIsDue
<1>3. MailIsDue'
  <2> SUFFICES ASSUME NEW r \in Peers, NEW q \in Others(r), NEW n \in DOMAIN down'[r],
                      Holds(down'[r][n], q)
               PROVE  Due(r, q, n)'
    BY DEF MailIsDue, Others
  <2>1. r # p
    OBVIOUS
  <2> QED
    BY <1>1, <2>1 DEF DueInv, MailIsDue
<1>4. ClosedHoldsNothing'
  <2> SUFFICES ASSUME NEW r \in Peers, ~wsOpen'[r]
               PROVE  frozenPeers'[r] = {} /\ tcpProbeServer'[r] = {} /\ down'[r] = <<>>
    BY DEF ClosedHoldsNothing
  <2> QED
    BY DEF DueInv, ClosedHoldsNothing
<1> QED
  BY <1>2, <1>3, <1>4 DEF DueInv

\* A step of an agent's socket, or its restart, preserves DueInv,
LEMMA SocketDue ==
    ASSUME MeshInv, DueInv, NEW p \in Peers, Connect(p) \/ AgentClose(p) \/ RestartAgent(p)
    PROVE  DueInv'
<1>1. CASE Connect(p)
  <2>1. frozenPeers[p] = {} /\ tcpProbeServer[p] = {} /\ down[p] = <<>>
    BY <1>1 DEF Connect, DueInv, ClosedHoldsNothing
  <2>2. UNCHANGED <<frozenPeers, tcpProbeServer, down, activeNegotiations>>
    BY <1>1 DEF Connect, agents, probing, WsOpen
  <2>3. /\ \A r \in Peers \ {p} : /\ wsOpen'[r] = wsOpen[r] /\ sockets'[r] = sockets[r]
                                  /\ r \in connected' <=> r \in connected
        /\ sockets'[p] = 1 /\ p \in connected'
    BY <1>1 DEF Connect, WsOpen, MeshInv, IInv, RegistryOK, MeshTyped, NetworkTyped
  <2>4. OneSocket'
    BY <2>3 DEF DueInv, OneSocket
  <2> QED
    BY <2>1, <2>2, <2>3, <2>4, ResetDue
<1>2. CASE AgentClose(p) \/ RestartAgent(p)
  <2>1. AgentClosed(p) /\ UNCHANGED vars
    BY <1>2 DEF AgentClose, RestartAgent
  <2>2. frozenPeers'[p] = {} /\ tcpProbeServer'[p] = {} /\ down'[p] = <<>>
    BY <2>1 DEF AgentClosed, MeshInv, MeshTyped, ProbingTyped, NetworkTyped
  <2>3. UNCHANGED activeNegotiations /\ OneSocket'
    BY <2>1 DEF vars, DueInv, OneSocket
  <2>4. \A r \in Peers \ {p} : /\ wsOpen'[r] = wsOpen[r] /\ sockets'[r] = sockets[r]
                               /\ down'[r] = down[r] /\ frozenPeers'[r] = frozenPeers[r]
                               /\ tcpProbeServer'[r] = tcpProbeServer[r]
    BY <2>1 DEF AgentClosed, vars, MeshInv, MeshTyped, ProbingTyped, NetworkTyped
  <2> QED
    BY <2>2, <2>3, <2>4, ResetDue
<1> QED
  BY <1>1, <1>2

\* When p has handled a message, what was due behind it is due in the queue
\* that is left.
LEMMA TailDue ==
    ASSUME MeshInv, NEW p \in Peers, NEW q, NEW n \in Nat, Due(p, q, n + 1),
           down[p] # <<>>, down'[p] = Tail(down[p]),
           UNCHANGED <<wsOpen, sockets, activeNegotiations>>
    PROVE  Due(p, q, n)'
<1>1. down[p] \in Seq(Message)
  BY DEF MeshInv, MeshTyped, NetworkTyped
<1>2. ASSUME NEW i \in DOMAIN down[p], i > n + 1
      PROVE  i - 1 \in DOMAIN Tail(down[p]) /\ i - 1 > n /\ Tail(down[p])[i - 1] = down[p][i]
  <2>1. i \in 1..Len(down[p]) /\ DOMAIN Tail(down[p]) = 1..(Len(down[p]) - 1) /\ Len(down[p]) \in Nat
    BY <1>1
  <2>2. i - 1 \in 1..(Len(down[p]) - 1) /\ i - 1 > n
    BY <1>2, <2>1
  <2>3. Tail(down[p])[i - 1] = down[p][(i - 1) + 1]
    BY <1>1, <2>1, <2>2
  <2> QED
    BY <2>1, <2>2, <2>3
<1>3. CASE \E i \in DOMAIN down[p] : i > n + 1 /\ Releases(down[p][i], q)
  <2>1. PICK i \in DOMAIN down[p] : i > n + 1 /\ Releases(down[p][i], q)
    BY <1>3
  <2>2. i - 1 \in DOMAIN down'[p] /\ i - 1 > n /\ Releases(down'[p][i - 1], q)
    BY <1>2, <2>1
  <2>3. wsOpen'[p]
    BY DEF Due
  <2> QED
    BY <2>2, <2>3 DEF Due
<1>4. CASE PairKey(p, q) \in DOMAIN activeNegotiations \/ sockets[p] = 0
  BY <1>4 DEF Due
<1> QED
  BY <1>3, <1>4 DEF Due

\* The handler of a message: what it makes p hold was due behind the message,
\* and of what the message releases p holds nothing any more.
LEMMA ReceiveDue ==
    ASSUME MeshInv, DueInv, NEW p \in Peers, NEW q \in Others(p), AgentReceive(p, q)
    PROVE  DueInv'
<1> DEFINE m == Head(down[p])
           held(r) == frozenPeers[r] \cup tcpProbeServer[r]
<1>1. /\ down[p] # <<>> /\ down' = [down EXCEPT ![p] = Tail(@)] /\ m.with = q
      /\ UNCHANGED <<vars, wsOpen>>
  BY DEF AgentReceive, ProbeRelayServe, ProbeRelayCheck, ProbeDirectStart, ProbeDirectGo,
         ProbeVerdict, NegotiateAbort, ForcedByServer, Receives
<1>2. UNCHANGED <<wsOpen, sockets, connected, activeNegotiations>>
  BY <1>1 DEF vars
<1>3. /\ down \in [Peers -> Seq(Message)] /\ frozenPeers \in [Peers -> SUBSET Peers]
      /\ tcpProbeServer \in [Peers -> SUBSET Peers]
  BY DEF MeshInv, MeshTyped, NetworkTyped, ProbingTyped
<1>4. /\ down'[p] = Tail(down[p]) /\ \A r \in Peers \ {p} : down'[r] = down[r]
      /\ Head(down[p]) = down[p][1] /\ 1 \in DOMAIN down[p]
      /\ DOMAIN down'[p] = 1..(Len(down[p]) - 1) /\ Len(down[p]) \in Nat
      /\ \A i \in DOMAIN down'[p] : i + 1 \in DOMAIN down[p] /\ down'[p][i] = down[p][i + 1]
  BY <1>1, <1>3
<1>5. \A r \in Peers \ {p} : held(r)' = held(r)
  BY <1>3 DEF AgentReceive, ProbeRelayServe, ProbeRelayCheck, ProbeDirectStart, ProbeDirectGo,
              ProbeVerdict, NegotiateAbort, ForcedByServer, With, Without, Release, probing
<1>6. \/ m.type \in BeginTypes /\ held(p)' \subseteq held(p) \cup {q}
      \/ m.type = "probe-direct-go" /\ held(p)' = held(p)
      \/ held(p)' \subseteq held(p) \ {q}
  <2>1. CASE ProbeRelayServe(p, q) \/ ProbeRelayCheck(p, q) \/ ProbeDirectStart(p, q)
    <3>1. m.type \in BeginTypes
      BY <2>1 DEF ProbeRelayServe, ProbeRelayCheck, ProbeDirectStart, Receives, BeginTypes
    <3>2. \/ frozenPeers' = With(frozenPeers, p, q)
          \/ frozenPeers' = Without(frozenPeers, p, q)
      BY <2>1 DEF ProbeRelayServe, ProbeRelayCheck, ProbeDirectStart
    <3>3. \/ tcpProbeServer' = [tcpProbeServer EXCEPT ![p] = {q}]
          \/ UNCHANGED tcpProbeServer
      BY <2>1 DEF ProbeRelayServe, ProbeRelayCheck, ProbeDirectStart
    <3>4. frozenPeers'[p] \subseteq frozenPeers[p] \cup {q}
      BY <1>3, <3>2 DEF With, Without
    <3>5. tcpProbeServer'[p] \subseteq tcpProbeServer[p] \cup {q}
      BY <1>3, <3>3
    <3> QED
      BY <3>1, <3>4, <3>5
  <2>2. CASE ProbeDirectGo(p, q)
    BY <2>2 DEF ProbeDirectGo, probing, Receives
  <2>3. CASE ProbeVerdict(p, q) \/ NegotiateAbort(p, q) \/ ForcedByServer(p, q)
    <3>1. Release(p, q)
      BY <2>3 DEF ProbeVerdict, NegotiateAbort, ForcedByServer
    <3> QED
      BY <1>3, <3>1 DEF Release, Without
  <2> QED
    BY <2>1, <2>2, <2>3 DEF AgentReceive
<1>7. \A r \in Peers \ {p} : \A s, n : Due(r, s, n) => Due(r, s, n)'
  BY <1>2, <1>4 DEF Due
<1>8. \A s : \A n \in Nat : Due(p, s, n + 1) => Due(p, s, n)'
  BY <1>1, <1>2, <1>4, TailDue
<1>9. ASSUME NEW s \in held(p)'
      PROVE  s # p /\ Due(p, s, 1)
  <2>1. CASE s \in held(p) /\ ~Releases(m, s)
    <3>1. s # p /\ Due(p, s, 0)
      BY <2>1 DEF DueInv, HeldIsDue
    <3>2. \A i \in DOMAIN down[p] : i > 0 /\ Releases(down[p][i], s) => i > 1
      <4>1. \A i \in DOMAIN down[p] : i \in Nat /\ (i > 0 /\ i # 1 => i > 1)
        BY <1>3
      <4> QED
        BY <1>4, <2>1, <4>1
    <3> QED
      BY <3>1, <3>2 DEF Due
  <2>2. CASE m.type \in BeginTypes /\ s = q
    <3>1. Holds(down[p][1], q)
      BY <1>1, <1>4, <2>2 DEF Holds
    <3> QED
      BY <1>4, <2>2, <3>1 DEF DueInv, MailIsDue, Others
  <2>3. m.type \in BeginTypes \cup {"probe-direct-go"} => \A r : ~Releases(m, r)
    BY DEF Releases, BeginTypes
  <2>4. s # q => ~Releases(m, s)
    BY <1>1 DEF Releases
  <2> QED
    BY <1>6, <2>1, <2>2, <2>3, <2>4
<1>10. HeldIsDue'
  <2> SUFFICES ASSUME NEW r \in Peers, NEW s \in held(r)' PROVE s # r /\ Due(r, s, 0)'
    BY DEF HeldIsDue
  <2>1. CASE r = p
    <3>1. s # p /\ Due(p, s, 0 + 1)
      BY <1>9, <2>1
    <3> QED
      BY <1>8, <2>1, <3>1
  <2>2. CASE r # p
    BY <1>5, <1>7, <2>2 DEF DueInv, HeldIsDue
  <2> QED
    BY <2>1, <2>2
<1>11. MailIsDue'
  <2> SUFFICES ASSUME NEW r \in Peers, NEW s \in Others(r), NEW n \in DOMAIN down'[r],
                      Holds(down'[r][n], s)
               PROVE  Due(r, s, n)'
    BY DEF MailIsDue, Others
  <2>1. CASE r = p
    <3>1. n \in DOMAIN down'[p] /\ n \in Nat
      <4>1. n \in DOMAIN down'[p] /\ Holds(down'[p][n], s)
        BY <2>1
      <4>2. DOMAIN down'[p] = 1..(Len(down[p]) - 1)
        BY <1>4
      <4> QED
        BY <4>1, <4>2
    <3>2. n + 1 \in DOMAIN down[p] /\ Holds(down[p][n + 1], s)
      BY <1>4, <2>1, <3>1
    <3>3. Due(p, s, n + 1)
      BY <2>1, <3>2 DEF DueInv, MailIsDue
    <3> QED
      BY <1>8, <2>1, <3>1, <3>3
  <2>2. CASE r # p
    BY <1>4, <1>7, <2>2 DEF DueInv, MailIsDue
  <2> QED
    BY <2>1, <2>2
<1>12. ClosedHoldsNothing'
  <2> SUFFICES ASSUME NEW r \in Peers, ~wsOpen[r]
               PROVE  held(r)' = {} /\ down'[r] = <<>>
    BY <1>2 DEF ClosedHoldsNothing
  <2>1. r # p
    BY <1>1 DEF DueInv, ClosedHoldsNothing
  <2> QED
    BY <1>4, <1>5, <2>1 DEF DueInv, ClosedHoldsNothing
<1>13. OneSocket'
  BY <1>2 DEF DueInv, OneSocket
<1> QED
  BY <1>10, <1>11, <1>12, <1>13 DEF DueInv

\* A step after which agents hold no more than before, with the queues to them
\* as they were.
LEMMA QuietDue ==
    ASSUME MeshInv, DueInv, UNCHANGED <<vars, wsOpen, down>>,
           \A p \in Peers : frozenPeers'[p] \subseteq frozenPeers[p]
                            /\ tcpProbeServer'[p] \subseteq tcpProbeServer[p]
    PROVE  DueInv'
<1>1. \A p, q, n : Due(p, q, n) => Due(p, q, n)'
  BY DEF Due, vars
<1>2. HeldIsDue' /\ MailIsDue'
  BY <1>1 DEF DueInv, HeldIsDue, MailIsDue, Others
<1>3. ClosedHoldsNothing' /\ OneSocket'
  <2>1. \A p \in Peers : ~wsOpen'[p] => frozenPeers'[p] = {} /\ tcpProbeServer'[p] = {}
    BY DEF DueInv, ClosedHoldsNothing
  <2> QED
    BY <2>1 DEF DueInv, ClosedHoldsNothing, OneSocket, vars
<1> QED
  BY <1>2, <1>3 DEF DueInv

\* and so does every step of an agent,
LEMMA AgentDue ==
    ASSUME MeshInv, DueInv, NEW p \in Peers, Agent(p)
    PROVE  DueInv'
<1>1. frozenPeers \in [Peers -> SUBSET Peers]
  BY DEF MeshInv, MeshTyped, ProbingTyped
<1>2. ASSUME NEW q \in Others(p), TaskDone(p, q) \/ AutoUnfreeze(p, q)
      PROVE  DueInv'
  <2>1. UNCHANGED <<vars, wsOpen, down, tcpProbeServer>>
    BY <1>2 DEF TaskDone, CheckDone, BindDone, GoDone, SwitchDone, AutoUnfreeze, network, probing
  <2>2. UNCHANGED frozenPeers \/ frozenPeers' = Without(frozenPeers, p, q)
    BY <1>2 DEF TaskDone, CheckDone, BindDone, GoDone, SwitchDone, AutoUnfreeze, probing
  <2>3. \A r \in Peers : frozenPeers'[r] \subseteq frozenPeers[r]
    BY <1>1, <2>2 DEF Without
  <2> QED
    BY <2>1, <2>3, QuietDue
<1>3. CASE SendReport(p) \/ Poll(p)
  BY <1>3, QuietDue DEF SendReport, Poll, network, agents, probing
<1> QED
  BY <1>2, <1>3, ReceiveDue, SocketDue DEF Agent

\* and every step of the mesh.
LEMMA DueInvStep == MeshInv /\ MeshInv' /\ DueInv /\ [MeshNext]_meshVars => DueInv'
<1> SUFFICES ASSUME MeshInv, MeshInv', DueInv, [MeshNext]_meshVars PROVE DueInv'
  OBVIOUS
<1>1. CASE UNCHANGED meshVars
  BY <1>1, QuietDue DEF meshVars, network, agents, probing
<1>2. CASE ServerPushes
  <2>1. Next
    <3>1. CASE Server
      BY <3>1, ServerStep DEF MeshInv, MeshTyped
    <3>2. ASSUME NEW p \in Peers, ServerClose(p) PROVE Next
      BY <3>2 DEF ServerClose, Next
    <3>3. ASSUME NEW k \in Keys, NEW forced \in {"force-direct", "force-relay", "auto"},
                 ForcePair(k, forced)
          PROVE  Next
      BY <3>3, AdministratorStep DEF MeshInv, MeshTyped, Administrator
    <3> QED
      BY <1>2, <3>1, <3>2, <3>3 DEF ServerPushes
  <2> QED
    BY <1>2, <2>1, ServerDue
<1>3. CASE MeshNext /\ ~ServerPushes
  BY <1>3, RestartDue, SocketDue, AgentDue
     DEF MeshNext, Connection, Administrator, ServerPushes
<1> QED
  BY <1>1, <1>2, <1>3

\* An agent's detection of a peer is frozen, or its probe server up, only while
\* the server negotiates about the pair, or a message that releases it is under
\* way, or the agent has yet to notice that its socket is gone: whatever is lost,
\* whoever restarts, at any number of agents and of sockets.
THEOREM HeldIsAccounted == MeshSpec => []ProbeStateAccounted
<1>1. MeshInit => DueInv
  BY DEF MeshInit, Init, DueInv, HeldIsDue, MailIsDue, ClosedHoldsNothing, OneSocket
<1>2. DueInv => ProbeStateAccounted
  BY DEF DueInv, HeldIsDue, Due, ProbeStateAccounted, ReleaseUnderWay, Releases
<1> QED
  BY <1>1, <1>2, MeshInvariant, DueInvStep, PTL DEF MeshSpec

(***************************************************************************)
(* Without faults the agents of a pair come out in the same mode.          *)
(***************************************************************************)

\* The mode that a turn asks for, and the turns about q that are queued for p.
TargetOf(m) == IF m.arg = "switch-relay" THEN "relay" ELSE "direct"
Turns(p, q) == {i \in DOMAIN down[p] : IsTurn(down[p][i], q)}
ModeOf(p, q) == IF q \in DOMAIN mode[p] THEN mode[p][q] ELSE "direct"

\* The mode of q that p comes out in, when nothing more is pushed to it: what
\* the last turns in its queue ask for, or else the last switch that it awaits,
\* or else the mode it has (a peer without state will be direct).
EndsIn(p, q, m) ==
    \/ \E i \in Turns(p, q) : \A j \in Turns(p, q) : j >= i => TargetOf(down[p][j]) = m
    \/ /\ Turns(p, q) = {} /\ switching[p][q] # <<>>
       /\ switching[p][q][Len(switching[p][q])] = m
    \/ Turns(p, q) = {} /\ switching[p][q] = <<>> /\ ModeOf(p, q) = m
Agree == \A k \in Keys : \E m \in LinkModes : \A p \in Members(k) : EndsIn(p, Other(k, p), m)

\* The two ends of a socket are open or closed together.
BothEnds == \A p \in Peers : wsOpen[p] <=> p \in connected
NothingForced == \A p \in Peers : \A i \in DOMAIN down[p] : down[p][i].type # "force-mode"

\* The server has counted nothing that p said of q, and negotiates nothing.
Unreported(p, q) ==
    /\ <<p, q>> \notin DOMAIN links
    /\ HealthOf(PairKey(p, q)).streak[Side(PairKey(p, q), p)] = 0
    /\ PairKey(p, q) \notin DOMAIN activeNegotiations

\* Before its first poll an agent has said nothing of a peer, is told nothing of
\* it and switches nothing: a turn would be lost on it.
Unsaid(p, q) ==
    \A i \in DOMAIN up[p] : up[p][i].type = "health-report" => q \notin DOMAIN up[p][i].reports
Untouched(p, q) ==
    Unsaid(p, q) /\ Unreported(p, q) /\ Turns(p, q) = {} /\ switching[p][q] = <<>>
UnknownAreUntouched ==
    \A p \in Peers : \A q \in Others(p) : q \in DOMAIN mode[p] \/ Untouched(p, q)

AgreeInv == Agree /\ BothEnds /\ NothingForced /\ UnknownAreUntouched

\* A pair of agents agrees when each ends in what it ended in before.
LEMMA AgreeStays ==
    ASSUME Agree, \A p \in Peers : \A q \in Others(p) : \A m : EndsIn(p, q, m) => EndsIn(p, q, m)'
    PROVE  Agree'
<1> SUFFICES ASSUME NEW k \in Keys
             PROVE  \E m \in LinkModes : \A p \in Members(k) : EndsIn(p, Other(k, p), m)'
  BY DEF Agree
<1>1. PICK m \in LinkModes : \A p \in Members(k) : EndsIn(p, Other(k, p), m)
  BY DEF Agree
<1>2. \A p \in Members(k) : p \in Peers /\ Other(k, p) \in Others(p)
  BY PairOfMember DEF Others
<1> QED
  BY <1>1, <1>2

\* What comes behind the queue, and is no turn about q, changes nothing.
LEMMA EndsBehind ==
    ASSUME NEW p, NEW q, NEW m, EndsIn(p, q, m),
           \A i \in DOMAIN down[p] : i \in DOMAIN down'[p] /\ down'[p][i] = down[p][i],
           \A i \in DOMAIN down'[p] \ DOMAIN down[p] : ~IsTurn(down'[p][i], q),
           UNCHANGED <<switching, mode>>
    PROVE  EndsIn(p, q, m)' /\ Turns(p, q)' = Turns(p, q)
<1>1. Turns(p, q)' = Turns(p, q)
  BY DEF Turns
<1>2. \A i \in Turns(p, q) : down'[p][i] = down[p][i]
  BY DEF Turns
<1> QED
  BY <1>1, <1>2 DEF EndsIn, ModeOf

(***************************************************************************)
(* What the server counts of an agent that has said nothing.               *)
(***************************************************************************)

\* Two sides of a pair.
LEMMA OtherSide ==
    ASSUME NEW p \in Peers, NEW q \in Others(p)
    PROVE  /\ PairKey(q, p) = PairKey(p, q)
           /\ Side(PairKey(p, q), p) # Side(PairKey(p, q), q)
           /\ Side(PairKey(p, q), p) \in Sides
           /\ PairKey(p, q) \in Keys
           /\ \A r \in Peers \ {p} : PairKey(p, r) = PairKey(p, q) => r = q
           /\ \A f \in Peers : \A r \in Peers \ {f} :
                 PairKey(f, r) = PairKey(p, q) => (f = p /\ r = q) \/ (f = q /\ r = p)
<1>1. \A f \in Peers : f \in Int
  BY PeersAssumption
<1>2. \A f, r \in Peers : f # r => (f < r <=> ~(r < f))
  BY <1>1
<1> QED
  BY <1>2 DEF PairKey, Side, Sides, Keys, Others

\* A step that keeps what the server has of the pair of p and q.
LEMMA SameUnreported ==
    ASSUME NEW p \in Peers, NEW q \in Others(p), Unreported(p, q),
           UNCHANGED <<links, pairHealthMap>>,
           DOMAIN activeNegotiations' \subseteq DOMAIN activeNegotiations
    PROVE  Unreported(p, q)'
BY DEF Unreported, HealthOf

\* A report of another agent, or one of p without q.
LEMMA ReportUnreported ==
    ASSUME IInv, NEW p \in Peers, NEW q \in Others(p), Unreported(p, q),
           NEW from \in Peers, NEW about \in SUBSET (Peers \ {from}),
           NEW reports \in [about -> Statuses], NEW over \in SUBSET about,
           HealthReport(from, reports, over), from = p => q \notin about
    PROVE  Unreported(p, q)'
<1> DEFINE k == PairKey(p, q)
           side == Side(k, p)
           keys == {PairKey(from, r) : r \in DOMAIN reports}
           status(h) == reports[Other(h, from)]
           health == [h \in keys |->
                         AfterReport(HealthOf(h), Side(h, from), status(h), Other(h, from) \in over)]
           asked == {h \in keys : /\ BothDead(health[h], Side(h, from), status(h))
                                  /\ h \notin DOMAIN activeNegotiations}
           forced(row, h) == IF health[h].forcedMode # "none" THEN health[h].forcedMode ELSE row[h]
           begun(row) == {h \in asked : /\ forced(row, h) = "none"
                                        /\ Members(h) \subseteq connected
                                        /\ RelayAllowed(from)}
<1>1. PICK row \in [asked -> ForcedModes] :
        /\ pairHealthMap' =
              [h \in DOMAIN pairHealthMap \cup keys |->
                  IF h \in asked THEN [health[h] EXCEPT !.forcedMode = forced(row, h)]
                  ELSE IF h \in keys THEN health[h] ELSE pairHealthMap[h]]
        /\ Lifecycle({}, {}, [h \in begun(row) |-> RelayProbe(h, health[h])])
  BY DEF HealthReport
<1>2. /\ k \in Keys /\ side \in Sides /\ side # Side(k, q)
      /\ HealthOf(k) \in PairHealth /\ HealthOf(k).streak[side] = 0
      /\ k \notin DOMAIN activeNegotiations
  BY OtherSide, HealthOfType DEF IInv, Unreported
<1>3. k \in keys => from = q
  BY OtherSide
<1>4. <<p, q>> \notin DOMAIN links'
  <2>1. DOMAIN links' \subseteq DOMAIN links \cup {<<from, r>> : r \in about}
    BY DEF HealthReport, Upserted
  <2> QED
    BY <2>1 DEF Unreported
<1>5. k \in keys => /\ health[k].streak[side] = 0
                    /\ [health[k] EXCEPT !.forcedMode = forced(row, k)].streak = health[k].streak
  <2> SUFFICES ASSUME k \in keys
               PROVE  /\ health[k].streak[side] = 0
                      /\ [health[k] EXCEPT !.forcedMode = forced(row, k)].streak
                            = health[k].streak
    OBVIOUS
  <2>1. health[k] = AfterReport(HealthOf(k), Side(k, q), status(k), Other(k, from) \in over)
    BY <1>3
  <2> HIDE DEF health, keys, k, side, status
  <2> DEFINE h == HealthOf(k)
             past == h.past[Side(k, q)] \/ Other(k, from) \in over
             streak == IF ~(past /\ status(k) # "relay") THEN h.streak[Side(k, q)]
                       ELSE IF status(k) = "alive" THEN 0 ELSE h.streak[Side(k, q)] + 1
  <2>2. health[k] = [h EXCEPT !.past = [h.past EXCEPT ![Side(k, q)] = past],
                              !.streak = [h.streak EXCEPT ![Side(k, q)] = streak]]
    BY <2>1 DEF AfterReport
  <2> HIDE DEF past, streak
  <2>3. health[k].streak = [h.streak EXCEPT ![Side(k, q)] = streak]
    BY <1>2, <2>2 DEF PairHealth
  <2>4. health[k].streak[side] = 0
    BY <1>2, <2>3 DEF PairHealth
  <2>5. [health[k] EXCEPT !.forcedMode = forced(row, k)].streak = health[k].streak
    BY <1>2, <2>2 DEF PairHealth
  <2> QED
    BY <2>4, <2>5
<1>6. k \notin asked
  <2> SUFFICES ASSUME k \in keys PROVE ~BothDead(health[k], Side(k, from), status(k))
    OBVIOUS
  <2> HIDE DEF health, status, keys, k, side
  <2> QED
    BY <1>2, <1>5, BoundsAssumption DEF BothDead
<1>7. HealthOf(k)'.streak[side] = 0
  <2>1. k \in DOMAIN pairHealthMap' <=> k \in DOMAIN pairHealthMap \/ k \in keys
    BY <1>1
  <2>2. k \in keys => pairHealthMap'[k] = health[k]
    BY <1>1, <1>6
  <2>3. k \notin keys /\ k \in DOMAIN pairHealthMap => pairHealthMap'[k] = pairHealthMap[k]
    BY <1>1, <1>6
  <2> HIDE DEF health, status, keys, k, side, asked, forced
  <2> QED
    BY <1>2, <1>5, <2>1, <2>2, <2>3 DEF HealthOf
<1>8. k \notin DOMAIN activeNegotiations'
  <2>1. DOMAIN activeNegotiations' = DOMAIN activeNegotiations \cup begun(row)
    BY <1>1 DEF Lifecycle
  <2> QED
    BY <1>2, <1>6, <2>1
<1> QED
  BY <1>4, <1>7, <1>8 DEF Unreported

\* The messages of a probe begin none, and streaks are only reset.
LEMMA ProbeUnreported ==
    ASSUME IInv, NEW p \in Peers, NEW q \in Others(p), Unreported(p, q),
           NEW from \in Peers, NEW r \in Peers \ {from}, ProbeMessage(from, r)
    PROVE  Unreported(p, q)'
<1>1. ASSUME NEW success \in BOOLEAN, ProbeRelayResult(from, r, success) PROVE Unreported(p, q)'
  <2> DEFINE k == PairKey(from, r)
             h == PairKey(p, q)
  <2>1. CASE Ignored
    BY <2>1, SameUnreported DEF Ignored
  <2>2. CASE /\ Finish(k) /\ UNCHANGED links
             /\ pairHealthMap' = [g \in DOMAIN pairHealthMap |->
                   IF g = k THEN ResetStreaks(pairHealthMap[g]) ELSE pairHealthMap[g]]
    <3>1. DOMAIN activeNegotiations' \subseteq DOMAIN activeNegotiations
      BY <2>2 DEF Finish, Lifecycle, NothingBegun
    <3>2. h \in Keys /\ Side(h, p) \in Sides
      BY OtherSide
    <3>3. \A g \in PairHealth : ResetStreaks(g).streak = [s \in Sides |-> 0]
      BY DEF ResetStreaks, PairHealth
    <3>4. DOMAIN pairHealthMap' = DOMAIN pairHealthMap
      BY <2>2
    <3>5. HealthOf(h)'.streak[Side(h, p)] = 0
      <4>1. CASE h \in DOMAIN pairHealthMap
        <5>1. pairHealthMap[h] \in PairHealth
          BY <4>1 DEF IInv, HealthOK
        <5>2. pairHealthMap'[h] = pairHealthMap[h] \/ pairHealthMap'[h] = ResetStreaks(pairHealthMap[h])
          BY <2>2, <4>1
        <5>3. pairHealthMap[h].streak[Side(h, p)] = 0
          BY <4>1 DEF Unreported, HealthOf
        <5> QED
          BY <3>2, <3>3, <3>4, <4>1, <5>1, <5>2, <5>3 DEF HealthOf
      <4>2. CASE h \notin DOMAIN pairHealthMap
        BY <3>2, <3>4, <4>2 DEF HealthOf, NoHealth
      <4> QED
        BY <4>1, <4>2
    <3> QED
      BY <2>2, <3>1, <3>5 DEF Unreported
  <2> QED
    BY <1>1, <2>1, <2>2 DEF ProbeRelayResult
<1>2. ASSUME ~ \E success \in BOOLEAN : ProbeRelayResult(from, r, success)
      PROVE  Unreported(p, q)'
  <2> DEFINE k == PairKey(from, r)
  <2>1. UNCHANGED <<links, pairHealthMap>>
    BY <1>2 DEF ProbeMessage, ProbeRelayReady, ProbeDirectReady, ProbeDirectResult, ProbeError,
                Ignored
  <2>2. DOMAIN activeNegotiations' \subseteq DOMAIN activeNegotiations
    <3>1. CASE ProbeDirectReady(from, r)
      <4> DEFINE neg == [activeNegotiations[k] EXCEPT !.ready[Side(k, from)] = TRUE]
      <4>1. \/ UNCHANGED activeNegotiations
            \/ activeNegotiations' = [activeNegotiations EXCEPT ![k] = neg]
            \/ /\ k \in DOMAIN activeNegotiations
               /\ Lifecycle({}, {k}, [h \in {k} |-> [neg EXCEPT !.timer = "result"]])
            \/ Finish(k)
        BY <3>1 DEF ProbeDirectReady, Ignored, IsActive
      <4> HIDE DEF neg
      <4> QED
        BY <4>1 DEF Finish, Lifecycle, NothingBegun
    <3>2. CASE \E success \in BOOLEAN : ProbeDirectResult(from, r, success)
      <4>1. PICK success \in BOOLEAN : ProbeDirectResult(from, r, success)
        BY <3>2
      <4> DEFINE neg == [activeNegotiations[k] EXCEPT
                            !.result[Side(k, from)] = IF success THEN "ok" ELSE "fail"]
      <4>2. \/ UNCHANGED activeNegotiations
            \/ activeNegotiations' = [activeNegotiations EXCEPT ![k] = neg]
            \/ Finish(k)
        BY <4>1 DEF ProbeDirectResult, Ignored
      <4> HIDE DEF neg
      <4> QED
        BY <4>2 DEF Finish, Lifecycle, NothingBegun
    <3>3. CASE ProbeRelayReady(from, r) \/ ProbeError(from, r)
      BY <3>3 DEF ProbeRelayReady, ProbeError, Ignored, Finish, Lifecycle, NothingBegun
    <3> QED
      BY <1>2, <3>1, <3>2, <3>3 DEF ProbeMessage
  <2> QED
    BY <2>1, <2>2, SameUnreported
<1> QED
  BY <1>1, <1>2

\* The sweep probes pairs of which both agents have reported.
LEMMA SweepUnreported ==
    ASSUME NEW p \in Peers, NEW q \in Others(p), Unreported(p, q),
           NEW due \in SUBSET Keys, StaleSweep({}, due)
    PROVE  Unreported(p, q)'
<1> DEFINE k == PairKey(p, q)
<1>1. <<p, q>> \in Rows(k)
  BY DEF PairKey, Rows
<1>2. k \notin due
  BY <1>1 DEF StaleSweep, DirectProbeAllowed, Unreported
<1>3. DOMAIN activeNegotiations' = DOMAIN activeNegotiations \cup due
  BY DEF StaleSweep, Lifecycle
<1> QED
  BY <1>2, <1>3 DEF Unreported, StaleSweep, HealthOf

\* A timeout counts no report of anyone.
LEMMA TimeoutUnreported ==
    ASSUME NEW p \in Peers, NEW q \in Others(p), Unreported(p, q), NEW k \in Keys, Timeout(k)
    PROVE  Unreported(p, q)'
<1>1. UNCHANGED <<links, pairHealthMap>>
      /\ DOMAIN activeNegotiations' \subseteq DOMAIN activeNegotiations
  BY DEF Timeout, RelayProbeTimeout, DirectReadyTimeout, DirectResultTimeout, Lifecycle,
         NothingBegun
<1> QED
  BY <1>1, SameUnreported

\* A step of the server.
LEMMA ServerUnreported ==
    ASSUME MeshInv, NEW p \in Peers, NEW q \in Others(p), Unreported(p, q), Unsaid(p, q), Server
    PROVE  Unreported(p, q)' /\ Unsaid(p, q)'
<1>1. IInv /\ AgentsTyped
  BY DEF MeshInv, MeshTyped
<1>2. ASSUME NEW f \in Peers, ServerReceive(f) PROVE Unreported(p, q)' /\ Unsaid(p, q)'
  <2> DEFINE m == Head(up[f])
  <2>1. /\ up[f] \in Seq(UpMail(f)) /\ up[f] # <<>> /\ m \in UpMail(f) /\ m = up[f][1]
        /\ 1 \in DOMAIN up[f] /\ Dispatch(f, m) /\ DOMAIN up = Peers
        /\ up' = [up EXCEPT ![f] = Tail(@)]
    BY <1>1, <1>2 DEF ServerReceive, AgentsTyped, UpTyped
  <2>2. Unsaid(p, q)'
    <3>1. CASE f = p
      <4>1. \A i \in DOMAIN Tail(up[p]) : i + 1 \in DOMAIN up[p] /\ Tail(up[p])[i] = up[p][i + 1]
        BY <2>1, <3>1
      <4> QED
        BY <2>1, <3>1, <4>1 DEF Unsaid
    <3>2. CASE f # p
      BY <2>1, <3>2 DEF Unsaid
    <3> QED
      BY <3>1, <3>2
  <2>3. CASE m.type = "health-report"
    <3>1. PICK about \in SUBSET Others(f) : m.reports \in [about -> Statuses]
      BY <2>1, <2>3 DEF UpMail, ReportsOfOthers, ProbesOfOthers
    <3>2. DOMAIN m.reports = about /\ about \in SUBSET (Peers \ {f})
      BY <3>1 DEF Others
    <3>3. HealthReport(f, m.reports, about)
      BY <2>1, <2>3, <3>2 DEF Dispatch
    <3>4. f = p => q \notin about
      BY <2>1, <2>3, <3>2 DEF Unsaid
    <3> QED
      BY <1>1, <2>2, <3>1, <3>2, <3>3, <3>4, ReportUnreported
  <2>4. CASE m.type # "health-report"
    <3>1. m.with \in Peers \ {f} /\ m.success \in BOOLEAN
      BY <2>1, <2>4 DEF UpMail, ReportsOfOthers, ProbesOfOthers, Others
    <3>2. ProbeMessage(f, m.with)
      BY <2>1, <2>4, <3>1 DEF Dispatch, ProbeMessage
    <3> QED
      BY <1>1, <2>2, <3>1, <3>2, ProbeUnreported
  <2> QED
    BY <2>3, <2>4
<1>3. ASSUME NEW k \in Keys, ServerTimeout(k) PROVE Unreported(p, q)' /\ Unsaid(p, q)'
  BY <1>3, TimeoutUnreported DEF ServerTimeout, Unsaid
<1>4. ASSUME NEW due \in SUBSET Keys, ServerSweep(due) PROVE Unreported(p, q)' /\ Unsaid(p, q)'
  BY <1>4, SweepUnreported DEF ServerSweep, Unsaid
<1> QED
  BY <1>2, <1>3, <1>4 DEF Server

(***************************************************************************)
(* The steps keep the agreement.                                           *)
(***************************************************************************)

\* The server gives both peers of a pair the same turn, which is then the last
\* in both queues; nobody else gets one.
LEMMA ServerAgrees ==
    ASSUME MeshInv, MeshInv', OneSocket, AgreeInv, Server
    PROVE  Agree'
<1>1. MailOK /\ Deliver /\ UNCHANGED <<wsOpen, agents>> /\ SentOK'
      /\ down \in [Peers -> Seq(Message)]
  BY ServerMail DEF MeshInv, IInv, MeshTyped, NetworkTyped
<1>2. UNCHANGED <<switching, mode>>
  BY <1>1 DEF agents
<1>3. ASSUME NEW p \in Peers
      PROVE  /\ \A i \in DOMAIN down[p] : i \in DOMAIN down'[p] /\ down'[p][i] = down[p][i]
             /\ \A i \in DOMAIN down'[p] \ DOMAIN down[p] :
                   i > Len(down[p]) /\ <<p, down'[p][i]>> \in sent'
             /\ wsOpen[p] => \A m : <<p, m>> \in sent' =>
                   \E i \in DOMAIN down'[p] \ DOMAIN down[p] : down'[p][i] = m
  BY <1>1, DeliverFacts
<1>4. CASE NoTurns'
  <2>1. ASSUME NEW p \in Peers, NEW q \in Others(p), NEW m, EndsIn(p, q, m)
        PROVE  EndsIn(p, q, m)'
    <3>1. ASSUME NEW i \in DOMAIN down'[p] \ DOMAIN down[p]
          PROVE  ~IsTurn(down'[p][i], q)
      <4>1. <<p, down'[p][i]>> \in sent'
        BY <1>3
      <4>2. ~IsTurn(down'[p][i], down'[p][i].with)
        BY <1>4, <4>1 DEF NoTurns
      <4> QED
        BY <4>2 DEF IsTurn
    <3> QED
      BY <1>2, <1>3, <2>1, <3>1, EndsBehind
  <2> QED
    BY <2>1, AgreeStays DEF AgreeInv
<1>5. CASE \E k \in DOMAIN activeNegotiations, action \in {"switch-relay", "switch-direct"} :
              sent' = ToBoth(k, "probe-verdict", action)
  <2>1. PICK k \in DOMAIN activeNegotiations, action \in {"switch-relay", "switch-direct"} :
              sent' = ToBoth(k, "probe-verdict", action)
    BY <1>5
  <2>2. k \in Keys /\ Members(k) \subseteq connected
    BY DEF MeshInv, IInv, NegotiationsOK, ActivePeersConnected
  <2>3. ASSUME NEW p \in Peers, NEW i \in DOMAIN down'[p] \ DOMAIN down[p]
        PROVE  /\ p \in Members(k) /\ down'[p][i].with = Other(k, p)
               /\ down'[p][i].type = "probe-verdict" /\ down'[p][i].arg = action
    <3>1. <<p, down'[p][i]>> \in ToBoth(k, "probe-verdict", action)
      BY <1>3, <2>1
    <3> QED
      BY <2>2, <3>1, ToBothFacts
  <2> SUFFICES ASSUME NEW h \in Keys
               PROVE  \E m \in LinkModes : \A p \in Members(h) : EndsIn(p, Other(h, p), m)'
    BY DEF Agree
  <2>4. CASE h = k
    <3> DEFINE target == IF action = "switch-relay" THEN "relay" ELSE "direct"
    <3>1. target \in LinkModes
      BY DEF LinkModes
    <3>2. ASSUME NEW p \in Members(k) PROVE EndsIn(p, Other(k, p), target)'
      <4>1. p \in Peers /\ wsOpen[p]
        BY <2>2, PairOfMember DEF AgreeInv, BothEnds
      <4>2. \E m : <<p, m>> \in sent'
        BY <2>1 DEF ToBoth, Members
      <4>3. PICK i \in DOMAIN down'[p] \ DOMAIN down[p] : TRUE
        BY <1>3, <4>1, <4>2
      <4>4. i \in Turns(p, Other(k, p))'
        BY <2>3, <4>1 DEF Turns, IsTurn
      <4>5. ASSUME NEW j \in DOMAIN down'[p], j >= i PROVE TargetOf(down'[p][j]) = target
        <5>1. j \notin DOMAIN down[p]
          <6>1. i > Len(down[p]) /\ down[p] \in Seq(Message) /\ down'[p] \in Seq(Message)
            BY <1>1, <1>3, <4>1 DEF MeshInv, MeshTyped, NetworkTyped
          <6>2. i \in Nat /\ j \in Nat /\ Len(down[p]) \in Nat
            BY <6>1
          <6> QED
            BY <4>5, <6>1, <6>2
        <5> QED
          BY <2>3, <4>1, <5>1 DEF TargetOf
      <4> QED
        BY <4>4, <4>5 DEF EndsIn, Turns
    <3> QED
      BY <2>4, <3>1, <3>2
  <2>5. CASE h # k
    <3>1. PICK m \in LinkModes : \A p \in Members(h) : EndsIn(p, Other(h, p), m)
      BY DEF AgreeInv, Agree
    <3>2. ASSUME NEW p \in Members(h) PROVE EndsIn(p, Other(h, p), m)'
      <4>1. p \in Peers
        BY PairOfMember
      <4>2. ASSUME NEW i \in DOMAIN down'[p] \ DOMAIN down[p],
                   IsTurn(down'[p][i], Other(h, p))
            PROVE  FALSE
        <5>1. p \in Members(k) /\ Other(k, p) = Other(h, p)
          BY <2>3, <4>1, <4>2 DEF IsTurn
        <5> QED
          BY <2>2, <2>5, <5>1, PairOfMember
      <4> QED
        BY <1>2, <1>3, <3>1, <4>1, <4>2, EndsBehind
    <3> QED
      BY <3>1, <3>2
  <2> QED
    BY <2>4, <2>5
<1> QED
  BY <1>1, <1>4, <1>5 DEF MailOK, TurnsAlike

\* A step of the server preserves AgreeInv: whoever begins, concludes or aborts
\* tells both agents the same.
LEMMA ServerAgree ==
    ASSUME MeshInv, MeshInv', OneSocket, AgreeInv, Server
    PROVE  AgreeInv'
<1>1. /\ MailOK /\ Deliver /\ UNCHANGED <<connected, wsOpen, agents, faults>> /\ SentOK'
      /\ down \in [Peers -> Seq(Message)] /\ faults \in Nat
  BY ServerMail, MeshBoundsAssumption DEF MeshInv, IInv, MeshTyped, NetworkTyped, FaultsTyped
<1>2. UNCHANGED <<switching, mode>>
  BY <1>1 DEF agents
<1>3. ASSUME NEW p \in Peers
      PROVE  /\ \A i \in DOMAIN down[p] : i \in DOMAIN down'[p] /\ down'[p][i] = down[p][i]
             /\ \A i \in DOMAIN down'[p] \ DOMAIN down[p] : <<p, down'[p][i]>> \in sent'
  BY <1>1, DeliverFacts
<1>4. NothingForced'
  <2>1. faults' # faults + 1
    BY <1>1
  <2>2. \A e \in sent' : e[2].type # "force-mode"
    BY <1>1, <2>1 DEF MailOK, ForcedByFault
  <2> SUFFICES ASSUME NEW p \in Peers, NEW i \in DOMAIN down'[p]
               PROVE  down'[p][i].type # "force-mode"
    BY DEF NothingForced
  <2>3. CASE i \in DOMAIN down[p]
    BY <1>3, <2>3 DEF AgreeInv, NothingForced
  <2>4. CASE i \notin DOMAIN down[p]
    <3>1. <<p, down'[p][i]>> \in sent'
      BY <1>3, <2>4
    <3> QED
      BY <2>2, <3>1
  <2> QED
    BY <2>3, <2>4
<1>5. UnknownAreUntouched'
  <2> SUFFICES ASSUME NEW p \in Peers, NEW q \in Others(p), q \notin DOMAIN mode[p]
               PROVE  Untouched(p, q)'
    BY <1>2 DEF UnknownAreUntouched, Others
  <2>1. Untouched(p, q)
    BY DEF AgreeInv, UnknownAreUntouched
  <2>2. Unsaid(p, q)' /\ Unreported(p, q)'
    BY <2>1, ServerUnreported DEF Untouched
  <2>3. ASSUME NEW i \in DOMAIN down'[p], IsTurn(down'[p][i], q) PROVE FALSE
    <3>1. i \notin DOMAIN down[p]
      BY <1>3, <2>1, <2>3 DEF Untouched, Turns
    <3>2. <<p, down'[p][i]>> \in sent'
      BY <1>3, <3>1
    <3>3. ~NoTurns'
      BY <2>3, <3>2 DEF NoTurns, IsTurn
    <3>4. PICK k \in DOMAIN activeNegotiations, action \in {"switch-relay", "switch-direct"} :
              sent' = ToBoth(k, "probe-verdict", action)
      BY <1>1, <3>3 DEF MailOK, TurnsAlike
    <3>5. k \in Keys
      BY DEF MeshInv, IInv, NegotiationsOK
    <3>6. p \in Members(k) /\ down'[p][i].with = Other(k, p)
      BY <3>2, <3>4, <3>5, ToBothFacts
    <3>7. PairKey(p, q) = k
      BY <2>3, <3>5, <3>6, PairOfMember DEF IsTurn
    <3> QED
      BY <2>1, <3>7 DEF Untouched, Unreported
  <2> QED
    BY <1>2, <2>1, <2>2, <2>3 DEF Untouched, Turns
<1>6. BothEnds'
  BY <1>1 DEF AgreeInv, BothEnds
<1> QED
  BY <1>4, <1>5, <1>6, ServerAgrees DEF AgreeInv

\* Where the queue, the switches and the mode stay, so does what p ends in.
LEMMA EndsSame ==
    ASSUME NEW p, NEW q, NEW m, down'[p] = down[p], switching'[p][q] = switching[p][q],
           ModeOf(p, q)' = ModeOf(p, q)
    PROVE  Turns(p, q)' = Turns(p, q) /\ (EndsIn(p, q, m) => EndsIn(p, q, m)')
BY DEF EndsIn, Turns

\* What is left of the turns when the head of the queue is taken.
LEMMA TailTurns ==
    ASSUME NEW p, down[p] \in Seq(Message), down[p] # <<>>, down'[p] = Tail(down[p])
    PROVE  /\ Head(down[p]) = down[p][1] /\ 1 \in DOMAIN down[p]
           /\ \A i \in DOMAIN down[p] : i \in Nat \ {0}
           /\ \A i \in DOMAIN down'[p] : i \in Nat \ {0} /\ i + 1 \in DOMAIN down[p]
                                         /\ down'[p][i] = down[p][i + 1]
           /\ \A i \in DOMAIN down[p] : i # 1 => i - 1 \in DOMAIN down'[p]
<1>1. DOMAIN Tail(down[p]) = 1..(Len(down[p]) - 1) /\ DOMAIN down[p] = 1..Len(down[p])
      /\ Len(down[p]) \in Nat \ {0} /\ Head(down[p]) = down[p][1]
  OBVIOUS
<1>2. \A i \in 1..(Len(down[p]) - 1) : Tail(down[p])[i] = down[p][i + 1]
  OBVIOUS
<1> QED
  BY <1>1, <1>2

\* Taking a head that is no turn about q.
LEMMA EndsAfterOther ==
    ASSUME NEW p, NEW q, NEW m, EndsIn(p, q, m),
           down[p] \in Seq(Message), down[p] # <<>>, down'[p] = Tail(down[p]),
           1 \notin Turns(p, q), switching'[p][q] = switching[p][q], ModeOf(p, q)' = ModeOf(p, q)
    PROVE  EndsIn(p, q, m)'
<1>1. \A i \in Turns(p, q)' : i \in Nat /\ i + 1 \in Turns(p, q) /\ down'[p][i] = down[p][i + 1]
  BY TailTurns DEF Turns
<1>2. \A i \in Turns(p, q) : i \in Nat /\ i - 1 \in Turns(p, q)'
  BY TailTurns DEF Turns
<1>3. CASE \E i \in Turns(p, q) : \A j \in Turns(p, q) : j >= i => TargetOf(down[p][j]) = m
  <2>1. PICK i \in Turns(p, q) : \A j \in Turns(p, q) : j >= i => TargetOf(down[p][j]) = m
    BY <1>3
  <2>2. ASSUME NEW j \in Turns(p, q)', j >= i - 1 PROVE TargetOf(down'[p][j]) = m
    <3>1. j + 1 \in Turns(p, q) /\ j + 1 >= i /\ down'[p][j] = down[p][j + 1]
      <4>1. j \in Nat /\ j + 1 \in Turns(p, q) /\ down'[p][j] = down[p][j + 1]
        BY <1>1
      <4>2. i \in Nat
        BY <1>2
      <4>3. j + 1 >= i
        BY <4>1, <4>2, <2>2
      <4> QED
        BY <4>1, <4>3
    <3> QED
      BY <2>1, <3>1
  <2> QED
    BY <1>2, <2>1, <2>2 DEF EndsIn
<1>4. CASE Turns(p, q) = {}
  <2>1. Turns(p, q)' = {}
    BY <1>1, <1>4
  <2> QED
    BY <1>4, <2>1 DEF EndsIn
<1> QED
  BY <1>3, <1>4 DEF EndsIn

\* Taking a turn about q, which begins its switch.
LEMMA EndsAfterTurn ==
    ASSUME NEW p, NEW q, NEW m, EndsIn(p, q, m),
           down[p] \in Seq(Message), down[p] # <<>>, down'[p] = Tail(down[p]),
           1 \in Turns(p, q), switching[p][q] \in Seq(LinkModes),
           switching'[p][q] = Append(switching[p][q], TargetOf(down[p][1])),
           TargetOf(down[p][1]) \in LinkModes
    PROVE  EndsIn(p, q, m)'
<1>1. \A i \in Turns(p, q)' : i \in Nat /\ i + 1 \in Turns(p, q) /\ down'[p][i] = down[p][i + 1]
  BY TailTurns DEF Turns
<1>2. \A i \in Turns(p, q) : i \in Nat /\ i >= 1 /\ (i # 1 => i - 1 \in Turns(p, q)')
  BY TailTurns DEF Turns
<1>3. PICK i \in Turns(p, q) : \A j \in Turns(p, q) : j >= i => TargetOf(down[p][j]) = m
  BY DEF EndsIn
<1>4. CASE i # 1
  <2>1. ASSUME NEW j \in Turns(p, q)', j >= i - 1 PROVE TargetOf(down'[p][j]) = m
    <3>1. j + 1 \in Turns(p, q) /\ j + 1 >= i /\ down'[p][j] = down[p][j + 1]
      <4>1. j \in Nat /\ j + 1 \in Turns(p, q) /\ down'[p][j] = down[p][j + 1]
        BY <1>1
      <4>2. i \in Nat
        BY <1>2
      <4>3. j + 1 >= i
        BY <4>1, <4>2, <2>1
      <4> QED
        BY <4>1, <4>3
    <3> QED
      BY <1>3, <3>1
  <2> QED
    BY <1>2, <1>4, <2>1 DEF EndsIn
<1>5. CASE i = 1 /\ Turns(p, q)' # {}
  <2>1. \A j \in Turns(p, q)' : TargetOf(down'[p][j]) = m
    BY <1>1, <1>2, <1>3, <1>5
  <2> QED
    BY <1>5, <2>1 DEF EndsIn
<1>6. CASE i = 1 /\ Turns(p, q)' = {}
  <2>1. TargetOf(down[p][1]) = m
    BY <1>2, <1>3, <1>6
  <2>2. switching'[p][q] # <<>> /\ switching'[p][q][Len(switching'[p][q])] = m
    BY <2>1
  <2> QED
    BY <1>6, <2>2 DEF EndsIn
<1> QED
  BY <1>4, <1>5, <1>6

\* A message that an agent sends says nothing of a peer that it is not about.
LEMMA SendUnsaid ==
    ASSUME AgentsTyped, NEW p \in Peers, NEW m, Send(p, m), NEW r \in Peers, NEW s,
           r = p /\ m.type = "health-report" => s \notin DOMAIN m.reports, Unsaid(r, s)
    PROVE  Unsaid(r, s)'
<1>1. up[r] \in Seq(UpMail(r)) /\ (up'[r] = up[r] \/ (r = p /\ up'[r] = Append(up[r], m)))
  BY DEF Send, AgentsTyped, UpTyped
<1>2. CASE r = p /\ up'[r] = Append(up[r], m)
  <2>1. DOMAIN Append(up[r], m) = 1..(Len(up[r]) + 1) /\ Len(up[r]) \in Nat
        /\ DOMAIN up[r] = 1..Len(up[r])
    BY <1>1
  <2>2. ASSUME NEW i \in DOMAIN Append(up[r], m)
        PROVE  Append(up[r], m)[i] = m \/ (i \in DOMAIN up[r] /\ Append(up[r], m)[i] = up[r][i])
    BY <1>1, <2>1
  <2> QED
    BY <1>2, <2>2 DEF Unsaid
<1>3. CASE up'[r] = up[r]
  BY <1>3 DEF Unsaid
<1> QED
  BY <1>1, <1>2, <1>3

\* A step of an agent that leaves the server, the modes and the switches, and of
\* its queue takes no turn.
LEMMA QuietAgree ==
    ASSUME AgreeInv, UNCHANGED <<vars, wsOpen, down, switching>>,
           \A p \in Peers : \A q \in Others(p) : ModeOf(p, q)' = ModeOf(p, q),
           \A p \in Peers : \A q \in Others(p) :
              /\ q \in DOMAIN mode[p] => q \in DOMAIN mode'[p]
              /\ q \notin DOMAIN mode'[p] => (Unsaid(p, q) => Unsaid(p, q)')
    PROVE  AgreeInv'
<1>1. Agree'
  BY EndsSame, AgreeStays DEF AgreeInv
<1>2. BothEnds' /\ NothingForced'
  BY DEF AgreeInv, BothEnds, NothingForced, vars
<1>3. \A p \in Peers : \A q \in Others(p) : Unreported(p, q) => Unreported(p, q)'
  BY DEF Unreported, HealthOf, vars
<1>4. UnknownAreUntouched'
  BY <1>3 DEF AgreeInv, UnknownAreUntouched, Untouched, Turns, Others
<1> QED
  BY <1>1, <1>2, <1>4 DEF AgreeInv

\* The handler of a message: a turn is switched to, anything else switches
\* nothing (no mode is forced).
LEMMA HandledTurn ==
    ASSUME MeshInv, AgreeInv, NEW p \in Peers, NEW q \in Others(p), AgentReceive(p, q)
    PROVE  /\ down[p] # <<>> /\ down' = [down EXCEPT ![p] = Tail(@)]
           /\ UNCHANGED <<vars, wsOpen, mode>>
           /\ \A r \in Peers : \A s \in Others(r) :
                \/ switching'[r][s] = switching[r][s] /\ (r = p => 1 \notin Turns(r, s))
                \/ /\ r = p /\ 1 \in Turns(r, s) /\ TargetOf(down[r][1]) \in LinkModes
                   /\ switching'[r][s] = Append(switching[r][s], TargetOf(down[r][1]))
<1> DEFINE m == down[p][1]
<1>1. /\ down[p] # <<>> /\ down' = [down EXCEPT ![p] = Tail(@)] /\ Head(down[p]).with = q
      /\ UNCHANGED <<vars, wsOpen, mode>>
  BY DEF AgentReceive, ProbeRelayServe, ProbeRelayCheck, ProbeDirectStart, ProbeDirectGo,
         ProbeVerdict, NegotiateAbort, ForcedByServer, Receives
<1>2. /\ down[p] \in Seq(Message) /\ switching \in [Peers -> [Peers -> Seq(LinkModes)]]
      /\ down' = [down EXCEPT ![p] = Tail(@)] /\ down \in [Peers -> Seq(Message)]
  BY <1>1 DEF MeshInv, MeshTyped, NetworkTyped, TasksTyped
<1>3. down'[p] = Tail(down[p]) /\ Head(down[p]) = m /\ 1 \in DOMAIN down[p] /\ m.with = q
  BY <1>1, <1>2
<1> HIDE DEF m
<1>4. CASE IsTurn(m, q)
  <2>1. ProbeVerdict(p, q) /\ m.arg \in {"switch-relay", "switch-direct"}
    BY <1>3, <1>4 DEF AgentReceive, ProbeRelayServe, ProbeRelayCheck, ProbeDirectStart,
                      ProbeDirectGo, ProbeVerdict, NegotiateAbort, ForcedByServer, Receives, IsTurn
  <2>2. Switch(p, q, TargetOf(m)) /\ TargetOf(m) \in LinkModes
    BY <1>3, <2>1 DEF ProbeVerdict, TargetOf, LinkModes
  <2>3. 1 \in Turns(p, q)
    BY <1>3, <1>4 DEF Turns, m
  <2>4. q \in DOMAIN mode[p]
    BY <2>3 DEF AgreeInv, UnknownAreUntouched, Untouched
  <2>5. switching' = [switching EXCEPT ![p][q] = Append(@, TargetOf(m))]
    BY <2>2, <2>4 DEF Switch
  <2>6. \A s \in Others(p) : s # q => 1 \notin Turns(p, s)
    BY <1>3 DEF Turns, IsTurn, m
  <2>7. q \in Peers /\ \A r \in Peers : \A s \in Others(r) : s \in Peers
    BY DEF Others
  <2>8. ASSUME NEW r \in Peers, NEW s \in Others(r)
        PROVE  \/ switching'[r][s] = switching[r][s] /\ (r # p \/ s # q)
               \/ switching'[r][s] = Append(switching[r][s], TargetOf(m)) /\ r = p /\ s = q
    BY <1>2, <2>5, <2>7
  <2> QED
    BY <1>1, <2>2, <2>3, <2>6, <2>8 DEF m
<1>5. CASE ~IsTurn(m, q)
  <2>1. \A s : 1 \notin Turns(p, s)
    BY <1>3, <1>5 DEF Turns, IsTurn, m
  <2>2. ~ForcedByServer(p, q)
    BY <1>3 DEF ForcedByServer, Receives, AgreeInv, NothingForced, m
  <2>3. UNCHANGED switching
    BY <1>3, <1>5, <2>2
       DEF AgentReceive, ProbeRelayServe, ProbeRelayCheck, ProbeDirectStart, ProbeDirectGo,
           ProbeVerdict, NegotiateAbort, Receives, IsTurn
  <2> QED
    BY <1>1, <2>1, <2>3
<1> QED
  BY <1>4, <1>5

\* What a handler sends is never a report.
LEMMA HandlerUnsaid ==
    ASSUME MeshInv, NEW p \in Peers, NEW q \in Others(p), AgentReceive(p, q) \/ TaskDone(p, q),
           NEW r \in Peers, NEW s, Unsaid(r, s)
    PROVE  Unsaid(r, s)'
<1>1. AgentsTyped
  BY DEF MeshInv, MeshTyped
<1>2. UNCHANGED up \/ \E m : Send(p, m) /\ m.type # "health-report"
  <2>1. /\ Probe("probe-relay-ready", q, TRUE).type # "health-report"
        /\ Probe("probe-error", q, FALSE).type # "health-report"
        /\ Probe("probe-direct-ready", q, TRUE).type # "health-report"
        /\ \A success \in BOOLEAN :
              /\ Probe("probe-relay-result", q, success).type # "health-report"
              /\ Probe("probe-direct-result", q, success).type # "health-report"
    BY DEF Probe
  <2>2. CASE ProbeRelayServe(p, q) \/ BindDone(p, q)
    BY <2>1, <2>2 DEF ProbeRelayServe, BindDone
  <2>3. CASE CheckDone(p, q) \/ GoDone(p, q)
    BY <2>1, <2>3 DEF CheckDone, GoDone
  <2>4. CASE ~ (ProbeRelayServe(p, q) \/ BindDone(p, q) \/ CheckDone(p, q) \/ GoDone(p, q))
    BY <2>4 DEF AgentReceive, TaskDone, ProbeRelayCheck, ProbeDirectStart, ProbeDirectGo,
                ProbeVerdict, NegotiateAbort, ForcedByServer, SwitchDone, network
  <2> QED
    BY <2>2, <2>3, <2>4
<1>3. CASE UNCHANGED up
  BY <1>3 DEF Unsaid
<1>4. CASE \E m : Send(p, m) /\ m.type # "health-report"
  <2>1. PICK m : Send(p, m) /\ m.type # "health-report"
    BY <1>4
  <2>2. r = p /\ m.type = "health-report" => s \notin DOMAIN m.reports
    BY <2>1
  <2> QED
    BY <1>1, <2>1, <2>2, SendUnsaid
<1> QED
  BY <1>2, <1>3, <1>4

\* So does an agent that reads a message: what it is told to switch to moves
\* from its mail to its switches under way.
LEMMA ReceiveAgree ==
    ASSUME MeshInv, AgreeInv, NEW p \in Peers, NEW q \in Others(p), AgentReceive(p, q)
    PROVE  AgreeInv'
<1>1. /\ down[p] # <<>> /\ down' = [down EXCEPT ![p] = Tail(@)]
      /\ UNCHANGED <<vars, wsOpen, mode>>
      /\ \A r \in Peers : \A s \in Others(r) :
           \/ switching'[r][s] = switching[r][s] /\ (r = p => 1 \notin Turns(r, s))
           \/ /\ r = p /\ 1 \in Turns(r, s) /\ TargetOf(down[r][1]) \in LinkModes
              /\ switching'[r][s] = Append(switching[r][s], TargetOf(down[r][1]))
  BY HandledTurn
<1>2. /\ down \in [Peers -> Seq(Message)]
      /\ \A r \in Peers : \A s \in Others(r) : switching[r][s] \in Seq(LinkModes)
  BY DEF MeshInv, MeshTyped, NetworkTyped, TasksTyped, Others
<1>3. down'[p] = Tail(down[p]) /\ \A r \in Peers \ {p} : down'[r] = down[r]
  BY <1>1, <1>2
<1>4. \A r, s : ModeOf(r, s)' = ModeOf(r, s)
  BY <1>1 DEF ModeOf
<1>5. ASSUME NEW r \in Peers, NEW s \in Others(r), NEW m, EndsIn(r, s, m)
      PROVE  EndsIn(r, s, m)'
  <2>1. CASE r # p
    <3>1. switching'[r][s] = switching[r][s] /\ down'[r] = down[r]
      BY <1>1, <1>3, <2>1
    <3> QED
      BY <1>4, <1>5, <3>1, EndsSame
  <2>2. CASE r = p /\ 1 \notin Turns(r, s)
    BY <1>1, <1>2, <1>3, <1>4, <1>5, <2>2, EndsAfterOther
  <2>3. CASE r = p /\ 1 \in Turns(r, s)
    BY <1>1, <1>2, <1>3, <1>5, <2>3, EndsAfterTurn
  <2> QED
    BY <2>1, <2>2, <2>3
<1>6. \A i \in DOMAIN down'[p] : i + 1 \in DOMAIN down[p] /\ down'[p][i] = down[p][i + 1]
  BY <1>1, <1>2, <1>3, TailTurns
<1>7. NothingForced'
  BY <1>3, <1>6 DEF AgreeInv, NothingForced
<1>8. UnknownAreUntouched'
  <2> SUFFICES ASSUME NEW r \in Peers, NEW s \in Others(r), s \notin DOMAIN mode[r]
               PROVE  Untouched(r, s)'
    BY <1>1 DEF UnknownAreUntouched, Others
  <2>1. Untouched(r, s)
    BY DEF AgreeInv, UnknownAreUntouched
  <2>2. Unsaid(r, s)'
    BY <2>1, HandlerUnsaid DEF Untouched
  <2>3. Unreported(r, s)'
    BY <1>1, <2>1 DEF Untouched, Unreported, HealthOf, vars
  <2>4. Turns(r, s)' = {}
    BY <1>3, <1>6, <2>1 DEF Untouched, Turns
  <2>5. switching'[r][s] = <<>>
    BY <1>1, <2>1 DEF Untouched
  <2> QED
    BY <2>2, <2>3, <2>4, <2>5 DEF Untouched
<1>9. BothEnds'
  BY <1>1 DEF AgreeInv, BothEnds, vars
<1> QED
  BY <1>5, <1>7, <1>8, <1>9, AgreeStays DEF AgreeInv

\* What follows an await: a switch that ends is the mode, and of several the
\* last counts.
LEMMA TaskAgree ==
    ASSUME MeshInv, AgreeInv, NEW p \in Peers, NEW q \in Others(p), TaskDone(p, q)
    PROVE  AgreeInv'
<1>1. CASE CheckDone(p, q) \/ BindDone(p, q) \/ GoDone(p, q)
  <2>1. UNCHANGED <<vars, wsOpen, down, mode, switching>>
    BY <1>1 DEF CheckDone, BindDone, GoDone
  <2>2. \A r, s : ModeOf(r, s)' = ModeOf(r, s)
    BY <2>1 DEF ModeOf
  <2> QED
    BY <2>1, <2>2, HandlerUnsaid, QuietAgree
<1>2. CASE SwitchDone(p, q)
  <2> DEFINE w == switching[p][q]
  <2>1. /\ UNCHANGED <<vars, wsOpen, up, down>> /\ w # <<>>
        /\ switching' = [switching EXCEPT ![p][q] = Tail(@)]
        /\ mode' = [mode EXCEPT ![p] = [r \in DOMAIN @ |-> IF r = q THEN Head(w) ELSE @[r]]]
    BY <1>2 DEF SwitchDone, network
  <2>2. /\ switching \in [Peers -> [Peers -> Seq(LinkModes)]] /\ DOMAIN mode = Peers
        /\ w \in Seq(LinkModes) /\ q \in Peers /\ \A r \in Peers : Others(r) \subseteq Peers
    BY DEF MeshInv, MeshTyped, TasksTyped, AgentsTyped, ModeTyped, Others
  <2>3. q \in DOMAIN mode[p]
    BY <2>1 DEF AgreeInv, UnknownAreUntouched, Untouched
  <2>4. switching'[p][q] = Tail(w) /\ ModeOf(p, q)' = Head(w)
    BY <2>1, <2>2, <2>3 DEF ModeOf
  <2>5. \A r \in Peers : \A s \in Others(r) :
          r # p \/ s # q => switching'[r][s] = switching[r][s] /\ ModeOf(r, s)' = ModeOf(r, s)
    BY <2>1, <2>2 DEF ModeOf
  <2>6. ASSUME NEW m, EndsIn(p, q, m) PROVE EndsIn(p, q, m)'
    <3>1. Turns(p, q)' = Turns(p, q)
      BY <2>1 DEF Turns
    <3> HIDE DEF w
    <3>2. w \in Seq(LinkModes) /\ w # <<>>
      BY <2>1, <2>2
    <3>3. /\ Len(w) \in Nat \ {0} /\ Len(Tail(w)) = Len(w) - 1 /\ Tail(w) \in Seq(LinkModes)
          /\ \A i \in 1..(Len(w) - 1) : Tail(w)[i] = w[i + 1]
          /\ Head(w) = w[1]
      BY <3>2
    <3>4. Tail(w) # <<>> <=> Len(w) > 1
      BY <3>3
    <3>5. Tail(w) # <<>> => Tail(w)[Len(Tail(w))] = w[Len(w)]
      <4> SUFFICES ASSUME Len(w) > 1 PROVE Tail(w)[Len(w) - 1] = w[Len(w)]
        BY <3>3, <3>4
      <4>1. Len(w) - 1 \in 1..(Len(w) - 1) /\ (Len(w) - 1) + 1 = Len(w)
        BY <3>3
      <4> QED
        BY <3>3, <4>1
    <3>6. Tail(w) = <<>> => Head(w) = w[Len(w)]
      BY <3>3, <3>4
    <3> QED
      BY <2>1, <2>4, <2>6, <3>1, <3>5, <3>6 DEF EndsIn, w
  <2>7. \A r \in Peers : \A s \in Others(r) : \A m : EndsIn(r, s, m) => EndsIn(r, s, m)'
    BY <2>1, <2>5, <2>6, EndsSame
  <2>8. UnknownAreUntouched'
    <3> SUFFICES ASSUME NEW r \in Peers, NEW s \in Others(r), s \notin DOMAIN mode'[r]
                 PROVE  Untouched(r, s)'
      BY DEF UnknownAreUntouched, Others
    <3>1. DOMAIN mode'[r] = DOMAIN mode[r]
      BY <2>1, <2>2
    <3>2. Untouched(r, s) /\ (r # p \/ s # q)
      BY <2>3, <3>1 DEF AgreeInv, UnknownAreUntouched
    <3>3. switching'[r][s] = switching[r][s]
      BY <2>5, <3>2
    <3> QED
      BY <2>1, <3>2, <3>3 DEF Untouched, Unsaid, Unreported, HealthOf, Turns, vars
  <2>9. BothEnds' /\ NothingForced'
    BY <2>1 DEF AgreeInv, BothEnds, NothingForced, vars
  <2> QED
    BY <2>7, <2>8, <2>9, AgreeStays DEF AgreeInv
<1> QED
  BY <1>1, <1>2 DEF TaskDone

\* The other steps of an agent.
LEMMA AgentAgree ==
    ASSUME MeshInv, AgreeInv, NEW p \in Peers, Agent(p), UNCHANGED faults
    PROVE  AgreeInv'
<1>1. ASSUME NEW q \in Others(p), AutoUnfreeze(p, q) PROVE AgreeInv'
  <2>1. UNCHANGED <<vars, wsOpen, up, down, mode, switching>>
    BY <1>1 DEF AutoUnfreeze, network
  <2> QED
    BY <2>1, QuietAgree DEF ModeOf, Unsaid
<1>2. CASE SendReport(p)
  <2> DEFINE about == DOMAIN mode[p] \ frozenPeers[p]
  <2>1. UNCHANGED <<vars, wsOpen, down, mode, switching>> /\ wsOpen[p] /\ sockets[p] > 0
    BY <1>2 DEF SendReport, agents
  <2>2. PICK reports \in [about -> Statuses] :
          up' = [up EXCEPT ![p] = Append(@, [type |-> "health-report", reports |-> reports])]
    BY <1>2 DEF SendReport
  <2> DEFINE m == [type |-> "health-report", reports |-> reports]
  <2>3. Send(p, m) /\ DOMAIN m.reports = about
    BY <2>1, <2>2 DEF Send
  <2> HIDE DEF m
  <2>4. ASSUME NEW r \in Peers, NEW s \in Others(r), s \notin DOMAIN mode[r], Unsaid(r, s)
        PROVE  Unsaid(r, s)'
    <3>1. r = p => s \notin DOMAIN m.reports
      BY <2>3, <2>4
    <3> QED
      BY <2>3, <2>4, <3>1, SendUnsaid DEF MeshInv, MeshTyped
  <2>5. \A r, s : ModeOf(r, s)' = ModeOf(r, s)
    BY <2>1 DEF ModeOf
  <2> QED
    BY <2>1, <2>4, <2>5, QuietAgree
<1>3. CASE Poll(p)
  <2>1. /\ UNCHANGED <<vars, wsOpen, up, down, switching>>
        /\ mode' = [mode EXCEPT ![p] = [q \in Others(p) |->
                       IF q \in DOMAIN @ THEN @[q] ELSE "direct"]]
    BY <1>3 DEF Poll, network
  <2>2. DOMAIN mode = Peers
    BY DEF MeshInv, MeshTyped, AgentsTyped, ModeTyped
  <2>3. /\ mode'[p] = [q \in Others(p) |-> IF q \in DOMAIN mode[p] THEN mode[p][q] ELSE "direct"]
        /\ \A r \in Peers \ {p} : mode'[r] = mode[r]
    BY <2>1, <2>2
  <2>4. \A r \in Peers : \A s \in Others(r) : ModeOf(r, s)' = ModeOf(r, s)
    BY <2>3 DEF ModeOf
  <2>5. \A r \in Peers : \A s \in Others(r) : s \in DOMAIN mode[r] => s \in DOMAIN mode'[r]
    BY <2>3
  <2> QED
    BY <2>1, <2>4, <2>5, QuietAgree DEF Unsaid
<1>4. CASE RestartAgent(p)
  BY <1>4, MeshBoundsAssumption DEF RestartAgent, Fault, MeshInv, MeshTyped, FaultsTyped
<1> QED
  BY <1>1, <1>2, <1>3, <1>4, ReceiveAgree, TaskAgree DEF Agent

\* Without a fault an agent connects once, and no socket ends.
LEMMA ConnectionAgree ==
    ASSUME MeshInv, OneSocket, AgreeInv, Connection, UNCHANGED faults
    PROVE  AgreeInv'
<1>1. ~Fault
  BY MeshBoundsAssumption DEF Fault, MeshInv, MeshTyped, FaultsTyped
<1>2. ASSUME NEW p \in Peers, Connect(p) PROVE AgreeInv'
  <2>1. /\ UNCHANGED <<links, pairHealthMap, activeNegotiations, up, down, mode, switching>>
        /\ connected' = connected \cup {p} /\ wsOpen' = [wsOpen EXCEPT ![p] = TRUE]
    BY <1>2 DEF Connect, WsOpen, agents
  <2>2. \A r \in Peers : wsOpen'[r] <=> (r = p \/ wsOpen[r])
    BY <2>1 DEF MeshInv, MeshTyped, NetworkTyped
  <2>3. BothEnds' /\ NothingForced'
    BY <2>1, <2>2 DEF AgreeInv, BothEnds, NothingForced
  <2>4. \A r, s, m : EndsIn(r, s, m) => EndsIn(r, s, m)'
    BY <2>1 DEF EndsIn, Turns, ModeOf
  <2>5. UnknownAreUntouched'
    BY <2>1 DEF AgreeInv, UnknownAreUntouched, Untouched, Unsaid, Unreported, HealthOf, Turns,
                Others
  <2> QED
    BY <2>3, <2>4, <2>5, AgreeStays DEF AgreeInv
<1>3. ASSUME NEW p \in Peers, AgentClose(p) \/ ServerClose(p) PROVE FALSE
  <2>1. sockets[p] \in 0..1 /\ (sockets[p] = 1 <=> p \in connected)
    BY DEF OneSocket
  <2>2. CASE p \in connected
    <3>1. wsOpen[p]
      BY <2>2 DEF AgreeInv, BothEnds
    <3>2. sockets[p] = 0
      BY <1>1, <1>3, <3>1, Zenon DEF AgentClose, ServerClose, WsClose
    <3> QED
      BY <2>1, <2>2, <3>2
  <2>3. CASE p \notin connected
    <3>1. ~wsOpen[p]
      BY <2>3 DEF AgreeInv, BothEnds
    <3>2. sockets[p] > 0
      BY <1>1, <1>3, <3>1, Zenon DEF AgentClose, ServerClose, WsClose
    <3> QED
      BY <2>1, <2>3, <3>2
  <2> QED
    BY <2>2, <2>3
<1> QED
  BY <1>2, <1>3 DEF Connection

\* Faults are counted, and never forgotten.
LEMMA FaultsCount ==
    ASSUME MeshInv, [MeshNext]_meshVars
    PROVE  UNCHANGED faults \/ faults' = faults + 1
<1>1. CASE UNCHANGED meshVars
  BY <1>1 DEF meshVars
<1>2. CASE Connection
  BY <1>2 DEF Connection, Connect, AgentClose, ServerClose, Fault
<1>3. CASE Server
  BY <1>3, ServerMail
<1>4. CASE Administrator
  BY <1>4 DEF Administrator, ForcePair, RestartServer, Fault
<1>5. ASSUME NEW p \in Peers, Agent(p) PROVE UNCHANGED faults \/ faults' = faults + 1
  <2>1. ASSUME NEW q \in Others(p), AgentReceive(p, q) PROVE UNCHANGED faults
    BY <2>1 DEF AgentReceive, ProbeRelayServe, ProbeRelayCheck, ProbeDirectStart, ProbeDirectGo,
                ProbeVerdict, NegotiateAbort, ForcedByServer
  <2>2. ASSUME NEW q \in Others(p), TaskDone(p, q) \/ AutoUnfreeze(p, q) PROVE UNCHANGED faults
    BY <2>2 DEF TaskDone, CheckDone, BindDone, GoDone, SwitchDone, AutoUnfreeze
  <2> QED
    BY <1>5, <2>1, <2>2 DEF Agent, SendReport, Poll, RestartAgent, Fault
<1> QED
  BY <1>1, <1>2, <1>3, <1>4, <1>5 DEF MeshNext

FaultlessInv == faults = 0 => AgreeInv

\* As long as nothing fails, every step preserves AgreeInv.
LEMMA FaultlessStep ==
    MeshInv /\ MeshInv' /\ DueInv /\ FaultlessInv /\ [MeshNext]_meshVars => FaultlessInv'
<1> SUFFICES ASSUME MeshInv, MeshInv', DueInv, FaultlessInv, [MeshNext]_meshVars, faults' = 0
             PROVE  AgreeInv'
  BY DEF FaultlessInv
<1>1. UNCHANGED faults /\ faults = 0
  <2>1. faults \in Nat
    BY MeshBoundsAssumption DEF MeshInv, MeshTyped, FaultsTyped
  <2> QED
    BY <2>1, FaultsCount
<1>2. AgreeInv /\ OneSocket
  BY <1>1 DEF FaultlessInv, DueInv
<1>3. CASE UNCHANGED meshVars
  <2>1. UNCHANGED <<vars, wsOpen, up, down, mode, switching>>
    BY <1>3 DEF meshVars, network, agents
  <2> QED
    BY <1>2, <2>1, QuietAgree DEF ModeOf, Unsaid
<1>4. ~Administrator
  BY <1>1 DEF Administrator, ForcePair, RestartServer, Fault
<1> QED
  BY <1>1, <1>2, <1>3, <1>4, ConnectionAgree, ServerAgree, AgentAgree DEF MeshNext

\* Two agents whose pair is settled are in the modes they were to end in.
LEMMA AgreeSettled == AgreeInv => SettledModesAgree
<1> SUFFICES ASSUME AgreeInv, NEW k \in Keys, Settled(k)
             PROVE  mode[k[1]][k[2]] = mode[k[2]][k[1]]
  BY DEF SettledModesAgree
<1>1. PICK m \in LinkModes : \A p \in Members(k) : EndsIn(p, Other(k, p), m)
  BY DEF AgreeInv, Agree
<1>2. ASSUME NEW p \in Members(k) PROVE mode[p][Other(k, p)] = m
  <2>1. Turns(p, Other(k, p)) = {}
    BY DEF Settled, ReleaseUnderWay, Turns, IsTurn
  <2> QED
    BY <1>1, <2>1 DEF Settled, EndsIn, ModeOf
<1>3. Other(k, k[1]) = k[2] /\ Other(k, k[2]) = k[1] /\ k[1] \in Members(k) /\ k[2] \in Members(k)
  BY KeyFacts DEF Other, Members
<1> QED
  BY <1>2, <1>3

\* As long as nothing has failed and nothing was forced, the two agents of a
\* pair about which nothing is being negotiated, told or switched have the same
\* mode: whatever results came late, whatever timed out and was begun again,
\* with any number of agents.
THEOREM SettledAgree == MeshSpec => [](faults = 0 => SettledModesAgree)
<1>1. MeshInit => DueInv /\ FaultlessInv
  <2> SUFFICES ASSUME MeshInit PROVE DueInv /\ FaultlessInv
    OBVIOUS
  <2>1. DueInv
    BY DEF MeshInit, Init, DueInv, HeldIsDue, MailIsDue, ClosedHoldsNothing, OneSocket
  <2>2. \A p \in Peers : \A q \in Others(p) : q \in Peers /\ switching[p][q] = <<>>
    BY DEF MeshInit, Others
  <2>3. \A p \in Peers : \A q : Turns(p, q) = {} /\ Unsaid(p, q) /\ ModeOf(p, q) = "direct"
    BY DEF MeshInit, Turns, Unsaid, ModeOf
  <2>4. \A p \in Peers : \A q \in Others(p) : EndsIn(p, q, "direct")
    BY <2>2, <2>3 DEF EndsIn
  <2>5. Agree
    <3>1. \A k \in Keys : \A p \in Members(k) : p \in Peers /\ Other(k, p) \in Others(p)
      BY PairOfMember DEF Others
    <3> QED
      BY <2>4, <3>1 DEF Agree, LinkModes
  <2>6. \A p \in Peers : \A q \in Others(p) : Unreported(p, q)
    <3>1. \A p \in Peers : \A q \in Others(p) : Side(PairKey(p, q), p) \in Sides
      BY OtherSide
    <3> QED
      BY <3>1 DEF MeshInit, Init, Unreported, HealthOf, NoHealth, NothingBegun
  <2>7. BothEnds /\ NothingForced
    BY DEF MeshInit, Init, BothEnds, NothingForced
  <2>8. UnknownAreUntouched
    BY <2>2, <2>3, <2>6 DEF UnknownAreUntouched, Untouched
  <2> QED
    BY <2>1, <2>5, <2>7, <2>8 DEF FaultlessInv, AgreeInv
<1>2. FaultlessInv => (faults = 0 => SettledModesAgree)
  BY AgreeSettled DEF FaultlessInv
<1> QED
  BY <1>1, <1>2, MeshInvariant, DueInvStep, FaultlessStep, PTL DEF MeshSpec

=============================================================================
