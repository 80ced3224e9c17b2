-------------------------- MODULE NegotiatorProofs --------------------------
(***************************************************************************)
(* Proofs about Negotiator, for any finite set of peers and any bounds:    *)
(* its invariants, and that it implements PairFailover: every step of the  *)
(* server is, for its pairs, an arrival, a departure, a beginning, a       *)
(* sweep, a conclusion, a removal or a restart.                            *)
(***************************************************************************)
EXTENDS NegotiatorImplements, TLAPS

(***************************************************************************)
(* The part of the state that Lifecycle changes.                           *)
(***************************************************************************)
NegotiationsOK ==
    /\ DOMAIN activeNegotiations \subseteq Keys
    /\ activeNegotiations \in [DOMAIN activeNegotiations -> Negotiations]

\* Every negotiation holds a timeout of one of the three kinds.
LEMMA TimerOfNegotiation == \A n \in Negotiations : n.timer \in TimerKinds
BY DEF Negotiations, RelayProbes, DirectProbes, TimerKinds

\* Ending some negotiations and beginning others of the right type leaves
\* activeNegotiations well typed.
LEMMA LifecycleTypes ==
    ASSUME NEW fired, NEW ended, NEW begun, NegotiationsOK,
           DOMAIN begun \subseteq Keys,
           \A k \in DOMAIN begun : begun[k] \in Negotiations,
           Lifecycle(fired, ended, begun)
    PROVE  /\ NegotiationsOK'
           /\ DOMAIN activeNegotiations' =
                 (DOMAIN activeNegotiations \ ended) \cup DOMAIN begun
BY DEF Lifecycle, NegotiationsOK

\* Timeouts stay owned, when those that ran belong to what ends and what
\* begins does not replace what stays.
LEMMA LifecycleOwnership ==
    ASSUME NEW fired, NEW ended, NEW begun, TimerOwnership,
           fired \subseteq Handles(ended),
           DOMAIN begun \cap (DOMAIN activeNegotiations \ ended) = {},
           Lifecycle(fired, ended, begun)
    PROVE  TimerOwnership'
<1> DEFINE kept == DOMAIN activeNegotiations \ ended
<1>1. DOMAIN activeNegotiations' = kept \cup DOMAIN begun
  BY DEF Lifecycle
<1>2. \A k \in DOMAIN begun : activeNegotiations'[k] = begun[k]
  BY DEF Lifecycle
<1>3. \A k \in kept : activeNegotiations'[k] = activeNegotiations[k]
  BY DEF Lifecycle
<1>4. timers' = {<<k, activeNegotiations[k].timer>> : k \in kept}
                \cup {<<k, begun[k].timer>> : k \in DOMAIN begun}
  BY DEF Lifecycle, TimerOwnership, Handles
<1>5. Handles(DOMAIN activeNegotiations)' =
        {<<k, activeNegotiations[k].timer>> : k \in kept}
        \cup {<<k, begun[k].timer>> : k \in DOMAIN begun}
  BY <1>1, <1>2, <1>3 DEF Handles
<1> QED
  BY <1>4, <1>5 DEF TimerOwnership


(***************************************************************************)
(* The rest of the state, in three groups.                                 *)
(***************************************************************************)
RegistryOK ==
    /\ sockets \in [Peers -> 0..MaxSockets]
    /\ connected \subseteq Peers

TablesOK ==
    /\ peers \subseteq Peers
    /\ relayEnabled \in BOOLEAN
    /\ DOMAIN links \subseteq peers \X peers
    /\ links \in [DOMAIN links -> [mode : LinkModes, forcedMode : ForcedModes]]

HealthOK ==
    /\ DOMAIN pairHealthMap \subseteq Keys
    /\ pairHealthMap \in [DOMAIN pairHealthMap -> PairHealth]

SentOK == sent \subseteq Peers \X Message

\* The inductive invariant: the types, and the four invariants.
IInv ==
    /\ RegistryOK /\ TablesOK /\ HealthOK /\ SentOK
    /\ NegotiationsOK
    /\ TimerOwnership
    /\ ActivePeersConnected
    /\ ActiveHasHealth
    /\ RelayProbeNotForced

\* IInv implies the type invariant as the specification states it.
LEMMA IInvTypes == IInv => TypeOK
<1> SUFFICES ASSUME IInv PROVE TypeOK
  OBVIOUS
<1>1. timers \subseteq Keys \X TimerKinds
  BY TimerOfNegotiation DEF IInv, NegotiationsOK, TimerOwnership, Handles
<1> QED
  BY <1>1 DEF IInv, TypeOK, RegistryOK, TablesOK, HealthOK, SentOK, NegotiationsOK

(***************************************************************************)
(* Pairs and messages.                                                     *)
(***************************************************************************)
LEMMA PairKeyFacts ==
    ASSUME NEW p \in Peers, NEW q \in Peers \ {p}
    PROVE  /\ PairKey(p, q) \in Keys
           /\ Members(PairKey(p, q)) = {p, q}
           /\ Other(PairKey(p, q), p) = q
           /\ Side(PairKey(p, q), p) \in Sides
BY PeersAssumption DEF PairKey, Keys, Members, Other, Side, Sides

\* What a key is: two peers, in order, each the other of the other.
LEMMA KeyFacts ==
    ASSUME NEW k \in Keys
    PROVE  /\ k[1] \in Peers /\ k[2] \in Peers /\ k[1] # k[2]
           /\ Members(k) \subseteq Peers
           /\ \A p \in Members(k) : Other(k, p) \in Members(k) \ {p}
<1>1. k[1] \in Peers /\ k[2] \in Peers /\ k[1] < k[2]
  BY DEF Keys
<1>2. \A p \in Peers : p \in Int
  BY PeersAssumption
<1>3. \A i, j \in Peers : i < j => i # j
  BY <1>2
<1>4. k[1] # k[2]
  BY <1>1, <1>3
<1> QED
  BY <1>1, <1>4 DEF Members, Other

Args == {"", "switch-relay", "switch-direct", "stay", "timeout", "ws-reset", "admin-force",
         "peer-removed", "force-direct", "force-relay", "auto"}
MsgTypes == {"probe-relay-serve", "probe-relay-check", "probe-direct-start",
             "probe-direct-go", "probe-verdict", "negotiate-abort", "force-mode",
             "peer-removed"}

\* A message built by Msg from typed parts is a message.
LEMMA MsgType ==
    ASSUME NEW t \in MsgTypes, NEW p \in Peers, NEW a \in Args
    PROVE  Msg(t, p, a) \in Message
BY DEF Msg, Message, MsgTypes, Args

\* Mail to both peers of a pair is well typed.
LEMMA ToBothType ==
    ASSUME NEW k \in Keys, NEW t \in MsgTypes, NEW a \in Args
    PROVE  ToBoth(k, t, a) \subseteq Peers \X Message
BY MsgType, KeyFacts DEF ToBoth

\* Mail to both peers of several pairs is well typed.
LEMMA ToBothOfType ==
    ASSUME NEW K \in SUBSET Keys, NEW t \in MsgTypes, NEW a \in Args
    PROVE  ToBothOf(K, t, a) \subseteq Peers \X Message
BY ToBothType DEF ToBothOf

\* The mail of an abort is well typed.
LEMMA AbortType ==
    ASSUME NEW K, NegotiationsOK, NEW a \in Args
    PROVE  Abort(K, a) \subseteq Peers \X Message
BY ToBothOfType DEF Abort, NegotiationsOK, MsgTypes

\* Pushing well-typed mail leaves sent well typed.
LEMMA PushType ==
    ASSUME NEW mail \in SUBSET (Peers \X Message), Push(mail)
    PROVE  SentOK'
BY DEF Push, SentOK

\* A step that pushes nothing leaves sent well typed.
LEMMA SilentType == Silent => SentOK'
BY DEF Silent, SentOK


(***************************************************************************)
(* Ending negotiations.  Half of the actions end negotiations, begin none  *)
(* and touch neither the registry nor the health records.                  *)
(***************************************************************************)
LEMMA EndTypes ==
    ASSUME IInv, NEW fired, NEW ended, fired \subseteq Handles(ended),
           Lifecycle(fired, ended, NothingBegun)
    PROVE  /\ NegotiationsOK' /\ TimerOwnership'
           /\ DOMAIN activeNegotiations' = DOMAIN activeNegotiations \ ended
           /\ \A k \in DOMAIN activeNegotiations' :
                activeNegotiations'[k] = activeNegotiations[k]
<1>1. DOMAIN NothingBegun = {}
  BY DEF NothingBegun
<1>2. NegotiationsOK' /\ DOMAIN activeNegotiations' = DOMAIN activeNegotiations \ ended
  <2>1. NegotiationsOK
    BY DEF IInv
  <2>2. /\ DOMAIN NothingBegun \subseteq Keys
        /\ \A k \in DOMAIN NothingBegun : NothingBegun[k] \in Negotiations
    BY <1>1
  <2>3. /\ NegotiationsOK'
        /\ DOMAIN activeNegotiations' =
              (DOMAIN activeNegotiations \ ended) \cup DOMAIN NothingBegun
    BY <2>1, <2>2, LifecycleTypes
  <2> QED
    BY <1>1, <2>3
<1>3. TimerOwnership'
  BY <1>1, LifecycleOwnership DEF IInv
<1> QED
  BY <1>1, <1>2, <1>3 DEF Lifecycle

LEMMA EndKeeps ==
    ASSUME IInv, NEW fired, NEW ended, fired \subseteq Handles(ended),
           Lifecycle(fired, ended, NothingBegun), UNCHANGED <<connected, pairHealthMap>>
    PROVE  /\ NegotiationsOK' /\ TimerOwnership'
           /\ ActivePeersConnected' /\ ActiveHasHealth' /\ RelayProbeNotForced'
<1>1. /\ NegotiationsOK' /\ TimerOwnership'
      /\ DOMAIN activeNegotiations' = DOMAIN activeNegotiations \ ended
      /\ \A k \in DOMAIN activeNegotiations' : activeNegotiations'[k] = activeNegotiations[k]
  BY EndTypes
<1>2. ActivePeersConnected' /\ ActiveHasHealth'
  BY <1>1 DEF IInv, ActivePeersConnected, ActiveHasHealth
<1>3. RelayProbeNotForced'
  BY <1>1 DEF IInv, RelayProbeNotForced, IsActive
<1> QED
  BY <1>1, <1>2, <1>3

\* Ending one negotiation keeps the negotiation part of the invariant.
LEMMA FinishKeeps ==
    ASSUME IInv, NEW k, Finish(k), UNCHANGED <<connected, pairHealthMap>>
    PROVE  /\ NegotiationsOK' /\ TimerOwnership'
           /\ ActivePeersConnected' /\ ActiveHasHealth' /\ RelayProbeNotForced'
BY EndKeeps DEF Finish

\* A step that only pushes messages.
LEMMA UnchangedKeeps ==
    ASSUME IInv, SentOK',
           UNCHANGED <<sockets, connected, peers, relayEnabled, links, pairHealthMap,
                       activeNegotiations, timers>>
    PROVE  IInv'
<1>1. RegistryOK' /\ TablesOK' /\ HealthOK' /\ NegotiationsOK' /\ TimerOwnership'
  BY DEF IInv, RegistryOK, TablesOK, HealthOK, NegotiationsOK, TimerOwnership, Handles
<1>2. ActivePeersConnected' /\ ActiveHasHealth' /\ RelayProbeNotForced'
  BY DEF IInv, ActivePeersConnected, ActiveHasHealth, RelayProbeNotForced, IsActive
<1> QED
  BY <1>1, <1>2 DEF IInv

\* A step that ends negotiations and changes neither registry, tables nor health.
LEMMA EndStep ==
    ASSUME IInv, NEW fired, NEW ended, fired \subseteq Handles(ended),
           Lifecycle(fired, ended, NothingBegun), SentOK',
           UNCHANGED <<sockets, connected, peers, relayEnabled, links, pairHealthMap>>
    PROVE  IInv'
<1>1. RegistryOK' /\ TablesOK' /\ HealthOK'
  BY DEF IInv, RegistryOK, TablesOK, HealthOK
<1>2. /\ NegotiationsOK' /\ TimerOwnership'
      /\ ActivePeersConnected' /\ ActiveHasHealth' /\ RelayProbeNotForced'
  BY EndKeeps
<1> QED
  BY <1>1, <1>2 DEF IInv

\* A step that ends one negotiation and tells of it keeps the invariant.
LEMMA FinishStep ==
    ASSUME IInv, NEW k, Finish(k), SentOK',
           UNCHANGED <<sockets, connected, peers, relayEnabled, links, pairHealthMap>>
    PROVE  IInv'
BY EndStep DEF Finish

\* A message that fits no negotiation keeps the invariant.
LEMMA IgnoredStep == IInv /\ Ignored => IInv'
BY UnchangedKeeps, SilentType DEF Ignored

(***************************************************************************)
(* The registry.                                                           *)
(***************************************************************************)
LEMMA WsOpenStep ==
    ASSUME IInv, NEW p \in Peers, WsOpen(p)
    PROVE  IInv'
<1>1. RegistryOK'
  <2>1. sockets[p] + 1 \in 0..MaxSockets
    BY BoundsAssumption DEF IInv, RegistryOK, WsOpen
  <2> QED
    BY <2>1 DEF IInv, RegistryOK, WsOpen
<1>2. TablesOK' /\ HealthOK' /\ NegotiationsOK' /\ TimerOwnership'
  BY DEF IInv, WsOpen, TablesOK, HealthOK, NegotiationsOK, TimerOwnership, Handles
<1>3. ActivePeersConnected' /\ ActiveHasHealth' /\ RelayProbeNotForced'
  BY DEF IInv, WsOpen, ActivePeersConnected, ActiveHasHealth, RelayProbeNotForced, IsActive
<1>4. SentOK'
  BY SilentType DEF WsOpen
<1> QED
  BY <1>1, <1>2, <1>3, <1>4 DEF IInv

\* Closing a socket keeps the invariant: what the peer took part in ends.
LEMMA WsCloseStep ==
    ASSUME IInv, NEW p \in Peers, WsClose(p)
    PROVE  IInv'
<1> DEFINE K == PairsOf({p})
<1>1. RegistryOK'
  <2>1. sockets[p] - 1 \in 0..MaxSockets
    BY BoundsAssumption DEF IInv, RegistryOK, WsClose
  <2> QED
    BY <2>1 DEF IInv, RegistryOK, WsClose
<1>2. TablesOK' /\ HealthOK'
  BY DEF IInv, WsClose, TablesOK, HealthOK
<1>3. /\ NegotiationsOK' /\ TimerOwnership'
      /\ DOMAIN activeNegotiations' = DOMAIN activeNegotiations \ K
      /\ \A k \in DOMAIN activeNegotiations' : activeNegotiations'[k] = activeNegotiations[k]
  BY EndTypes DEF WsClose
<1>4. ActivePeersConnected'
  BY <1>3 DEF IInv, WsClose, ActivePeersConnected, PairsOf
<1>5. ActiveHasHealth' /\ RelayProbeNotForced'
  BY <1>3 DEF IInv, WsClose, ActiveHasHealth, RelayProbeNotForced, IsActive
<1>6. SentOK'
  <2>1. \A k \in K : Other(k, p) \in Peers
    BY KeyFacts DEF IInv, NegotiationsOK, PairsOf
  <2>2. Msg("negotiate-abort", p, "ws-reset") \in Message
    BY MsgType DEF MsgTypes, Args
  <2> QED
    BY <2>1, <2>2, PushType DEF WsClose
<1> QED
  BY <1>1, <1>2, <1>3, <1>4, <1>5, <1>6 DEF IInv


(***************************************************************************)
(* The messages of a probe.                                                *)
(***************************************************************************)
LEMMA AbortAndFinishStep ==
    ASSUME IInv, NEW k, Push(Abort({k}, "timeout")), Finish(k),
           UNCHANGED <<sockets, connected, peers, relayEnabled, links, pairHealthMap>>
    PROVE  IInv'
<1>1. SentOK'
  BY AbortType, PushType DEF Args, IInv
<1> QED
  BY <1>1, FinishStep

\* handleProbeRelayReady keeps the invariant.
LEMMA ProbeRelayReadyStep ==
    ASSUME IInv, NEW from \in Peers, NEW p \in Peers \ {from}, ProbeRelayReady(from, p)
    PROVE  IInv'
<1> DEFINE k == PairKey(from, p)
<1>1. CASE /\ Push({<<p, Msg("probe-relay-check", from, "")>>})
           /\ UNCHANGED <<sockets, connected, peers, relayEnabled, links,
                          pairHealthMap, activeNegotiations, timers>>
  <2>1. Msg("probe-relay-check", from, "") \in Message
    BY MsgType DEF MsgTypes, Args
  <2>2. <<p, Msg("probe-relay-check", from, "")>> \in Peers \X Message
    BY <2>1
  <2>3. SentOK'
    BY <1>1, <2>2, PushType
  <2> QED
    BY <1>1, <2>3, UnchangedKeeps
<1>2. CASE /\ Push(Abort({k}, "timeout")) /\ Finish(k)
           /\ UNCHANGED <<sockets, connected, peers, relayEnabled, links, pairHealthMap>>
  BY <1>2, AbortAndFinishStep
<1>3. CASE Ignored
  BY <1>3, IgnoredStep
<1> QED
  BY <1>1, <1>2, <1>3 DEF ProbeRelayReady

\* Resetting the streaks of a health record leaves one.
LEMMA ResetStreaksType ==
    \A h \in PairHealth : /\ ResetStreaks(h) \in PairHealth
                          /\ ResetStreaks(h).forcedMode = h.forcedMode
BY BoundsAssumption DEF ResetStreaks, PairHealth

\* handleProbeRelayResult keeps the invariant.
LEMMA ProbeRelayResultStep ==
    ASSUME IInv, NEW from \in Peers, NEW p \in Peers \ {from}, NEW success \in BOOLEAN,
           ProbeRelayResult(from, p, success)
    PROVE  IInv'
<1> DEFINE k == PairKey(from, p)
<1>1. CASE IsActive(k, "relay-probe") /\ activeNegotiations[k].serverNode = p
  <2>1. /\ Push(ToBoth(k, "probe-verdict", IF success THEN "switch-relay" ELSE "stay"))
        /\ Finish(k)
        /\ pairHealthMap' = [h \in DOMAIN pairHealthMap |->
              IF h = k THEN ResetStreaks(pairHealthMap[h]) ELSE pairHealthMap[h]]
        /\ UNCHANGED <<sockets, connected, peers, relayEnabled, links>>
    BY <1>1 DEF ProbeRelayResult, Ignored
  <2>2. SentOK'
    <3>1. (IF success THEN "switch-relay" ELSE "stay") \in Args
      BY DEF Args
    <3>2. ToBoth(k, "probe-verdict", IF success THEN "switch-relay" ELSE "stay")
             \subseteq Peers \X Message
      BY <3>1, PairKeyFacts, ToBothType DEF MsgTypes
    <3> QED
      BY <2>1, <3>2, PushType
  <2>3. RegistryOK' /\ TablesOK'
    BY <2>1 DEF IInv, RegistryOK, TablesOK
  <2>5. /\ HealthOK' /\ DOMAIN pairHealthMap' = DOMAIN pairHealthMap
        /\ \A h \in DOMAIN pairHealthMap : 
              pairHealthMap'[h].forcedMode = pairHealthMap[h].forcedMode
    BY <2>1, ResetStreaksType DEF IInv, HealthOK
  <2>6. /\ NegotiationsOK' /\ TimerOwnership'
        /\ DOMAIN activeNegotiations' = DOMAIN activeNegotiations \ {k}
        /\ \A h \in DOMAIN activeNegotiations' :
              activeNegotiations'[h] = activeNegotiations[h]
    BY <2>1, EndTypes DEF Finish
  <2>7. ActivePeersConnected' /\ ActiveHasHealth'
    BY <2>1, <2>5, <2>6 DEF IInv, ActivePeersConnected, ActiveHasHealth
  <2>8. RelayProbeNotForced'
    BY <2>5, <2>6 DEF IInv, RelayProbeNotForced, IsActive, ActiveHasHealth
  <2> QED
    BY <2>2, <2>3, <2>5, <2>6, <2>7, <2>8 DEF IInv
<1>2. CASE Ignored
  BY <1>2, IgnoredStep
<1> QED
  BY <1>1, <1>2 DEF ProbeRelayResult

\* One field of a direct probe changes, and nothing else but what is sent.
LEMMA UpdateStep ==
    ASSUME IInv, NEW k \in DOMAIN activeNegotiations, NEW neg \in DirectProbes,
           IsActive(k, "direct-probe"), neg.timer = activeNegotiations[k].timer,
           activeNegotiations' = [activeNegotiations EXCEPT ![k] = neg], Silent,
           UNCHANGED <<sockets, connected, peers, relayEnabled, links,
                       pairHealthMap, timers>>
    PROVE  IInv'
<1>1. /\ NegotiationsOK' /\ DOMAIN activeNegotiations' = DOMAIN activeNegotiations
      /\ \A h \in DOMAIN activeNegotiations :
            activeNegotiations'[h].timer = activeNegotiations[h].timer
      /\ \A h \in Keys : IsActive(h, "relay-probe")' => IsActive(h, "relay-probe")
  BY DEF IInv, NegotiationsOK, Negotiations, IsActive, DirectProbes
<1>2. TimerOwnership'
  BY <1>1 DEF IInv, TimerOwnership, Handles
<1>3. RegistryOK' /\ TablesOK' /\ HealthOK' /\ SentOK'
  BY SilentType DEF IInv, RegistryOK, TablesOK, HealthOK
<1>4. ActivePeersConnected' /\ ActiveHasHealth' /\ RelayProbeNotForced'
  BY <1>1 DEF IInv, ActivePeersConnected, ActiveHasHealth, RelayProbeNotForced
<1> QED
  BY <1>1, <1>2, <1>3, <1>4 DEF IInv

\* A pair with an active direct probe has a negotiation of that kind.
LEMMA ActiveDirectProbe ==
    ASSUME IInv, NEW k, IsActive(k, "direct-probe")
    PROVE  k \in Keys /\ activeNegotiations[k] \in DirectProbes
BY DEF IInv, NegotiationsOK, Negotiations, RelayProbes, IsActive


\* handleProbeDirectReady keeps the invariant.
LEMMA ProbeDirectReadyStep ==
    ASSUME IInv, NEW from \in Peers, NEW p \in Peers \ {from}, ProbeDirectReady(from, p)
    PROVE  IInv'
<1> DEFINE k == PairKey(from, p)
           neg == [activeNegotiations[k] EXCEPT !.ready[Side(k, from)] = TRUE]
           both == \A s \in Sides : neg.ready[s]
<1>1. CASE Ignored
  BY <1>1, IgnoredStep
<1>2. CASE ~Ignored
  <2>1. IsActive(k, "direct-probe")
    BY <1>2 DEF ProbeDirectReady
  <2>2. k \in Keys /\ k \in DOMAIN activeNegotiations /\ activeNegotiations[k] \in DirectProbes
    BY <2>1, ActiveDirectProbe DEF IsActive
  <2>3. neg \in DirectProbes /\ neg.timer = activeNegotiations[k].timer
    BY <2>2, PairKeyFacts DEF DirectProbes
  <2>4. CASE /\ activeNegotiations' = [activeNegotiations EXCEPT ![k] = neg]
             /\ Silent
             /\ UNCHANGED <<sockets, connected, peers, relayEnabled, links,
                            pairHealthMap, timers>>
    <3> HIDE DEF k, neg
    <3> QED
      BY <2>1, <2>2, <2>3, <2>4, UpdateStep
  <2>5. CASE /\ Push(ToBoth(k, "probe-direct-go", ""))
             /\ Lifecycle({}, {k}, [h \in {k} |-> [neg EXCEPT !.timer = "result"]])
             /\ UNCHANGED <<sockets, connected, peers, relayEnabled, links, pairHealthMap>>
    <3> DEFINE begun == [h \in {k} |-> [neg EXCEPT !.timer = "result"]]
    <3>1. [neg EXCEPT !.timer = "result"] \in DirectProbes
      BY <2>3 DEF DirectProbes
    <3>2. /\ NegotiationsOK'
          /\ DOMAIN activeNegotiations' = (DOMAIN activeNegotiations \ {k}) \cup {k}
      <4>1. /\ DOMAIN begun \subseteq Keys
            /\ \A h \in DOMAIN begun : begun[h] \in Negotiations
        BY <2>2, <3>1 DEF Negotiations
      <4>2. NegotiationsOK /\ Lifecycle({}, {k}, begun)
        BY <2>5 DEF IInv
      <4> HIDE DEF begun
      <4>3. /\ NegotiationsOK'
            /\ DOMAIN activeNegotiations' =
                 (DOMAIN activeNegotiations \ {k}) \cup DOMAIN begun
        BY <4>1, <4>2, LifecycleTypes
      <4> QED
        BY <4>3 DEF begun
    <3>3. TimerOwnership'
      <4>1. TimerOwnership /\ Lifecycle({}, {k}, begun)
        BY <2>5 DEF IInv
      <4>2. DOMAIN begun \cap (DOMAIN activeNegotiations \ {k}) = {}
        OBVIOUS
      <4> HIDE DEF begun
      <4> QED
        BY <4>1, <4>2, LifecycleOwnership
    <3>4. \A h \in Keys : IsActive(h, "relay-probe")' => IsActive(h, "relay-probe")
      <4>1. activeNegotiations'[k] = [neg EXCEPT !.timer = "result"]
        BY <2>5 DEF Lifecycle
      <4>2. activeNegotiations'[k].type = "direct-probe"
        BY <4>1, <3>1 DEF DirectProbes
      <4>3. \A h \in DOMAIN activeNegotiations' \ {k} :
                activeNegotiations'[h] = activeNegotiations[h]
        BY <2>5 DEF Lifecycle
      <4> QED
        BY <2>2, <3>2, <4>2, <4>3 DEF IsActive
    <3>5. ActivePeersConnected' /\ ActiveHasHealth' /\ RelayProbeNotForced'
      BY <2>2, <2>5, <3>2, <3>4 DEF IInv, ActivePeersConnected, ActiveHasHealth,
                                    RelayProbeNotForced
    <3>6. SentOK'
      BY <2>2, <2>5, ToBothType, PushType DEF MsgTypes, Args
    <3>7. RegistryOK' /\ TablesOK' /\ HealthOK'
      BY <2>5 DEF IInv, RegistryOK, TablesOK, HealthOK
    <3> QED
      BY <3>2, <3>3, <3>5, <3>6, <3>7 DEF IInv
  <2>6. CASE /\ Push(Abort({k}, "timeout")) /\ Finish(k)
             /\ UNCHANGED <<sockets, connected, peers, relayEnabled, links, pairHealthMap>>
    BY <2>6, AbortAndFinishStep
  <2> QED
    BY <1>2, <2>4, <2>5, <2>6 DEF ProbeDirectReady
<1> QED
  BY <1>1, <1>2

\* handleProbeDirectResult keeps the invariant.
LEMMA ProbeDirectResultStep ==
    ASSUME IInv, NEW from \in Peers, NEW p \in Peers \ {from}, NEW success \in BOOLEAN,
           ProbeDirectResult(from, p, success)
    PROVE  IInv'
<1> DEFINE k == PairKey(from, p)
           neg == [activeNegotiations[k] EXCEPT
                      !.result[Side(k, from)] = IF success THEN "ok" ELSE "fail"]
           verdict == IF \A s \in Sides : neg.result[s] = "ok" THEN "switch-direct" ELSE "stay"
<1>1. CASE Ignored
  BY <1>1, IgnoredStep
<1>2. CASE ~Ignored
  <2>1. IsActive(k, "direct-probe")
    BY <1>2 DEF ProbeDirectResult
  <2>2. k \in Keys /\ k \in DOMAIN activeNegotiations /\ activeNegotiations[k] \in DirectProbes
    BY <2>1, ActiveDirectProbe DEF IsActive
  <2>3. neg \in DirectProbes /\ neg.timer = activeNegotiations[k].timer
    BY <2>2, PairKeyFacts DEF DirectProbes
  <2>4. CASE /\ activeNegotiations' = [activeNegotiations EXCEPT ![k] = neg]
             /\ Silent
             /\ UNCHANGED <<sockets, connected, peers, relayEnabled, links,
                            pairHealthMap, timers>>
    <3> HIDE DEF k, neg
    <3> QED
      BY <2>1, <2>2, <2>3, <2>4, UpdateStep
  <2>5. CASE /\ Push(ToBoth(k, "probe-verdict", verdict))
             /\ Finish(k)
             /\ UNCHANGED <<sockets, connected, peers, relayEnabled, links, pairHealthMap>>
    <3>1. verdict \in Args
      BY DEF Args
    <3> HIDE DEF k, verdict
    <3>2. ToBoth(k, "probe-verdict", verdict) \subseteq Peers \X Message
      BY <2>2, <3>1, ToBothType DEF MsgTypes
    <3>3. SentOK'
      BY <2>5, <3>2, PushType
    <3> QED
      BY <2>5, <3>3, FinishStep
  <2> QED
    BY <1>2, <2>4, <2>5 DEF ProbeDirectResult
<1> QED
  BY <1>1, <1>2

\* handleProbeError keeps the invariant.
LEMMA ProbeErrorStep ==
    ASSUME IInv, NEW from \in Peers, NEW p \in Peers \ {from}, ProbeError(from, p)
    PROVE  IInv'
BY AbortAndFinishStep, IgnoredStep DEF ProbeError


(***************************************************************************)
(* Timeouts and the sweep.                                                 *)
(***************************************************************************)

\* A timeout that runs belongs to the pair's negotiation.
LEMMA FiredIsOwned ==
    ASSUME IInv, NEW k, NEW kind, <<k, kind>> \in timers
    PROVE  {<<k, kind>>} \subseteq Handles({k}) /\ k \in Keys
BY DEF IInv, TimerOwnership, Handles, NegotiationsOK

\* Each of the three timeouts keeps the invariant.
LEMMA TimeoutStep ==
    ASSUME IInv, NEW k \in Keys, Timeout(k)
    PROVE  IInv'
<1>1. CASE RelayProbeTimeout(k)
  <2>1. SentOK'
    <3>1. Abort({k}, "timeout") \subseteq Peers \X Message
      BY AbortType DEF IInv, Args
    <3> QED
      BY <1>1, <3>1, PushType DEF RelayProbeTimeout
  <2>2. {<<k, "relay">>} \subseteq Handles({k})
    BY <1>1, FiredIsOwned DEF RelayProbeTimeout
  <2> QED
    BY <1>1, <2>1, <2>2, EndStep DEF RelayProbeTimeout
<1>2. ToBoth(k, "probe-verdict", "stay") \subseteq Peers \X Message
  BY ToBothType DEF MsgTypes, Args
<1>3. CASE DirectReadyTimeout(k)
  <2>1. SentOK'
    BY <1>2, <1>3, PushType DEF DirectReadyTimeout
  <2>2. {<<k, "ready">>} \subseteq Handles({k})
    BY <1>3, FiredIsOwned DEF DirectReadyTimeout
  <2> QED
    BY <1>3, <2>1, <2>2, EndStep DEF DirectReadyTimeout
<1>4. CASE DirectResultTimeout(k)
  <2>1. SentOK'
    BY <1>2, <1>4, PushType DEF DirectResultTimeout
  <2>2. {<<k, "result">>} \subseteq Handles({k})
    BY <1>4, FiredIsOwned DEF DirectResultTimeout
  <2> QED
    BY <1>4, <2>1, <2>2, EndStep DEF DirectResultTimeout
<1> QED
  BY <1>1, <1>3, <1>4 DEF Timeout

\* The sweep keeps the invariant, whatever it ends and begins.
LEMMA StaleSweepStep ==
    ASSUME IInv, NEW stale, NEW due \in SUBSET Keys, StaleSweep(stale, due)
    PROVE  IInv'
<1> DEFINE begun == [k \in due |-> NewDirectProbe]
<1>1. NewDirectProbe \in DirectProbes
  BY DEF NewDirectProbe, DirectProbes
<1>2. Lifecycle({}, stale, begun)
  BY DEF StaleSweep
<1>3. /\ DOMAIN begun = due
      /\ \A k \in due : begun[k] = NewDirectProbe
      /\ \A k \in DOMAIN begun : begun[k] \in Negotiations
      /\ DOMAIN begun \subseteq Keys
      /\ DOMAIN begun \cap (DOMAIN activeNegotiations \ stale) = {}
  BY <1>1 DEF StaleSweep, DirectProbeAllowed, Negotiations
<1> HIDE DEF begun
<1>4. /\ NegotiationsOK'
      /\ DOMAIN activeNegotiations' = (DOMAIN activeNegotiations \ stale) \cup due
  <2>1. NegotiationsOK
    BY DEF IInv
  <2>2. /\ NegotiationsOK'
        /\ DOMAIN activeNegotiations' = (DOMAIN activeNegotiations \ stale) \cup DOMAIN begun
    BY <1>2, <1>3, <2>1, LifecycleTypes, Zenon
  <2> QED
    BY <1>3, <2>2
<1>5. TimerOwnership'
  BY <1>2, <1>3, LifecycleOwnership DEF IInv
<1>6. ActivePeersConnected'
  <2>1. connected' = connected /\ \A k \in due : Members(k) \subseteq connected
    BY DEF StaleSweep, DirectProbeAllowed
  <2>2. \A k \in DOMAIN activeNegotiations : Members(k) \subseteq connected
    BY DEF IInv, ActivePeersConnected
  <2> QED
    BY <1>4, <2>1, <2>2 DEF ActivePeersConnected
<1>7. ActiveHasHealth'
  BY <1>4 DEF IInv, StaleSweep, DirectProbeAllowed, ActiveHasHealth
<1>8. \A k \in Keys : IsActive(k, "relay-probe")' => IsActive(k, "relay-probe")
  <2>1. \A k \in due : activeNegotiations'[k].type = "direct-probe"
    BY <1>2, <1>3 DEF Lifecycle, NewDirectProbe
  <2>2. \A k \in DOMAIN activeNegotiations' \ due :
            activeNegotiations'[k] = activeNegotiations[k]
    BY <1>2, <1>3 DEF Lifecycle
  <2> QED
    BY <1>4, <2>1, <2>2 DEF IsActive
<1>9. RelayProbeNotForced'
  BY <1>8 DEF IInv, StaleSweep, RelayProbeNotForced
<1>10. SentOK'
  <2>1. Abort(stale, "timeout") \subseteq Peers \X Message
    BY AbortType DEF IInv, Args
  <2>2. ToBothOf(due, "probe-direct-start", "") \subseteq Peers \X Message
    BY ToBothOfType DEF MsgTypes, Args
  <2> QED
    BY <2>1, <2>2, PushType DEF StaleSweep
<1>11. RegistryOK' /\ TablesOK' /\ HealthOK'
  BY DEF IInv, StaleSweep, RegistryOK, TablesOK, HealthOK
<1> QED
  BY <1>4, <1>5, <1>6, <1>7, <1>9, <1>10, <1>11 DEF IInv

(***************************************************************************)
(* The administrator, the reaper and the server process.                   *)
(***************************************************************************)

\* Deleting peers and the rows that name them keeps the tables well typed.
LEMMA DeleteKeeps ==
    ASSUME TablesOK, NEW gone, peers' = peers \ gone, links' = LinksWithout(gone),
           UNCHANGED relayEnabled
    PROVE  TablesOK'
BY DEF TablesOK, LinksWithout, Restrict

\* handleForceMode keeps the invariant.
LEMMA ForceModeStep ==
    ASSUME IInv, NEW k \in Keys, NEW mode \in {"force-direct", "force-relay", "auto"},
           ForceMode(k, mode)
    PROVE  IInv'
<1> DEFINE cached == IF mode = "auto" THEN "none" ELSE mode
<1>1. cached \in ForcedModes
  BY DEF ForcedModes
<1>2. /\ TablesOK' /\ RegistryOK'
  <2>1. links' = [r \in DOMAIN links |->
                   IF r \in Rows(k) THEN [links[r] EXCEPT !.forcedMode = cached] ELSE links[r]]
    BY DEF ForceMode
  <2> HIDE DEF cached
  <2>2. /\ DOMAIN links' = DOMAIN links
        /\ links' \in [DOMAIN links -> [mode : LinkModes, forcedMode : ForcedModes]]
    BY <1>1, <2>1 DEF IInv, TablesOK
  <2> QED
    BY <2>2 DEF IInv, TablesOK, RegistryOK, ForceMode
<1>3. HealthOf(k) \in PairHealth
  BY BoundsAssumption DEF HealthOf, NoHealth, PairHealth, IInv, HealthOK, ForcedModes, Sides
<1>4. /\ HealthOK'
      /\ DOMAIN pairHealthMap' = DOMAIN pairHealthMap \cup {k}
      /\ \A h \in DOMAIN pairHealthMap \ {k} : pairHealthMap'[h] = pairHealthMap[h]
  <2> HIDE DEF cached
  <2>1. [ResetStreaks(HealthOf(k)) EXCEPT !.forcedMode = cached] \in PairHealth
    <3>1. ResetStreaks(HealthOf(k)) \in PairHealth
      BY <1>3, ResetStreaksType
    <3> QED
      BY <1>1, <3>1 DEF PairHealth
  <2>2. pairHealthMap' = [h \in DOMAIN pairHealthMap \cup {k} |->
                            IF h = k THEN [ResetStreaks(HealthOf(k)) EXCEPT !.forcedMode = cached]
                            ELSE pairHealthMap[h]]
    BY DEF ForceMode, cached
  <2> QED
    BY <2>1, <2>2 DEF IInv, HealthOK
<1>5. /\ NegotiationsOK' /\ TimerOwnership'
      /\ DOMAIN activeNegotiations' = DOMAIN activeNegotiations \ {k}
      /\ \A h \in DOMAIN activeNegotiations' : activeNegotiations'[h] = activeNegotiations[h]
  BY EndTypes DEF ForceMode, Finish
<1>6. ActivePeersConnected' /\ ActiveHasHealth'
  BY <1>4, <1>5 DEF IInv, ForceMode, ActivePeersConnected, ActiveHasHealth
<1>7. RelayProbeNotForced'
  BY <1>4, <1>5 DEF IInv, RelayProbeNotForced, IsActive, ActiveHasHealth
<1>8. SentOK'
  <2>1. Abort({k}, "admin-force") \subseteq Peers \X Message
    BY AbortType DEF IInv, Args
  <2>2. ToBoth(k, "force-mode", mode) \subseteq Peers \X Message
    BY ToBothType DEF MsgTypes, Args
  <2> QED
    BY <2>1, <2>2, PushType DEF ForceMode
<1> QED
  BY <1>2, <1>4, <1>5, <1>6, <1>7, <1>8 DEF IInv


\* The reaper keeps the invariant: with the health goes the negotiation.
LEMMA ReapStep ==
    ASSUME IInv, NEW expired, NEW gone,
           NEW last \in [{k \in DOMAIN activeNegotiations : Members(k) \subseteq expired} -> peers],
           \A k \in DOMAIN last : last[k] \in Members(k), gone \subseteq peers,
           Reap(expired, last, gone)
    PROVE  IInv'
<1>1. TablesOK'
  BY DeleteKeeps DEF IInv, Reap
<1>2. RegistryOK'
  BY DEF IInv, RegistryOK, Reap
<1>3. /\ NegotiationsOK' /\ TimerOwnership'
      /\ DOMAIN activeNegotiations' = DOMAIN activeNegotiations \ PairsOf(expired)
      /\ \A k \in DOMAIN activeNegotiations' : activeNegotiations'[k] = activeNegotiations[k]
  BY EndTypes DEF Reap
<1>4. /\ HealthOK'
      /\ DOMAIN pairHealthMap' = {k \in DOMAIN pairHealthMap : Members(k) \cap expired = {}}
      /\ \A k \in DOMAIN pairHealthMap' : pairHealthMap'[k] = pairHealthMap[k]
  BY DEF IInv, HealthOK, Reap, HealthWithout, Restrict
<1>5. ActivePeersConnected' /\ ActiveHasHealth'
  BY <1>3, <1>4 DEF IInv, Reap, ActivePeersConnected, ActiveHasHealth, PairsOf
<1>6. RelayProbeNotForced'
  BY <1>3, <1>4, <1>5 DEF IInv, RelayProbeNotForced, IsActive, ActiveHasHealth
<1>7. SentOK'
  <2> DEFINE told(k) == Survivor(k, expired, last)
             aborts == {AbortedByReap(k, told(k)) : k \in PairsOf(expired)}
             removals == (peers \ gone) \X {Msg("peer-removed", q, "") : q \in gone}
  <2>1. ASSUME NEW k \in PairsOf(expired)
        PROVE  AbortedByReap(k, told(k)) \in Peers \X Message
    <3>1. k \in Keys /\ k \in DOMAIN activeNegotiations
      BY DEF IInv, NegotiationsOK, PairsOf
    <3>2. told(k) \in Members(k)
      <4>1. CASE Members(k) \subseteq expired
        BY <3>1, <4>1 DEF Survivor
      <4>2. CASE ~ Members(k) \subseteq expired
        BY <4>2 DEF Survivor
      <4> QED
        BY <4>1, <4>2
    <3> HIDE DEF told
    <3>3. told(k) \in Peers /\ Other(k, told(k)) \in Peers
      BY <3>1, <3>2, KeyFacts
    <3> QED
      BY <3>3, MsgType DEF MsgTypes, Args, AbortedByReap
  <2>2. \A q \in gone : Msg("peer-removed", q, "") \in Message
    BY MsgType DEF MsgTypes, Args, IInv, TablesOK
  <2>3. removals \subseteq Peers \X Message
    BY <2>2 DEF IInv, TablesOK
  <2>4. Push(aborts \cup removals)
    BY DEF Reap
  <2> HIDE DEF told, removals
  <2>5. aborts \subseteq Peers \X Message
    BY <2>1
  <2> HIDE DEF aborts
  <2> QED
    BY <2>3, <2>4, <2>5, PushType
<1> QED
  BY <1>1, <1>2, <1>3, <1>4, <1>5, <1>6, <1>7 DEF IInv

\* DELETE of a peer keeps the invariant.
LEMMA DeletePeerStep ==
    ASSUME IInv, NEW p \in Peers, DeletePeer(p)
    PROVE  IInv'
<1>1. TablesOK'
  BY DeleteKeeps DEF IInv, DeletePeer
<1>2. RegistryOK' /\ HealthOK' /\ NegotiationsOK' /\ TimerOwnership' /\ SentOK'
  BY SilentType DEF IInv, DeletePeer, RegistryOK, HealthOK, NegotiationsOK,
                    TimerOwnership, Handles
<1>3. ActivePeersConnected' /\ ActiveHasHealth' /\ RelayProbeNotForced'
  BY DEF IInv, DeletePeer, ActivePeersConnected, ActiveHasHealth, RelayProbeNotForced, IsActive
<1> QED
  BY <1>1, <1>2, <1>3 DEF IInv

\* Switching the relay of the network keeps the invariant.
LEMMA SetRelayEnabledStep ==
    ASSUME IInv, NEW enabled \in BOOLEAN, SetRelayEnabled(enabled)
    PROVE  IInv'
<1>1. /\ RegistryOK' /\ TablesOK' /\ HealthOK' /\ NegotiationsOK' /\ TimerOwnership' /\ SentOK'
  BY SilentType DEF IInv, SetRelayEnabled, RegistryOK, TablesOK, HealthOK, NegotiationsOK,
                    TimerOwnership, Handles
<1>2. ActivePeersConnected' /\ ActiveHasHealth' /\ RelayProbeNotForced'
  BY DEF IInv, SetRelayEnabled, ActivePeersConnected, ActiveHasHealth, RelayProbeNotForced,
         IsActive
<1> QED
  BY <1>1, <1>2 DEF IInv

\* A restart keeps the invariant: every Map is empty.
LEMMA ServerRestartStep ==
    ASSUME IInv, ServerRestart
    PROVE  IInv'
<1>1. timers \subseteq Handles(DOMAIN activeNegotiations)
  BY DEF IInv, TimerOwnership
<1>2. /\ NegotiationsOK' /\ TimerOwnership' /\ DOMAIN activeNegotiations' = {}
  BY <1>1, EndTypes DEF ServerRestart
<1>3. RegistryOK' /\ TablesOK' /\ HealthOK' /\ SentOK'
  BY SilentType, BoundsAssumption
     DEF IInv, ServerRestart, RegistryOK, TablesOK, HealthOK
<1>4. ActivePeersConnected' /\ ActiveHasHealth' /\ RelayProbeNotForced'
  BY <1>2 DEF ActivePeersConnected, ActiveHasHealth, RelayProbeNotForced, IsActive
<1> QED
  BY <1>2, <1>3, <1>4 DEF IInv


(***************************************************************************)
(* Health reports.                                                         *)
(***************************************************************************)

\* The transaction keeps the foreign keys, whether it commits or rolls back.
LEMMA UpsertedType ==
    ASSUME TablesOK, NEW from \in Peers, NEW about \in SUBSET (Peers \ {from}),
           NEW reports \in [about -> Statuses], UNCHANGED <<peers, relayEnabled>>,
           links' = Upserted(from, reports)
    PROVE  TablesOK'
<1> DEFINE rows == {<<from, p>> : p \in DOMAIN reports}
           row(r) == [mode |-> Mode(reports[r[2]]),
                      forcedMode |-> IF r \in DOMAIN links THEN links[r].forcedMode ELSE "none"]
<1>1. CASE {from} \cup DOMAIN reports \subseteq peers
  <2>1. links' = [r \in DOMAIN links \cup rows |-> IF r \in rows THEN row(r) ELSE links[r]]
    BY <1>1 DEF Upserted
  <2>2. rows \subseteq peers \X peers
    BY <1>1
  <2>3. \A r \in rows : row(r) \in [mode : LinkModes, forcedMode : ForcedModes]
    BY DEF TablesOK, Mode, LinkModes, ForcedModes
  <2> HIDE DEF rows, row
  <2>4. /\ DOMAIN links' = DOMAIN links \cup rows
        /\ \A r \in DOMAIN links' : links'[r] \in [mode : LinkModes, forcedMode : ForcedModes]
    BY <2>1, <2>3 DEF TablesOK
  <2>5. links' \in [DOMAIN links' -> [mode : LinkModes, forcedMode : ForcedModes]]
    BY <2>1, <2>4
  <2> QED
    BY <2>2, <2>4, <2>5 DEF TablesOK
<1>2. CASE ~({from} \cup DOMAIN reports \subseteq peers)
  BY <1>2 DEF Upserted, TablesOK
<1> QED
  BY <1>1, <1>2

\* The health of a pair, new or recorded, is well typed.
LEMMA HealthOfType ==
    ASSUME HealthOK, NEW k \in Keys
    PROVE  HealthOf(k) \in PairHealth
BY BoundsAssumption DEF HealthOf, NoHealth, PairHealth, HealthOK, ForcedModes, Sides

\* A report that the bound lets through keeps the streaks in their range, and
\* never touches the forced mode.
LEMMA AfterReportType ==
    ASSUME NEW h \in PairHealth, NEW s \in Sides, NEW status \in Statuses,
           NEW over \in BOOLEAN, status = "dead" => h.streak[s] < MaxStreak
    PROVE  /\ AfterReport(h, s, status, over) \in PairHealth
           /\ AfterReport(h, s, status, over).forcedMode = h.forcedMode
<1> DEFINE past == h.past[s] \/ over
           counted == past /\ status # "relay"
           streak == IF ~counted THEN h.streak[s]
                     ELSE IF status = "alive" THEN 0 ELSE h.streak[s] + 1
<1>1. h.streak[s] \in 0..MaxStreak /\ h.past[s] \in BOOLEAN
  BY DEF PairHealth
<1>2. streak \in 0..MaxStreak
  BY <1>1, BoundsAssumption DEF Statuses
<1>3. past \in BOOLEAN
  BY <1>1
<1>4. AfterReport(h, s, status, over) =
        [h EXCEPT !.past = [h.past EXCEPT ![s] = past],
                  !.streak = [h.streak EXCEPT ![s] = streak]]
  BY DEF AfterReport, PairHealth
<1>5. [h.past EXCEPT ![s] = past] \in [Sides -> BOOLEAN]
  BY <1>3 DEF PairHealth
<1>6. [h.streak EXCEPT ![s] = streak] \in [Sides -> 0..MaxStreak]
  BY <1>2 DEF PairHealth
<1> HIDE DEF past, streak
<1> QED
  BY <1>4, <1>5, <1>6 DEF PairHealth


\* handleHealthReport keeps the invariant.
LEMMA HealthReportStep ==
    ASSUME IInv, NEW from \in Peers, NEW about \in SUBSET (Peers \ {from}),
           NEW reports \in [about -> Statuses], NEW over \in SUBSET about,
           HealthReport(from, reports, over)
    PROVE  IInv' /\ DOMAIN activeNegotiations \subseteq DOMAIN activeNegotiations'
<1> DEFINE keys == {PairKey(from, p) : p \in DOMAIN reports}
           status(k) == reports[Other(k, from)]
           health == [k \in keys |->
                         AfterReport(HealthOf(k), Side(k, from), status(k), Other(k, from) \in over)]
           asked == {k \in keys : /\ BothDead(health[k], Side(k, from), status(k))
                                  /\ k \notin DOMAIN activeNegotiations}
           forced(row, k) == IF health[k].forcedMode # "none" THEN health[k].forcedMode ELSE row[k]
           begun(row) == {k \in asked : /\ forced(row, k) = "none"
                                        /\ Members(k) \subseteq connected
                                        /\ RelayAllowed(from)}
           serve(k) == <<ServerNode(k, health[k]),
                         Msg("probe-relay-serve", Other(k, ServerNode(k, health[k])), "")>>
<1>1. PICK row \in [asked -> ForcedModes] :
        /\ pairHealthMap' =
              [k \in DOMAIN pairHealthMap \cup keys |->
                  IF k \in asked THEN [health[k] EXCEPT !.forcedMode = forced(row, k)]
                  ELSE IF k \in keys THEN health[k] ELSE pairHealthMap[k]]
        /\ Lifecycle({}, {}, [k \in begun(row) |-> RelayProbe(k, health[k])])
        /\ Push({serve(k) : k \in begun(row)})
  BY DEF HealthReport
<1>2. /\ UNCHANGED <<sockets, connected, peers, relayEnabled>>
      /\ links' = Upserted(from, reports)
      /\ Countable(from, reports)
  BY DEF HealthReport
<1>3. ASSUME NEW k \in keys
      PROVE  /\ k \in Keys /\ Side(k, from) \in Sides /\ from \in Members(k)
             /\ Other(k, from) \in about /\ k = PairKey(from, Other(k, from))
  BY PairKeyFacts
<1>4. keys \subseteq Keys
  BY <1>3
<1>5. ASSUME NEW k \in keys
      PROVE  health[k] \in PairHealth /\ health[k].forcedMode = HealthOf(k).forcedMode
  <2>1. HealthOf(k) \in PairHealth
    BY <1>3, HealthOfType DEF IInv
  <2>2. status(k) \in Statuses
    BY <1>3
  <2>3. status(k) = "dead" => HealthOf(k).streak[Side(k, from)] < MaxStreak
    BY <1>2, <1>3 DEF Countable
  <2>4. (Other(k, from) \in over) \in BOOLEAN
    OBVIOUS
  <2>5. Side(k, from) \in Sides
    BY <1>3
  <2>6. health[k] = AfterReport(HealthOf(k), Side(k, from), status(k), Other(k, from) \in over)
    OBVIOUS
  <2> DEFINE found == Other(k, from) \in over
             h == HealthOf(k)
             s == Side(k, from)
  <2> HIDE DEF status, health, found, h, s
  <2>7. /\ AfterReport(h, s, status(k), found) \in PairHealth
        /\ AfterReport(h, s, status(k), found).forcedMode = h.forcedMode
    <3>1. found \in BOOLEAN /\ h \in PairHealth /\ s \in Sides
      BY <2>1, <2>4, <2>5 DEF found, h, s
    <3>2. status(k) = "dead" => h.streak[s] < MaxStreak
      BY <2>3 DEF h, s
    <3> QED
      BY <2>2, <3>1, <3>2, AfterReportType
  <2> QED
    BY <2>6, <2>7 DEF found, h, s
<1> HIDE DEF keys, status, health
<1>6. ASSUME NEW k \in asked
      PROVE  /\ k \in keys /\ k \notin DOMAIN activeNegotiations
             /\ forced(row, k) \in ForcedModes
  BY <1>5 DEF PairHealth
<1> HIDE DEF asked, forced
<1>7. /\ HealthOK'
      /\ DOMAIN pairHealthMap' = DOMAIN pairHealthMap \cup keys
      /\ \A k \in asked : pairHealthMap'[k].forcedMode = forced(row, k)
      /\ \A k \in DOMAIN pairHealthMap \ asked :
            pairHealthMap'[k].forcedMode = pairHealthMap[k].forcedMode
  <2>1. \A k \in asked : /\ [health[k] EXCEPT !.forcedMode = forced(row, k)] \in PairHealth
                         /\ [health[k] EXCEPT !.forcedMode = forced(row, k)].forcedMode
                               = forced(row, k)
    BY <1>5, <1>6 DEF PairHealth
  <2>2. DOMAIN pairHealthMap' = DOMAIN pairHealthMap \cup keys
    BY <1>1
  <2>3. \A k \in DOMAIN pairHealthMap' : pairHealthMap'[k] \in PairHealth
    BY <1>1, <1>5, <2>1 DEF IInv, HealthOK
  <2>4. \A k \in asked : pairHealthMap'[k].forcedMode = forced(row, k)
    BY <1>1, <1>6, <2>1
  <2>5. ASSUME NEW k \in DOMAIN pairHealthMap \ asked
        PROVE  pairHealthMap'[k].forcedMode = pairHealthMap[k].forcedMode
    BY <1>1, <1>5 DEF HealthOf
  <2>6. pairHealthMap' \in [DOMAIN pairHealthMap' -> PairHealth]
    BY <1>1, <2>2, <2>3
  <2> QED
    BY <1>4, <2>2, <2>4, <2>5, <2>6 DEF IInv, HealthOK
<1>8. ASSUME NEW k \in begun(row)
      PROVE  /\ k \in Keys /\ k \in keys /\ k \notin DOMAIN activeNegotiations
             /\ forced(row, k) = "none" /\ Members(k) \subseteq connected
             /\ RelayProbe(k, health[k]) \in RelayProbes
             /\ serve(k) \in Peers \X Message
  <2>1. k \in asked /\ k \in keys /\ k \in Keys
    BY <1>4, <1>6
  <2>2. /\ ServerNode(k, health[k]) \in Members(k)
        /\ ServerNode(k, health[k]) \in Peers
        /\ Other(k, ServerNode(k, health[k])) \in Peers
    BY <2>1, KeyFacts DEF ServerNode, Members
  <2>3. RelayProbe(k, health[k]) \in RelayProbes
    BY <2>2 DEF RelayProbe, RelayProbes
  <2>4. serve(k) \in Peers \X Message
    BY <2>2, MsgType DEF MsgTypes, Args
  <2> QED
    BY <1>6, <2>1, <2>3, <2>4
<1> DEFINE B == [k \in begun(row) |-> RelayProbe(k, health[k])]
<1>9. /\ DOMAIN B = begun(row) /\ DOMAIN B \subseteq Keys
      /\ \A k \in DOMAIN B : B[k] \in Negotiations
      /\ DOMAIN B \cap (DOMAIN activeNegotiations \ {}) = {}
  BY <1>8 DEF Negotiations
<1>10. Lifecycle({}, {}, B)
  BY <1>1
<1>11. SentOK'
  <2> DEFINE mail == {serve(k) : k \in begun(row)}
  <2>1. Push(mail)
    BY <1>1
  <2>2. mail \subseteq Peers \X Message
    BY <1>8
  <2> HIDE DEF mail
  <2> QED
    BY <2>1, <2>2, PushType
<1> HIDE DEF B
<1>12. NegotiationsOK' /\ DOMAIN activeNegotiations' = DOMAIN activeNegotiations \cup begun(row)
  <2>1. NegotiationsOK
    BY DEF IInv
  <2>2. /\ NegotiationsOK'
        /\ DOMAIN activeNegotiations' = (DOMAIN activeNegotiations \ {}) \cup DOMAIN B
    BY <1>9, <1>10, <2>1, LifecycleTypes
  <2> QED
    BY <1>9, <2>2
<1>13. TimerOwnership'
  <2>1. TimerOwnership /\ {} \subseteq Handles({})
    BY DEF IInv
  <2> QED
    BY <1>9, <1>10, <2>1, LifecycleOwnership
<1>14. ActivePeersConnected'
  BY <1>2, <1>8, <1>12 DEF IInv, ActivePeersConnected
<1>15. ActiveHasHealth'
  BY <1>7, <1>8, <1>12 DEF IInv, ActiveHasHealth
<1>16. RelayProbeNotForced'
  <2> SUFFICES ASSUME NEW k \in Keys, IsActive(k, "relay-probe")'
               PROVE  pairHealthMap'[k].forcedMode = "none"
    BY DEF RelayProbeNotForced
  <2>1. CASE k \in begun(row)
    BY <1>7, <1>8, <2>1
  <2>2. CASE k \notin begun(row)
    <3>1. k \in DOMAIN activeNegotiations
      BY <1>12, <2>2 DEF IsActive
    <3>2. activeNegotiations'[k] = activeNegotiations[k]
      BY <1>9, <1>10, <2>2, <3>1 DEF Lifecycle
    <3>3. IsActive(k, "relay-probe")
      BY <3>1, <3>2 DEF IsActive
    <3>4. k \in DOMAIN pairHealthMap \ asked
      BY <1>6, <3>1 DEF IInv, ActiveHasHealth
    <3> QED
      BY <1>7, <3>3, <3>4 DEF IInv, RelayProbeNotForced
  <2> QED
    BY <2>1, <2>2
<1>17. TablesOK'
  BY <1>2, UpsertedType DEF IInv
<1>18. RegistryOK'
  BY <1>2 DEF IInv, RegistryOK
<1> QED
  BY <1>7, <1>11, <1>12, <1>13, <1>14, <1>15, <1>16, <1>17, <1>18 DEF IInv


(***************************************************************************)
(* The inductive invariant and what follows from it.                       *)
(***************************************************************************)
LEMMA InitIInv == Init => IInv
<1> SUFFICES ASSUME Init PROVE IInv
  OBVIOUS
<1>1. RegistryOK /\ TablesOK /\ HealthOK /\ SentOK
  BY BoundsAssumption DEF Init, RegistryOK, TablesOK, HealthOK, SentOK
<1>2. DOMAIN activeNegotiations = {}
  BY DEF Init, NothingBegun
<1>3. NegotiationsOK /\ TimerOwnership
  BY <1>2 DEF Init, NothingBegun, NegotiationsOK, TimerOwnership, Handles
<1>4. ActivePeersConnected /\ ActiveHasHealth /\ RelayProbeNotForced
  BY <1>2 DEF ActivePeersConnected, ActiveHasHealth, RelayProbeNotForced, IsActive
<1> QED
  BY <1>1, <1>3, <1>4 DEF IInv

\* Every step keeps the invariant.
LEMMA NextIInv == IInv /\ [Next]_vars => IInv'
<1> SUFFICES ASSUME IInv, [Next]_vars PROVE IInv'
  OBVIOUS
<1>1. CASE \E p \in Peers : WsOpen(p)
  BY <1>1, WsOpenStep
<1>2. CASE \E p \in Peers : WsClose(p)
  BY <1>2, WsCloseStep
<1>3. CASE \E from \in Peers : Report(from)
  BY <1>3, HealthReportStep DEF Report
<1>4. CASE \E from \in Peers : \E p \in Peers \ {from} : ProbeMessage(from, p)
  BY <1>4, ProbeRelayReadyStep, ProbeRelayResultStep, ProbeDirectReadyStep,
     ProbeDirectResultStep, ProbeErrorStep DEF ProbeMessage
<1>5. CASE \E k \in Keys : Timeout(k)
  BY <1>5, TimeoutStep
<1>6. CASE Sweep
  BY <1>6, StaleSweepStep DEF Sweep
<1>7. CASE \E k \in Keys, mode \in {"force-direct", "force-relay", "auto"} : ForceMode(k, mode)
  BY <1>7, ForceModeStep
<1>8. CASE Reaper
  <2>1. PICK expired \in SUBSET peers :
          \E gone \in {expired, {}},
             last \in [{k \in DOMAIN activeNegotiations : Members(k) \subseteq expired} -> peers] :
              /\ \A k \in DOMAIN last : last[k] \in Members(k)
              /\ Reap(expired, last, gone)
    BY <1>8 DEF Reaper
  <2>2. \A gone \in {expired, {}} : gone \subseteq peers
    OBVIOUS
  <2> QED
    BY <2>1, <2>2, ReapStep
<1>9. CASE \E p \in Peers : DeletePeer(p)
  BY <1>9, DeletePeerStep
<1>10. CASE \E enabled \in BOOLEAN : SetRelayEnabled(enabled)
  BY <1>10, SetRelayEnabledStep
<1>11. CASE ServerRestart
  BY <1>11, ServerRestartStep
<1>12. CASE UNCHANGED vars
  <2>1. SentOK'
    BY <1>12 DEF vars, IInv, SentOK
  <2> QED
    BY <1>12, <2>1, UnchangedKeeps DEF vars
<1> QED
  BY <1>1, <1>2, <1>3, <1>4, <1>5, <1>6, <1>7, <1>8, <1>9, <1>10, <1>11, <1>12 DEF Next

\* The inductive invariant holds in every reachable state of the negotiator.
THEOREM InductiveInvariant == Spec => []IInv
BY InitIInv, NextIInv, PTL DEF Spec

\* Every variable keeps its type, and every row of peer_links names two peers
\* that exist, whatever the order of reports, deletions and reaps.
THEOREM TypesHold == Spec => []TypeOK
BY InductiveInvariant, IInvTypes, PTL

\* The armed timeouts are always exactly those of the active negotiations: a
\* timeout never outlives its negotiation to end the pair's next one, and no
\* negotiation is left without the timeout that would end it.
THEOREM TimeoutsAreOwned == Spec => []TimerOwnership
<1>1. IInv => TimerOwnership
  BY DEF IInv
<1> QED
  BY <1>1, InductiveInvariant, PTL

\* Both peers of an active negotiation are always in the connection registry,
\* and the pair has its health record.
THEOREM NegotiatorsArePresent == Spec => [](ActivePeersConnected /\ ActiveHasHealth)
<1>1. IInv => ActivePeersConnected /\ ActiveHasHealth
  BY DEF IInv
<1> QED
  BY <1>1, InductiveInvariant, PTL

\* An active negotiation always has the health record of its pair, which the
\* verdicts reset and the aborts back off.
THEOREM ActivePairsHaveHealth == Spec => []ActiveHasHealth
<1>1. IInv => ActiveHasHealth
  BY DEF IInv
<1> QED
  BY <1>1, InductiveInvariant, PTL

\* No relay probe ever runs for a pair whose cached forced mode is set.
THEOREM ForcedPairsAreNotProbed == Spec => []RelayProbeNotForced
<1>1. IInv => RelayProbeNotForced
  BY DEF IInv
<1> QED
  BY <1>1, InductiveInvariant, PTL


(***************************************************************************)
(* Every end is announced.                                                 *)
(***************************************************************************)

\* Pushing a verdict or an abort to both peers of a pair, both connected, tells
\* both.
LEMMA BothTold ==
    ASSUME NEW k \in Keys, NEW t \in {"probe-verdict", "negotiate-abort"}, NEW a, NEW mail,
           Members(k) \subseteq connected, ToBoth(k, t, a) \subseteq mail, Push(mail)
    PROVE  Members(k) \subseteq ToldOfEnd(k)'
<1>1. k[1] # k[2] /\ Other(k, k[1]) = k[2] /\ Other(k, k[2]) = k[1]
  BY KeyFacts DEF Other
<1> DEFINE a1 == <<k[1], Msg(t, k[2], a)>>
           a2 == <<k[2], Msg(t, k[1], a)>>
<1>2. a1 \in sent' /\ a2 \in sent'
  BY DEF Push, ToBoth, Members
<1>3. TellsEnd(k, a1) /\ TellsEnd(k, a2) /\ a1[1] = k[1] /\ a2[1] = k[2]
  BY <1>1 DEF TellsEnd, Msg, Members
<1> HIDE DEF a1, a2
<1>4. k[1] \in ToldOfEnd(k)' /\ k[2] \in ToldOfEnd(k)'
  BY <1>2, <1>3 DEF ToldOfEnd, TellsEnd
<1> QED
  BY <1>4 DEF Members

\* The same of an abort of several pairs.
LEMMA AbortTells ==
    ASSUME IInv, NEW K, NEW reason, NEW mail, Abort(K, reason) \subseteq mail, Push(mail),
           NEW k \in K \cap DOMAIN activeNegotiations
    PROVE  Members(k) \subseteq ToldOfEnd(k)'
<1>1. k \in Keys /\ Members(k) \subseteq connected
  BY DEF IInv, NegotiationsOK, ActivePeersConnected
<1>2. ToBoth(k, "negotiate-abort", reason) \subseteq Abort(K, reason)
  BY DEF Abort, ToBothOf
<1> QED
  BY <1>1, <1>2, BothTold

\* A verdict pushed to both peers of a pair tells each that is connected.
LEMMA VerdictTells ==
    ASSUME IInv, NEW k \in DOMAIN activeNegotiations, NEW action,
           Push(ToBoth(k, "probe-verdict", action))
    PROVE  Members(k) \subseteq ToldOfEnd(k)'
<1>1. k \in Keys /\ Members(k) \subseteq connected
  BY DEF IInv, NegotiationsOK, ActivePeersConnected
<1> QED
  BY <1>1, BothTold

\* What Lifecycle ends is what it was told to end.
LEMMA LifecycleEnds ==
    ASSUME NEW fired, NEW ended, NEW begun, Lifecycle(fired, ended, begun)
    PROVE  DOMAIN activeNegotiations \ DOMAIN activeNegotiations' \subseteq ended
BY DEF Lifecycle


\* A step that leaves activeNegotiations alone ends nothing.
LEMMA NoEnd == UNCHANGED activeNegotiations => EndAnnounced
BY DEF EndAnnounced

\* A step that ends one negotiation by an abort announces the end.
LEMMA AbortOneAnnounced ==
    ASSUME IInv, NEW k, NEW fired, Push(Abort({k}, "timeout")),
           Lifecycle(fired, {k}, NothingBegun)
    PROVE  EndAnnounced
<1>1. DOMAIN activeNegotiations \ DOMAIN activeNegotiations' \subseteq {k}
  BY LifecycleEnds
<1>2. k \in DOMAIN activeNegotiations => Members(k) \subseteq ToldOfEnd(k)'
  BY AbortTells
<1> QED
  BY <1>1, <1>2 DEF EndAnnounced

\* A step that ends one negotiation by a verdict announces the end.
LEMMA VerdictAnnounced ==
    ASSUME IInv, NEW k, NEW fired, NEW action, Push(ToBoth(k, "probe-verdict", action)),
           Lifecycle(fired, {k}, NothingBegun)
    PROVE  EndAnnounced
<1>1. DOMAIN activeNegotiations \ DOMAIN activeNegotiations' \subseteq {k}
  BY LifecycleEnds
<1>2. k \in DOMAIN activeNegotiations => Members(k) \subseteq ToldOfEnd(k)'
  BY VerdictTells
<1> QED
  BY <1>1, <1>2 DEF EndAnnounced

\* Closing a socket announces the ends it causes.
LEMMA WsCloseAnnounced ==
    ASSUME IInv, NEW p \in Peers, WsClose(p)
    PROVE  EndAnnounced
<1> SUFFICES ASSUME NEW k \in DOMAIN activeNegotiations \ DOMAIN activeNegotiations'
             PROVE  Members(k) \cap connected' \subseteq ToldOfEnd(k)'
  BY DEF EndAnnounced
<1>1. k \in PairsOf({p})
  BY LifecycleEnds DEF WsClose
<1>2. k \in Keys /\ p \in Members(k) /\ Members(k) \subseteq connected
  BY <1>1 DEF PairsOf, IInv, NegotiationsOK, ActivePeersConnected
<1>3. /\ Other(k, p) \in Members(k) \ {p} /\ Members(k) = {p, Other(k, p)}
      /\ Other(k, Other(k, p)) = p
  BY <1>2, KeyFacts DEF Other, Members
<1> DEFINE abort == <<Other(k, p), Msg("negotiate-abort", p, "ws-reset")>>
<1>4. abort \in sent'
  BY <1>1, <1>2, <1>3 DEF WsClose, Push
<1>5. TellsEnd(k, abort) /\ abort[1] = Other(k, p)
  BY <1>3 DEF TellsEnd, Msg
<1> HIDE DEF abort
<1>6. Other(k, p) \in ToldOfEnd(k)'
  BY <1>4, <1>5 DEF ToldOfEnd, TellsEnd
<1>7. p \notin connected'
  BY DEF WsClose
<1> QED
  BY <1>3, <1>6, <1>7

\* The reaper announces the ends it causes.
LEMMA ReapAnnounced ==
    ASSUME IInv, NEW expired, NEW gone,
           NEW last \in [{k \in DOMAIN activeNegotiations : Members(k) \subseteq expired} -> peers],
           \A k \in DOMAIN last : last[k] \in Members(k),
           Reap(expired, last, gone)
    PROVE  EndAnnounced
<1> SUFFICES ASSUME NEW k \in DOMAIN activeNegotiations \ DOMAIN activeNegotiations'
             PROVE  k \notin DOMAIN pairHealthMap' /\ ToldOfEnd(k)' # {}
  BY DEF EndAnnounced
<1>1. k \in PairsOf(expired)
  BY LifecycleEnds DEF Reap
<1>2. k \notin DOMAIN pairHealthMap'
  BY <1>1 DEF Reap, HealthWithout, Restrict, PairsOf
<1> DEFINE q == Survivor(k, expired, last)
<1>3. q \in Members(k)
  <2>1. CASE Members(k) \subseteq expired
    BY <2>1 DEF Survivor
  <2>2. CASE ~ Members(k) \subseteq expired
    BY <2>2 DEF Survivor
  <2> QED
    BY <2>1, <2>2
<1>4. q \in connected
  BY <1>3 DEF IInv, ActivePeersConnected
<1>5. AbortedByReap(k, q) \in sent'
  BY <1>1, <1>4 DEF Reap, Push, AbortedByReap
<1> HIDE DEF q
<1>6. TellsEnd(k, AbortedByReap(k, q))
  BY <1>3 DEF TellsEnd, Msg, AbortedByReap
<1>7. AbortedByReap(k, q)[1] \in ToldOfEnd(k)'
  BY <1>5, <1>6 DEF ToldOfEnd, TellsEnd
<1> QED
  BY <1>2, <1>7

\* Every step announces the negotiations it ends.
LEMMA NextAnnounces == IInv /\ Next => EndAnnounced
<1> SUFFICES ASSUME IInv, Next PROVE EndAnnounced
  OBVIOUS
<1>1. ASSUME NEW p \in Peers, WsOpen(p) PROVE EndAnnounced
  BY <1>1, NoEnd DEF WsOpen
<1>2. ASSUME NEW from \in Peers, Report(from) PROVE EndAnnounced
  <2>1. DOMAIN activeNegotiations \subseteq DOMAIN activeNegotiations'
    BY <1>2, HealthReportStep DEF Report
  <2> QED
    BY <2>1 DEF EndAnnounced
<1>3. ASSUME Ignored PROVE EndAnnounced
  BY <1>3, NoEnd DEF Ignored
<1>4. ASSUME NEW from \in Peers, NEW p \in Peers, ProbeMessage(from, p) PROVE EndAnnounced
  <2> DEFINE k == PairKey(from, p)
  <2>1. CASE ProbeRelayReady(from, p)
    BY <2>1, <1>3, NoEnd, AbortOneAnnounced DEF ProbeRelayReady, Finish
  <2>2. ASSUME NEW success \in BOOLEAN, ProbeRelayResult(from, p, success)
        PROVE  EndAnnounced
    BY <2>2, <1>3, VerdictAnnounced DEF ProbeRelayResult, Finish
  <2>3. CASE ProbeDirectReady(from, p)
    <3> DEFINE neg == [activeNegotiations[k] EXCEPT !.ready[Side(k, from)] = TRUE]
               begun == [h \in {k} |-> [neg EXCEPT !.timer = "result"]]
    <3>1. CASE activeNegotiations' = [activeNegotiations EXCEPT ![k] = neg]
      BY <3>1 DEF EndAnnounced
    <3>2. CASE Lifecycle({}, {k}, begun)
      <4>1. DOMAIN activeNegotiations \subseteq DOMAIN activeNegotiations'
        BY <3>2 DEF Lifecycle
      <4> QED
        BY <4>1 DEF EndAnnounced
    <3>3. CASE Push(Abort({k}, "timeout")) /\ Finish(k)
      BY <3>3, AbortOneAnnounced DEF Finish
    <3> QED
      BY <2>3, <1>3, <3>1, <3>2, <3>3 DEF ProbeDirectReady
  <2>4. ASSUME NEW success \in BOOLEAN, ProbeDirectResult(from, p, success)
        PROVE  EndAnnounced
    <3> DEFINE neg == [activeNegotiations[k] EXCEPT
                          !.result[Side(k, from)] = IF success THEN "ok" ELSE "fail"]
               verdict == IF \A s \in Sides : neg.result[s] = "ok" THEN "switch-direct" ELSE "stay"
    <3>1. CASE activeNegotiations' = [activeNegotiations EXCEPT ![k] = neg]
      BY <3>1 DEF EndAnnounced
    <3>2. CASE Push(ToBoth(k, "probe-verdict", verdict)) /\ Finish(k)
      BY <3>2, VerdictAnnounced DEF Finish
    <3> QED
      BY <2>4, <1>3, <3>1, <3>2 DEF ProbeDirectResult
  <2>5. CASE ProbeError(from, p)
    BY <2>5, <1>3, AbortOneAnnounced DEF ProbeError, Finish
  <2> QED
    BY <1>4, <2>1, <2>2, <2>3, <2>4, <2>5 DEF ProbeMessage
<1>5. ASSUME NEW k \in Keys, Timeout(k) PROVE EndAnnounced
  BY <1>5, AbortOneAnnounced, VerdictAnnounced
     DEF Timeout, RelayProbeTimeout, DirectReadyTimeout, DirectResultTimeout
<1>6. ASSUME Sweep PROVE EndAnnounced
  <2>1. PICK stale \in SUBSET DOMAIN activeNegotiations, due \in SUBSET Keys :
          StaleSweep(stale, due)
    BY <1>6 DEF Sweep
  <2>2. ASSUME NEW k \in stale PROVE Members(k) \subseteq ToldOfEnd(k)'
    <3> DEFINE mail == Abort(stale, "timeout") \cup ToBothOf(due, "probe-direct-start", "")
    <3>1. Push(mail) /\ Abort(stale, "timeout") \subseteq mail
      BY <2>1 DEF StaleSweep
    <3>2. k \in stale \cap DOMAIN activeNegotiations
      BY <2>1
    <3> HIDE DEF mail
    <3> QED
      BY <3>1, <3>2, AbortTells
  <2>3. DOMAIN activeNegotiations \ DOMAIN activeNegotiations' \subseteq stale
    BY <2>1, LifecycleEnds DEF StaleSweep
  <2> QED
    BY <2>2, <2>3 DEF EndAnnounced
<1>7. ASSUME NEW k \in Keys, NEW mode, ForceMode(k, mode) PROVE EndAnnounced
  <2>1. k \in DOMAIN activeNegotiations => Members(k) \subseteq ToldOfEnd(k)'
    BY <1>7, AbortTells DEF ForceMode
  <2>2. DOMAIN activeNegotiations \ DOMAIN activeNegotiations' \subseteq {k}
    BY <1>7, LifecycleEnds DEF ForceMode, Finish
  <2> QED
    BY <2>1, <2>2 DEF EndAnnounced
<1>8. ASSUME Reaper PROVE EndAnnounced
  BY <1>8, ReapAnnounced DEF Reaper
<1>9. ASSUME NEW p \in Peers, DeletePeer(p) PROVE EndAnnounced
  BY <1>9, NoEnd DEF DeletePeer
<1>10. ASSUME NEW enabled \in BOOLEAN, SetRelayEnabled(enabled) PROVE EndAnnounced
  BY <1>10, NoEnd DEF SetRelayEnabled
<1>11. ASSUME ServerRestart PROVE EndAnnounced
  BY <1>11 DEF ServerRestart, EndAnnounced
<1> QED
  BY <1>1, <1>2, <1>4, <1>5, <1>6, <1>7, <1>8, <1>9, <1>10, <1>11, WsCloseAnnounced DEF Next

\* Every negotiation that ends is announced, in the step that ends it, to each
\* of its peers that is still connected, or to the one the reaper leaves.
THEOREM EndsAreAnnounced == Spec => EndIsAnnounced
<1>1. IInv /\ [Next]_vars => [EndAnnounced]_vars
  BY NextAnnounces
<1> QED
  BY <1>1, InductiveInvariant, PTL DEF Spec, EndIsAnnounced

-----------------------------------------------------------------------------
(* What is probed.                                                         *)

\* A negotiation is of one of two types, neither of which is "idle".
LEMMA TypeOfNegotiation ==
    ASSUME NEW n \in Negotiations
    PROVE  n.type \in {"relay-probe", "direct-probe"}
BY DEF Negotiations, RelayProbes, DirectProbes

\* The pairs probed are those with a negotiation.
LEMMA ProbedIsActive ==
    ASSUME IInv
    PROVE  /\ Failover!Probed = DOMAIN activeNegotiations
           /\ DOMAIN activeNegotiations \subseteq Keys
<1>1. /\ DOMAIN activeNegotiations \subseteq Keys
      /\ \A k \in DOMAIN activeNegotiations : activeNegotiations[k].type # "idle"
  BY TypeOfNegotiation DEF IInv, NegotiationsOK
<1> QED
  BY <1>1 DEF Failover!Probed, Failover!Keys, Keys, PhaseOf

\* So are those probed with a peer of P.
LEMMA ProbedWithIsPairsOf ==
    ASSUME IInv, NEW P
    PROVE  Failover!ProbedWith(P) = PairsOf(P)
BY ProbedIsActive DEF Failover!ProbedWith, Failover!Members, PairsOf, Members

\* Ending some negotiations and beginning others of one type moves the phases
\* of those pairs and of no other.
LEMMA LifecyclePhases ==
    ASSUME NEW fired, NEW ended, NEW begun, NEW probe,
           Lifecycle(fired, ended, begun),
           \A k \in DOMAIN begun : begun[k].type = probe
    PROVE  Failover!Phases(ended, DOMAIN begun, probe)
<1>1. ASSUME NEW k \in Keys
      PROVE  PhaseOf(k)' = IF k \in DOMAIN begun THEN probe
                           ELSE IF k \in ended THEN "idle" ELSE PhaseOf(k)
  BY DEF Lifecycle, PhaseOf
<1> QED
  BY <1>1 DEF Failover!Phases, Failover!Keys, Keys

-----------------------------------------------------------------------------
(* What is told.                                                           *)

\* Everybody of the pairs of K is told one outcome.
ToldOf(K, outcome) == UNION {Failover!Told(k, outcome) : k \in K}

\* The outcome that a verdict or an abort tells.
OutcomeOf(t, arg) == IF t = "negotiate-abort" THEN "abort" ELSE arg

\* Messages that are neither verdicts nor aborts tell no outcome.
LEMMA NothingTold ==
    ASSUME NEW mail, \A e \in mail : e[2].type \notin Verdicts, Push(mail)
    PROVE  OutcomesIn(sent)' = {}
BY DEF Push, OutcomesIn

\* Nor does a step that pushes nothing.
LEMMA SilentTold == Silent => OutcomesIn(sent)' = {}
BY DEF Silent, OutcomesIn

\* The messages that only move a probe along are neither.
LEMMA NoVerdict ==
    ASSUME NEW type \in {"probe-relay-serve", "probe-relay-check", "probe-direct-start",
                         "probe-direct-go", "force-mode", "peer-removed"}
    PROVE  /\ \A with, arg : Msg(type, with, arg).type \notin Verdicts
           /\ \A k, arg : \A e \in ToBoth(k, type, arg) : e[2].type \notin Verdicts
<1>1. \A with, arg : Msg(type, with, arg).type = type
  BY DEF Msg
<1>2. type \notin Verdicts
  BY DEF Verdicts
<1> QED
  BY <1>1, <1>2 DEF ToBoth

\* Each message of a pair's verdict or abort tells the outcome of that pair.
LEMMA ToBothTells ==
    ASSUME NEW k \in Keys, NEW t \in Verdicts, NEW a, NEW e \in ToBoth(k, t, a)
    PROVE  /\ e[1] \in Members(k) /\ e[2].type = t
           /\ PairKey(e[1], e[2].with) = k
           /\ Outcome(e[2]) = OutcomeOf(t, a)
<1>1. k \in Peers \X Peers /\ k[1] < k[2]
  BY DEF Keys
<1>2. \A p \in Peers : p \in Int
  BY PeersAssumption
<1>3. ~(k[2] < k[1]) /\ k = <<k[1], k[2]>>
  BY <1>1, <1>2
<1> QED
  BY <1>1, <1>2, <1>3 DEF ToBoth, Msg, Members, PairKey, Outcome, OutcomeOf

\* And every peer of the pair has one of them.
LEMMA ToBothCovers ==
    ASSUME NEW k \in Keys, NEW t, NEW a, NEW p \in Members(k)
    PROVE  \E e \in ToBoth(k, t, a) : e[1] = p
BY DEF ToBoth, Msg, Members

\* A verdict or an abort for every pair of K, all of whose peers are connected,
\* among messages that are neither, tells those peers that outcome and no more.
LEMMA PairsTold ==
    ASSUME NEW K \in SUBSET Keys, NEW t \in Verdicts, NEW a, NEW mail,
           \A k \in K : Members(k) \subseteq connected,
           ToBothOf(K, t, a) \subseteq mail,
           \A e \in mail \ ToBothOf(K, t, a) : e[2].type \notin Verdicts,
           Push(mail)
    PROVE  OutcomesIn(sent)' = ToldOf(K, OutcomeOf(t, a))
<1> DEFINE o == OutcomeOf(t, a)
           tells(e) == <<e[1], PairKey(e[1], e[2].with), Outcome(e[2])>>
           told == ToldOf(K, o)
<1>1. {e \in sent' : e[2].type \in Verdicts} = ToBothOf(K, t, a)
  <2>1. ASSUME NEW e \in ToBothOf(K, t, a)
        PROVE  e[1] \in connected /\ e[2].type \in Verdicts
    BY ToBothTells DEF ToBothOf
  <2> QED
    BY <2>1 DEF Push
<1>2. OutcomesIn(sent)' = {tells(e) : e \in ToBothOf(K, t, a)}
  BY <1>1 DEF OutcomesIn
<1>3. ASSUME NEW e \in ToBothOf(K, t, a)
      PROVE  tells(e) \in told
  <2>1. PICK k \in K : e \in ToBoth(k, t, a)
    BY DEF ToBothOf
  <2>2. tells(e) = <<e[1], k, o>> /\ e[1] \in Members(k)
    BY <2>1, ToBothTells
  <2> QED
    BY <2>2 DEF ToldOf, Failover!Told, Failover!Members, Members
<1>4. ASSUME NEW x \in told
      PROVE  \E e \in ToBothOf(K, t, a) : x = tells(e)
  <2>1. PICK k \in K : x \in Failover!Told(k, o)
    BY DEF ToldOf
  <2>2. PICK p \in Members(k) : x = <<p, k, o>>
    BY <2>1 DEF Failover!Told, Failover!Members, Members
  <2>3. PICK e \in ToBoth(k, t, a) : e[1] = p
    BY ToBothCovers
  <2>4. tells(e) = <<p, k, o>> /\ e \in ToBothOf(K, t, a)
    BY <2>3, ToBothTells DEF ToBothOf
  <2> QED
    BY <2>2, <2>4
<1>5. {tells(e) : e \in ToBothOf(K, t, a)} = told
  <2> HIDE DEF tells, told
  <2> QED
    BY <1>3, <1>4
<1> QED
  BY <1>2, <1>5

\* The same for one pair that has a negotiation: a verdict, or an abort.
LEMMA PairTold ==
    ASSUME IInv, NEW k \in DOMAIN activeNegotiations, NEW t \in Verdicts, NEW a,
           Push(ToBoth(k, t, a))
    PROVE  OutcomesIn(sent)' = Failover!Told(k, OutcomeOf(t, a))
<1>1. {k} \in SUBSET Keys /\ \A h \in {k} : Members(h) \subseteq connected
  BY DEF IInv, NegotiationsOK, ActivePeersConnected
<1>2. ToBothOf({k}, t, a) = ToBoth(k, t, a)
  BY DEF ToBothOf
<1>3. Push(ToBothOf({k}, t, a))
  BY <1>2
<1>4. OutcomesIn(sent)' = ToldOf({k}, OutcomeOf(t, a))
  BY <1>1, <1>3, PairsTold
<1> QED
  BY <1>4 DEF ToldOf

\* An abort tells the pairs that had a negotiation.
LEMMA AbortTold ==
    ASSUME IInv, NEW K, NEW reason, NEW mail, Abort(K, reason) \subseteq mail,
           \A e \in mail \ Abort(K, reason) : e[2].type \notin Verdicts,
           Push(mail)
    PROVE  OutcomesIn(sent)' = ToldOf(K \cap DOMAIN activeNegotiations, "abort")
<1>1. /\ K \cap DOMAIN activeNegotiations \in SUBSET Keys
      /\ \A k \in K \cap DOMAIN activeNegotiations : Members(k) \subseteq connected
  BY DEF IInv, NegotiationsOK, ActivePeersConnected
<1>2. "negotiate-abort" \in Verdicts /\ OutcomeOf("negotiate-abort", reason) = "abort"
  BY DEF Verdicts, OutcomeOf
<1> QED
  BY <1>1, <1>2, PairsTold DEF Abort

-----------------------------------------------------------------------------
(* Two steps that many handlers are.                                       *)

\* A step that concerns no pair begins no probe.
LEMMA Unconcerned ==
    ASSUME UNCHANGED connected, OutcomesIn(sent)' = {},
           \A k \in Keys : PhaseOf(k)' = PhaseOf(k)
    PROVE  Failover!Next
<1>1. Failover!BeginRelayProbes({})
  BY DEF Failover!BeginRelayProbes, Failover!Phases, Failover!Keys, Keys
<1> QED
  BY <1>1 DEF Failover!Next

\* A step that leaves negotiations, registry and mail to agents alone.
LEMMA UnchangedUnconcerned ==
    ASSUME OutcomesIn(sent)' = {}, UNCHANGED <<connected, activeNegotiations>>
    PROVE  Failover!Next
BY Unconcerned DEF PhaseOf

\* A message that fits no negotiation concerns no pair.
LEMMA IgnoredUnconcerned == Ignored => Failover!Next
BY UnchangedUnconcerned, SilentTold DEF Ignored

\* A step that ends one negotiation and tells its peers one outcome.
LEMMA Concluded ==
    ASSUME IInv, NEW k \in DOMAIN activeNegotiations, NEW fired, NEW outcome,
           Lifecycle(fired, {k}, NothingBegun), UNCHANGED connected,
           OutcomesIn(sent)' = Failover!Told(k, outcome),
           outcome \in Failover!Outcomes(PhaseOf(k))
    PROVE  Failover!Next
<1>1. k \in Failover!Probed /\ k \in Keys
  BY ProbedIsActive
<1>2. DOMAIN NothingBegun = {}
  BY DEF NothingBegun
<1>3. Failover!Phases({k}, {}, "idle")
  BY <1>2, LifecyclePhases
<1>4. Failover!Conclude(k, outcome)
  BY <1>1, <1>3 DEF Failover!Conclude
<1> QED
  BY <1>1, <1>4 DEF Failover!Next, Failover!Conclude

\* An outcome that both kinds of probe may have.
LEMMA EitherMayEnd ==
    ASSUME IInv, NEW k \in DOMAIN activeNegotiations, NEW outcome \in {"stay", "abort"}
    PROVE  outcome \in Failover!Outcomes(PhaseOf(k))
<1>1. PhaseOf(k) \in {"relay-probe", "direct-probe"}
  BY TypeOfNegotiation DEF IInv, NegotiationsOK, PhaseOf
<1> QED
  BY <1>1 DEF Failover!Outcomes

\* A step that aborts one negotiation.
LEMMA Aborted ==
    ASSUME IInv, NEW k \in DOMAIN activeNegotiations, NEW fired, NEW reason, NEW mail,
           Abort({k}, reason) \subseteq mail,
           \A e \in mail \ Abort({k}, reason) : e[2].type \notin Verdicts,
           Push(mail), Lifecycle(fired, {k}, NothingBegun),
           UNCHANGED connected
    PROVE  Failover!Next
<1>1. {k} \cap DOMAIN activeNegotiations = {k}
  OBVIOUS
<1>2. OutcomesIn(sent)' = ToldOf({k}, "abort")
  BY <1>1, AbortTold
<1>3. ToldOf({k}, "abort") = Failover!Told(k, "abort")
  BY DEF ToldOf
<1> QED
  BY <1>2, <1>3, Concluded, EitherMayEnd

\* A step that ends one negotiation by a verdict.
LEMMA Judged ==
    ASSUME IInv, NEW k \in DOMAIN activeNegotiations, NEW fired, NEW verdict,
           Push(ToBoth(k, "probe-verdict", verdict)), Lifecycle(fired, {k}, NothingBegun),
           UNCHANGED connected, verdict \in Failover!Outcomes(PhaseOf(k))
    PROVE  Failover!Next
<1>1. /\ "probe-verdict" \in Verdicts
      /\ OutcomeOf("probe-verdict", verdict) = verdict
  BY DEF Verdicts, OutcomeOf
<1>2. OutcomesIn(sent)' = Failover!Told(k, verdict)
  BY <1>1, PairTold
<1> QED
  BY <1>2, Concluded
-----------------------------------------------------------------------------
(* The messages of a probe and the timeouts.                               *)

\* handleProbeRelayReady concerns no pair, or aborts the probe.
LEMMA RelayReadyMaps ==
    ASSUME IInv, NEW from \in Peers, NEW p \in Peers \ {from}, ProbeRelayReady(from, p)
    PROVE  Failover!Next
<1> DEFINE k == PairKey(from, p)
<1>1. CASE /\ Push({<<p, Msg("probe-relay-check", from, "")>>})
           /\ UNCHANGED <<connected, activeNegotiations>>
  <2> DEFINE m == Msg("probe-relay-check", from, "")
  <2>1. m.type \notin Verdicts
    BY NoVerdict
  <2>2. \A e \in {<<p, m>>} : e[2].type \notin Verdicts
    <3> HIDE DEF m
    <3>1. \A e \in {<<p, m>>} : e[2] = m
      OBVIOUS
    <3> QED
      BY <2>1, <3>1
  <2> QED
    BY <1>1, <2>2, NothingTold, UnchangedUnconcerned
<1>2. CASE /\ k \in DOMAIN activeNegotiations
           /\ Push(Abort({k}, "timeout")) /\ Finish(k) /\ UNCHANGED connected
  BY <1>2, Aborted DEF Finish
<1> QED
  BY <1>1, <1>2, IgnoredUnconcerned DEF ProbeRelayReady, IsActive

\* handleProbeRelayResult concludes the relay probe.
LEMMA RelayResultMaps ==
    ASSUME IInv, NEW from \in Peers, NEW p \in Peers \ {from}, NEW success \in BOOLEAN,
           ProbeRelayResult(from, p, success)
    PROVE  Failover!Next
<1> DEFINE k == PairKey(from, p)
           verdict == IF success THEN "switch-relay" ELSE "stay"
<1>1. CASE /\ IsActive(k, "relay-probe") /\ Push(ToBoth(k, "probe-verdict", verdict))
           /\ Finish(k) /\ UNCHANGED connected
  <2>1. PhaseOf(k) = "relay-probe" /\ k \in DOMAIN activeNegotiations
    BY <1>1 DEF IsActive, PhaseOf
  <2>2. verdict \in Failover!Outcomes(PhaseOf(k))
    BY <2>1 DEF Failover!Outcomes
  <2> QED
    BY <1>1, <2>1, <2>2, Judged DEF Finish
<1> QED
  BY <1>1, IgnoredUnconcerned DEF ProbeRelayResult

\* Replacing a pair's negotiation by one of the same type, in a step that tells
\* no outcome, concerns no pair.
LEMMA UpdateUnconcerned ==
    ASSUME NEW k \in DOMAIN activeNegotiations, NEW neg,
           neg.type = activeNegotiations[k].type, OutcomesIn(sent)' = {}, UNCHANGED connected,
           activeNegotiations' = [activeNegotiations EXCEPT ![k] = neg]
    PROVE  Failover!Next
<1>1. \A h \in Keys : PhaseOf(h)' = PhaseOf(h)
  BY DEF PhaseOf
<1> QED
  BY <1>1, Unconcerned

\* handleProbeDirectReady concerns no pair, or aborts the probe.
LEMMA DirectReadyMaps ==
    ASSUME IInv, NEW from \in Peers, NEW p \in Peers \ {from}, ProbeDirectReady(from, p)
    PROVE  Failover!Next
<1> DEFINE k == PairKey(from, p)
           neg == [activeNegotiations[k] EXCEPT !.ready[Side(k, from)] = TRUE]
           next == [neg EXCEPT !.timer = "result"]
           begun == [h \in {k} |-> next]
<1>1. CASE IsActive(k, "direct-probe")
  <2>1. k \in DOMAIN activeNegotiations /\ activeNegotiations[k] \in DirectProbes
    BY <1>1, ActiveDirectProbe DEF IsActive
  <2>2. /\ neg.type = activeNegotiations[k].type
        /\ next.type = activeNegotiations[k].type
    BY <2>1 DEF DirectProbes
  <2>3. CASE /\ activeNegotiations' = [activeNegotiations EXCEPT ![k] = neg]
             /\ Silent /\ UNCHANGED connected
    <3> HIDE DEF neg, k
    <3> QED
      BY <2>1, <2>2, <2>3, SilentTold, UpdateUnconcerned
  <2>4. CASE /\ Push(ToBoth(k, "probe-direct-go", "")) /\ UNCHANGED connected
             /\ Lifecycle({}, {k}, begun)
    <3>1. \A e \in ToBoth(k, "probe-direct-go", "") : e[2].type \notin Verdicts
      BY NoVerdict
    <3>2. OutcomesIn(sent)' = {}
      BY <2>4, <3>1, NothingTold
    <3>3. \A h \in Keys : PhaseOf(h)' = PhaseOf(h)
      <4> HIDE DEF next, k
      <4> QED
        BY <2>1, <2>2, <2>4 DEF Lifecycle, PhaseOf
    <3> QED
      BY <2>4, <3>2, <3>3, Unconcerned
  <2>5. CASE /\ Push(Abort({k}, "timeout")) /\ Finish(k) /\ UNCHANGED connected
    BY <2>1, <2>5, Aborted DEF Finish
  <2> QED
    BY <1>1, <2>3, <2>4, <2>5 DEF ProbeDirectReady, Ignored
<1>2. CASE ~IsActive(k, "direct-probe")
  BY <1>2, IgnoredUnconcerned DEF ProbeDirectReady
<1> QED
  BY <1>1, <1>2

\* handleProbeDirectResult concerns no pair, or concludes the direct probe.
LEMMA DirectResultMaps ==
    ASSUME IInv, NEW from \in Peers, NEW p \in Peers \ {from}, NEW success \in BOOLEAN,
           ProbeDirectResult(from, p, success)
    PROVE  Failover!Next
<1> DEFINE k == PairKey(from, p)
           neg == [activeNegotiations[k] EXCEPT
                      !.result[Side(k, from)] = IF success THEN "ok" ELSE "fail"]
           verdict == IF \A s \in Sides : neg.result[s] = "ok" THEN "switch-direct" ELSE "stay"
<1>1. CASE IsActive(k, "direct-probe")
  <2>1. k \in DOMAIN activeNegotiations /\ activeNegotiations[k] \in DirectProbes
    BY <1>1, ActiveDirectProbe DEF IsActive
  <2>2. neg.type = activeNegotiations[k].type /\ PhaseOf(k) = "direct-probe"
    BY <1>1, <2>1 DEF DirectProbes, IsActive, PhaseOf
  <2>3. verdict \in Failover!Outcomes(PhaseOf(k))
    BY <2>2 DEF Failover!Outcomes
  <2>4. CASE /\ activeNegotiations' = [activeNegotiations EXCEPT ![k] = neg]
             /\ Silent /\ UNCHANGED connected
    <3> HIDE DEF neg, k
    <3> QED
      BY <2>1, <2>2, <2>4, SilentTold, UpdateUnconcerned
  <2>5. CASE /\ Push(ToBoth(k, "probe-verdict", verdict)) /\ Finish(k) /\ UNCHANGED connected
    <3> HIDE DEF verdict, k
    <3> QED
      BY <2>1, <2>3, <2>5, Judged DEF Finish
  <2> QED
    BY <1>1, <2>4, <2>5 DEF ProbeDirectResult
<1>2. CASE ~IsActive(k, "direct-probe")
  BY <1>2, IgnoredUnconcerned DEF ProbeDirectResult
<1> QED
  BY <1>1, <1>2

\* handleProbeError aborts the probe, if there is one.
LEMMA ErrorMaps ==
    ASSUME IInv, NEW from \in Peers, NEW p \in Peers \ {from}, ProbeError(from, p)
    PROVE  Failover!Next
BY Aborted, IgnoredUnconcerned DEF ProbeError, Finish

\* A timeout that runs aborts its pair's probe or concludes it with "stay".
LEMMA TimeoutMaps ==
    ASSUME IInv, NEW k \in Keys, Timeout(k)
    PROVE  Failover!Next
<1>1. k \in DOMAIN activeNegotiations
  BY DEF IInv, TimerOwnership, Handles, Timeout, RelayProbeTimeout, DirectReadyTimeout,
         DirectResultTimeout
<1>2. CASE RelayProbeTimeout(k)
  BY <1>1, <1>2, Aborted DEF RelayProbeTimeout
<1>3. CASE DirectReadyTimeout(k) \/ DirectResultTimeout(k)
  <2>1. "stay" \in Failover!Outcomes(PhaseOf(k))
    BY <1>1, EitherMayEnd
  <2> QED
    BY <1>1, <1>3, <2>1, Judged DEF DirectReadyTimeout, DirectResultTimeout
<1> QED
  BY <1>2, <1>3 DEF Timeout
-----------------------------------------------------------------------------
(* The registry, the reports, the sweep, the administrator and the reaper. *)

\* A socket that opens is an arrival.
LEMMA OpenMaps ==
    ASSUME IInv, NEW p \in Peers, WsOpen(p)
    PROVE  Failover!Next
<1>1. OutcomesIn(sent)' = {}
  BY SilentTold DEF WsOpen
<1>2. Failover!Arrive(p)
  BY <1>1 DEF WsOpen, Failover!Arrive, PhaseOf
<1> QED
  BY <1>2 DEF Failover!Next

\* A socket that closes is a departure: the others of the peer's pairs are told.
LEMMA CloseMaps ==
    ASSUME IInv, NEW p \in Peers, WsClose(p)
    PROVE  Failover!Next
<1> DEFINE K == PairsOf({p})
           told == {t \in ToldOf(K, "abort") : t[1] # p}
           tells(e) == <<e[1], PairKey(e[1], e[2].with), Outcome(e[2])>>
           mail == {<<Other(k, p), Msg("negotiate-abort", p, "ws-reset")>> : k \in K}
<1>1. \A k \in K : k \in Keys /\ Members(k) \subseteq connected /\ p \in Members(k)
  BY DEF PairsOf, IInv, NegotiationsOK, ActivePeersConnected
<1>2. ASSUME NEW k \in K, NEW e, e = <<Other(k, p), Msg("negotiate-abort", p, "ws-reset")>>
      PROVE  /\ e[1] \in connected /\ e[2].type \in Verdicts
             /\ tells(e) = <<Other(k, p), k, "abort">>
  <2>1. /\ Other(k, p) \in Members(k) \ {p}
        /\ Other(k, p) \in connected
    BY <1>1, KeyFacts
  <2>2. PairKey(Other(k, p), p) = k
    <3>1. k \in Peers \X Peers /\ k[1] < k[2] /\ p \in {k[1], k[2]}
      BY <1>1 DEF Keys, Members
    <3>2. \A q \in Peers : q \in Int
      BY PeersAssumption
    <3>3. ~(k[2] < k[1]) /\ k = <<k[1], k[2]>> /\ k[1] # k[2]
      BY <3>1, <3>2
    <3> QED
      BY <3>1, <3>3 DEF Other, PairKey
  <2>3. Msg("negotiate-abort", p, "ws-reset").with = p
    BY DEF Msg
  <2>4. /\ Msg("negotiate-abort", p, "ws-reset").type = "negotiate-abort"
        /\ Outcome(Msg("negotiate-abort", p, "ws-reset")) = "abort"
    BY DEF Msg, Outcome
  <2> QED
    BY <1>2, <2>1, <2>2, <2>3, <2>4 DEF Verdicts
<1>3. {e \in sent' : e[2].type \in Verdicts} = mail
  <2>1. \A e \in mail : e[1] \in connected /\ e[2].type \in Verdicts
    BY <1>2
  <2>2. sent' = {e \in mail : e[1] \in connected}
    BY DEF WsClose, Push
  <2> QED
    BY <2>1, <2>2
<1>4. OutcomesIn(sent)' = {tells(e) : e \in mail}
  BY <1>3 DEF OutcomesIn
<1>5. {tells(e) : e \in mail} = told
  <2>1. ASSUME NEW e \in mail
        PROVE  tells(e) \in told
    <3>1. PICK k \in K : e = <<Other(k, p), Msg("negotiate-abort", p, "ws-reset")>>
      OBVIOUS
    <3>2. tells(e) = <<Other(k, p), k, "abort">>
      BY <1>2, <3>1
    <3>3. Other(k, p) \in Members(k) \ {p}
      BY <1>1, KeyFacts
    <3> QED
      BY <3>2, <3>3 DEF ToldOf, Failover!Told, Failover!Members, Members
  <2>2. ASSUME NEW t \in told
        PROVE  \E e \in mail : t = tells(e)
    <3>1. PICK k \in K : t \in Failover!Told(k, "abort")
      BY DEF ToldOf
    <3>2. PICK q \in Members(k) \ {p} : t = <<q, k, "abort">>
      BY <3>1 DEF Failover!Told, Failover!Members, Members
    <3>3. q = Other(k, p)
      BY <1>1, <3>2 DEF Members, Other
    <3> DEFINE e == <<Other(k, p), Msg("negotiate-abort", p, "ws-reset")>>
    <3>4. e \in mail
      OBVIOUS
    <3>5. tells(e) = <<Other(k, p), k, "abort">>
      BY <1>2
    <3> QED
      BY <3>2, <3>3, <3>4, <3>5
  <2> HIDE DEF tells, told, mail
  <2> QED
    BY <2>1, <2>2
<1>6. Failover!ProbedWith({p}) = K
  BY ProbedWithIsPairsOf
<1>7. Failover!Phases(K, {}, "idle")
  BY LifecyclePhases DEF WsClose, NothingBegun
<1>8. Failover!Depart(p)
  <2> HIDE DEF K
  <2> QED
    BY <1>4, <1>5, <1>6, <1>7 DEF WsClose, Failover!Depart, ToldOf
<1> QED
  BY <1>8 DEF Failover!Next
\* A report begins relay probes, or none.
LEMMA ReportMaps ==
    ASSUME IInv, NEW from \in Peers, NEW about \in SUBSET (Peers \ {from}),
           NEW reports \in [about -> Statuses], NEW over \in SUBSET about,
           HealthReport(from, reports, over)
    PROVE  Failover!Next
<1> DEFINE keys == {PairKey(from, p) : p \in DOMAIN reports}
           status(k) == reports[Other(k, from)]
           health == [k \in keys |->
                         AfterReport(HealthOf(k), Side(k, from), status(k), Other(k, from) \in over)]
           asked == {k \in keys : /\ BothDead(health[k], Side(k, from), status(k))
                                  /\ k \notin DOMAIN activeNegotiations}
           forced(row, k) == IF health[k].forcedMode # "none" THEN health[k].forcedMode ELSE row[k]
           begun(row) == {k \in asked : /\ forced(row, k) = "none"
                                        /\ Members(k) \subseteq connected
                                        /\ RelayAllowed(from)}
           serve(k) == <<ServerNode(k, health[k]),
                         Msg("probe-relay-serve", Other(k, ServerNode(k, health[k])), "")>>
<1>1. PICK row \in [asked -> ForcedModes] :
        /\ Lifecycle({}, {}, [k \in begun(row) |-> RelayProbe(k, health[k])])
        /\ Push({serve(k) : k \in begun(row)})
  BY DEF HealthReport
<1>2. UNCHANGED connected
  BY DEF HealthReport
<1> DEFINE B == begun(row)
           probes == [k \in B |-> RelayProbe(k, health[k])]
           mail == {serve(k) : k \in B}
<1>3. \A k \in B : k \in Keys /\ k \notin DOMAIN activeNegotiations /\ Members(k) \subseteq connected
  <2>1. \A k \in keys : k \in Keys
    BY PairKeyFacts
  <2> QED
    BY <2>1
<1>4. OutcomesIn(sent)' = {}
  <2>1. \A k \in B : serve(k)[2].type \notin Verdicts
    BY NoVerdict
  <2>2. Push(mail) /\ \A e \in mail : e[2].type \notin Verdicts
    BY <1>1, <2>1
  <2> HIDE DEF mail
  <2> QED
    BY <2>2, NothingTold
<1>5. Failover!Phases({}, B, "relay-probe")
  <2>1. Lifecycle({}, {}, probes) /\ DOMAIN probes = B
    BY <1>1
  <2>2. \A k \in DOMAIN probes : probes[k].type = "relay-probe"
    BY DEF RelayProbe
  <2> HIDE DEF probes, B
  <2> QED
    BY <2>1, <2>2, LifecyclePhases
<1> HIDE DEF B
<1>6. Failover!BeginRelayProbes(B) /\ B \in SUBSET Failover!Keys
  BY <1>2, <1>3, <1>4, <1>5, ProbedIsActive
     DEF Failover!BeginRelayProbes, Failover!Members, Members, Failover!Keys, Keys
<1> QED
  BY <1>6 DEF Failover!Next

\* The sweep aborts the stale probes and begins direct ones.
LEMMA SweepMaps ==
    ASSUME IInv, NEW stale \in SUBSET DOMAIN activeNegotiations, NEW due \in SUBSET Keys,
           StaleSweep(stale, due)
    PROVE  Failover!Next
<1> DEFINE probes == [k \in due |-> NewDirectProbe]
           starts == ToBothOf(due, "probe-direct-start", "")
           mail == Abort(stale, "timeout") \cup starts
<1>1. OutcomesIn(sent)' = ToldOf(stale, "abort")
  <2>1. \A e \in starts : e[2].type \notin Verdicts
    BY NoVerdict DEF ToBothOf
  <2>2. /\ Push(mail) /\ Abort(stale, "timeout") \subseteq mail
        /\ \A e \in mail \ Abort(stale, "timeout") : e[2].type \notin Verdicts
    BY <2>1 DEF StaleSweep
  <2>3. stale \cap DOMAIN activeNegotiations = stale
    OBVIOUS
  <2> HIDE DEF mail
  <2> QED
    BY <2>2, <2>3, AbortTold
<1>2. Failover!Phases(stale, due, "direct-probe")
  <2>1. Lifecycle({}, stale, probes) /\ DOMAIN probes = due
    BY DEF StaleSweep
  <2>2. \A k \in DOMAIN probes : probes[k].type = "direct-probe"
    BY DEF NewDirectProbe
  <2> HIDE DEF probes
  <2> QED
    BY <2>1, <2>2, LifecyclePhases
<1>3. \A k \in due : k \notin DOMAIN activeNegotiations \ stale /\ Members(k) \subseteq connected
  BY DEF StaleSweep, DirectProbeAllowed
<1>4. Failover!Sweep(stale, due)
  BY <1>1, <1>2, <1>3, ProbedIsActive
     DEF StaleSweep, Failover!Sweep, Failover!Members, Members, ToldOf
<1>5. stale \in SUBSET Failover!Probed /\ due \in SUBSET Failover!Keys
  BY ProbedIsActive DEF Failover!Keys, Keys
<1> QED
  BY <1>4, <1>5 DEF Failover!Next

\* Forcing a pair aborts its probe, if there is one.
LEMMA ForceModeMaps ==
    ASSUME IInv, NEW k \in Keys, NEW mode \in {"force-direct", "force-relay", "auto"},
           ForceMode(k, mode)
    PROVE  Failover!Next
<1> DEFINE mail == Abort({k}, "admin-force") \cup ToBoth(k, "force-mode", mode)
<1>1. /\ Push(mail) /\ Finish(k) /\ UNCHANGED connected
      /\ Abort({k}, "admin-force") \subseteq mail
      /\ \A e \in mail \ Abort({k}, "admin-force") : e[2].type \notin Verdicts
  BY NoVerdict DEF ForceMode
<1>2. CASE k \in DOMAIN activeNegotiations
  <2> HIDE DEF mail
  <2> QED
    BY <1>1, <1>2, Aborted DEF Finish
<1>3. CASE k \notin DOMAIN activeNegotiations
  <2>1. Abort({k}, "admin-force") = {}
    BY <1>3 DEF Abort, ToBothOf
  <2>2. OutcomesIn(sent)' = {}
    <3>1. Push(mail) /\ \A e \in mail : e[2].type \notin Verdicts
      BY <1>1, <2>1
    <3> HIDE DEF mail
    <3> QED
      BY <3>1, NothingTold
  <2>3. \A h \in Keys : PhaseOf(h)' = PhaseOf(h)
    BY <1>1, <1>3 DEF Finish, Lifecycle, NothingBegun, PhaseOf
  <2> QED
    BY <1>1, <2>2, <2>3, Unconcerned
<1> QED
  BY <1>2, <1>3

\* The peer of a pair that a reap tells: the one that stays, if there is one.
LEMMA SurvivorFacts ==
    ASSUME NEW k \in Keys, NEW expired, NEW last,
           Members(k) \subseteq expired => last[k] \in Members(k)
    PROVE  /\ Survivor(k, expired, last) \in Members(k)
           /\ Survivor(k, expired, last) \in expired => Members(k) \subseteq expired
           /\ PairKey(Survivor(k, expired, last), Other(k, Survivor(k, expired, last))) = k
<1> DEFINE p == Survivor(k, expired, last)
<1>1. p \in Members(k) /\ (p \in expired => Members(k) \subseteq expired)
  BY DEF Survivor
<1> HIDE DEF p
<1>2. PairKey(p, Other(k, p)) = k
  <2>1. k \in Peers \X Peers /\ k[1] < k[2] /\ p \in {k[1], k[2]}
    BY <1>1 DEF Keys, Members
  <2>2. \A q \in Peers : q \in Int
    BY PeersAssumption
  <2>3. ~(k[2] < k[1]) /\ k = <<k[1], k[2]>> /\ k[1] # k[2]
    BY <2>1, <2>2
  <2> QED
    BY <2>1, <2>3 DEF Other, PairKey
<1> QED
  BY <1>1, <1>2 DEF p

\* A reap removes the expired peers' probes and tells their survivors.
LEMMA ReapMaps ==
    ASSUME IInv, NEW expired \in SUBSET peers, NEW gone,
           NEW last \in [{k \in DOMAIN activeNegotiations : Members(k) \subseteq expired} -> peers],
           \A k \in DOMAIN last : last[k] \in Members(k), Reap(expired, last, gone)
    PROVE  Failover!Next
<1> DEFINE K == PairsOf(expired)
           surv(k) == Survivor(k, expired, last)
           survivor == [k \in K |-> surv(k)]
           abort(k) == AbortedByReap(k, surv(k))
           aborts == {abort(k) : k \in K}
           more == (peers \ gone) \X {Msg("peer-removed", q, "") : q \in gone}
           tells(e) == <<e[1], PairKey(e[1], e[2].with), Outcome(e[2])>>
           told == {<<survivor[k], k, "abort">> : k \in K}
<1>1. ASSUME NEW k \in K
      PROVE  /\ k \in Keys /\ Members(k) \subseteq connected
             /\ surv(k) \in Members(k) /\ surv(k) \in Peers
             /\ surv(k) \in expired => Members(k) \subseteq expired
             /\ PairKey(surv(k), Other(k, surv(k))) = k
  <2>1. k \in Keys /\ Members(k) \subseteq connected /\ k \in DOMAIN activeNegotiations
    BY DEF PairsOf, IInv, NegotiationsOK, ActivePeersConnected
  <2>2. Members(k) \subseteq expired => last[k] \in Members(k)
    BY <2>1
  <2> QED
    BY <2>1, <2>2, SurvivorFacts, KeyFacts
<1>2. ASSUME NEW k \in K
      PROVE  /\ abort(k)[1] \in connected /\ abort(k)[2].type \in Verdicts
             /\ tells(abort(k)) = <<survivor[k], k, "abort">>
  <2> DEFINE m == Msg("negotiate-abort", Other(k, surv(k)), "peer-removed")
  <2>1. m.type = "negotiate-abort" /\ m.with = Other(k, surv(k))
    BY DEF Msg
  <2>2. abort(k) = <<surv(k), m>>
    BY DEF AbortedByReap
  <2> HIDE DEF m, surv, abort
  <2>3. abort(k)[1] = surv(k) /\ abort(k)[2] = m
    BY <2>2
  <2>4. Outcome(m) = "abort"
    BY <2>1 DEF Outcome
  <2>5. PairKey(abort(k)[1], abort(k)[2].with) = k
    BY <1>1, <2>1, <2>3
  <2> QED
    BY <1>1, <2>1, <2>3, <2>4, <2>5 DEF Verdicts
<1>3. \A e \in more : e[2].type \notin Verdicts
  <2>1. \A q : Msg("peer-removed", q, "").type \notin Verdicts
    BY NoVerdict
  <2> QED
    BY <2>1
<1> HIDE DEF abort, more
<1>4. {e \in sent' : e[2].type \in Verdicts} = aborts
  <2>1. sent' = {e \in aborts \cup more : e[1] \in connected}
    BY DEF Reap, Push, abort, more
  <2> QED
    BY <1>2, <1>3, <2>1
<1>5. OutcomesIn(sent)' = {tells(e) : e \in aborts}
  BY <1>4 DEF OutcomesIn
<1>6. {tells(e) : e \in aborts} = told
  <2> HIDE DEF tells, survivor
  <2> QED
    BY <1>2
<1>7. Failover!ProbedWith(expired) = K
  BY ProbedWithIsPairsOf
<1>8. Failover!Phases(K, {}, "idle")
  <2>1. Lifecycle({}, K, NothingBegun)
    BY DEF Reap
  <2>2. DOMAIN NothingBegun = {}
    BY DEF NothingBegun
  <2> HIDE DEF K
  <2> QED
    BY <2>1, <2>2, LifecyclePhases
<1>9. Failover!Remove(expired, survivor)
  <2>1. \A k \in K : /\ survivor[k] \in Failover!Members(k)
                     /\ survivor[k] \in expired => Failover!Members(k) \subseteq expired
    BY <1>1 DEF Failover!Members, Members
  <2>2. UNCHANGED connected
    BY DEF Reap
  <2> HIDE DEF K, survivor
  <2> QED
    BY <1>5, <1>6, <1>7, <1>8, <2>1, <2>2 DEF Failover!Remove
<1>10. survivor \in [Failover!ProbedWith(expired) -> Peers]
  BY <1>1, <1>7
<1>11. expired \in SUBSET Peers
  BY DEF IInv, TablesOK
<1> QED
  BY <1>9, <1>10, <1>11 DEF Failover!Next

-----------------------------------------------------------------------------
(* The refinement.                                                         *)

\* Nothing is probed, present or told at first.
LEMMA InitMaps == Init => Failover!Init
BY DEF Init, NothingBegun, Failover!Init, Failover!Keys, Keys, PhaseOf, OutcomesIn

\* A restart forgets everything and tells nobody.
LEMMA RestartMaps == ServerRestart => Failover!Next
<1> SUFFICES ASSUME ServerRestart PROVE Failover!Next
  OBVIOUS
<1>1. \A k \in Keys : PhaseOf(k)' = "idle"
  BY DEF ServerRestart, Lifecycle, NothingBegun, PhaseOf
<1>2. Failover!Restart
  BY <1>1, SilentTold DEF ServerRestart, Failover!Restart, Failover!Keys, Keys
<1> QED
  BY <1>2 DEF Failover!Next

\* Every step of the server is a step of the abstract failover, or changes
\* nothing of it.
LEMMA NextMaps == IInv /\ [Next]_vars => [Failover!Next]_(Failover!vars)
<1> SUFFICES ASSUME IInv, [Next]_vars PROVE [Failover!Next]_(Failover!vars)
  OBVIOUS
<1>1. CASE \E p \in Peers : WsOpen(p) \/ WsClose(p)
  BY <1>1, OpenMaps, CloseMaps
<1>2. CASE \E from \in Peers : Report(from)
  BY <1>2, ReportMaps DEF Report
<1>3. CASE \E from \in Peers : \E p \in Peers \ {from} : ProbeMessage(from, p)
  BY <1>3, RelayReadyMaps, RelayResultMaps, DirectReadyMaps, DirectResultMaps, ErrorMaps
     DEF ProbeMessage
<1>4. CASE \E k \in Keys : Timeout(k)
  BY <1>4, TimeoutMaps
<1>5. CASE Sweep
  BY <1>5, SweepMaps DEF Sweep
<1>6. CASE \E k \in Keys, mode \in {"force-direct", "force-relay", "auto"} : ForceMode(k, mode)
  BY <1>6, ForceModeMaps
<1>7. CASE Reaper
  BY <1>7, ReapMaps DEF Reaper
<1>8. CASE \E p \in Peers : DeletePeer(p)
  BY <1>8, UnchangedUnconcerned, SilentTold DEF DeletePeer
<1>9. CASE \E enabled \in BOOLEAN : SetRelayEnabled(enabled)
  BY <1>9, UnchangedUnconcerned, SilentTold DEF SetRelayEnabled
<1>10. CASE ServerRestart
  BY <1>10, RestartMaps
<1>11. CASE UNCHANGED vars
  BY <1>11 DEF vars, Failover!vars, PhaseOf, OutcomesIn
<1> QED
  BY <1>1, <1>2, <1>3, <1>4, <1>5, <1>6, <1>7, <1>8, <1>9, <1>10, <1>11 DEF Next

\* The server's failover implements PairFailover.
THEOREM NegotiatorImplementsPairFailover == Spec => ImplementsPairFailover
BY InitMaps, NextMaps, InductiveInvariant, PTL DEF Spec, ImplementsPairFailover, Failover!Spec
=============================================================================
