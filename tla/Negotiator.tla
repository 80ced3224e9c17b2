----------------------------- MODULE Negotiator -----------------------------
(***************************************************************************)
(* The control plane's failover orchestrator: packages/server/src/         *)
(* negotiate.ts, with what its handlers read and what else changes it: the *)
(* connection registry of relay.ts, the rows of peers and peer_links, the  *)
(* reaper and the administrator's calls of api.ts.                         *)
(*                                                                         *)
(* The server is one JavaScript thread and no handler here awaits, so each *)
(* handler is one action.  Time is abstracted: a timer that is armed may   *)
(* fire at any moment, a grace period may be found over at any report, and *)
(* the sweep may find any negotiation stale and any backoff expired.       *)
(***************************************************************************)
EXTENDS Integers, FiniteSets, Functions

CONSTANTS
    Peers,            \* peer ids; their order is the string order of the uuids
    StreakThreshold,  \* consecutive dead reports of a side that ask for a probe
    MaxStreak,        \* bound: a side's streak is not counted beyond it
    MaxSockets        \* bound: sockets of one peer that are open at a time

ASSUME PeersAssumption == Peers \subseteq Nat /\ IsFiniteSet(Peers)
ASSUME BoundsAssumption ==
    /\ StreakThreshold \in Nat \ {0}
    /\ MaxStreak \in Nat /\ StreakThreshold <= MaxStreak
    /\ MaxSockets \in Nat \ {0}

VARIABLES
    sockets,            \* how many WebSockets each peer has open at the server
    connected,          \* the keys of relay.ts's connections map
    peers,              \* the rows of the peers table
    relayEnabled,       \* networks.relay_enabled
    links,              \* peer_links: <<from, to>> -> [mode, forcedMode]
    pairHealthMap,      \* pair -> PairHealth
    activeNegotiations, \* pair -> NegotiationState
    timers,             \* the armed timeouts of negotiations: <<pair, kind>>
    sent                \* what the last step pushed: <<recipient, message>>

vars == <<sockets, connected, peers, relayEnabled, links, pairHealthMap,
          activeNegotiations, timers, sent>>

-----------------------------------------------------------------------------
(* Pairs: a key is the ordered pair of its two peers, peer A first.        *)

Keys == {k \in Peers \X Peers : k[1] < k[2]}
PairKey(p, q) == IF p < q THEN <<p, q>> ELSE <<q, p>>
Members(k) == {k[1], k[2]}
Other(k, p) == IF p = k[1] THEN k[2] ELSE k[1]
Side(k, p) == IF p = k[1] THEN 1 ELSE 2
Rows(k) == {<<k[1], k[2]>>, <<k[2], k[1]>>}

Sides == 1..2
ForcedModes == {"none", "force-direct", "force-relay"}
LinkModes == {"direct", "relay"}

\* What a health report says of a peer: rxAlive on the direct path, not
\* rxAlive, or that the path is the relay, where rxAlive is not looked at.
Statuses == {"alive", "dead", "relay"}

PairHealth == [streak : [Sides -> 0..MaxStreak], past : [Sides -> BOOLEAN],
               forcedMode : ForcedModes]
NoHealth == [streak |-> [s \in Sides |-> 0], past |-> [s \in Sides |-> FALSE],
             forcedMode |-> "none"]
HealthOf(k) == IF k \in DOMAIN pairHealthMap THEN pairHealthMap[k] ELSE NoHealth

TimerKinds == {"relay", "ready", "result"}
RelayProbes == [type : {"relay-probe"}, serverNode : Peers, timer : {"relay"}]
DirectProbes == [type : {"direct-probe"}, ready : [Sides -> BOOLEAN],
                 result : [Sides -> {"none", "ok", "fail"}],
                 timer : {"ready", "result"}]
Negotiations == RelayProbes \cup DirectProbes

IsActive(k, type) ==
    k \in DOMAIN activeNegotiations /\ activeNegotiations[k].type = type

(* Messages to agents.  Ports, nonces and addresses carry no decision of   *)
(* the server's and are left out.                                          *)
Message == [type : {"probe-relay-serve", "probe-relay-check",
                    "probe-direct-start", "probe-direct-go", "probe-verdict",
                    "negotiate-abort", "force-mode", "peer-removed"},
            with : Peers,
            arg : {"", "switch-relay", "switch-direct", "stay", "timeout",
                   "ws-reset", "admin-force", "peer-removed", "force-direct",
                   "force-relay", "auto"}]
Msg(type, with, arg) == [type |-> type, with |-> with, arg |-> arg]
ToBoth(k, type, arg) ==
    {<<k[1], Msg(type, k[2], arg)>>, <<k[2], Msg(type, k[1], arg)>>}
ToBothOf(K, type, arg) == UNION {ToBoth(k, type, arg) : k \in K}

\* sendTextToPeer: a message to a peer that is not in the registry is dropped.
Push(mail) == sent' = {e \in mail : e[1] \in connected}
Silent == sent' = {}

-----------------------------------------------------------------------------
(* The life of negotiations.  neg.timer names the timeout that timeoutId   *)
(* holds; ending or replacing a negotiation clears that one and no other.  *)

Handles(K) == {<<k, activeNegotiations[k].timer>> :
                   k \in K \cap DOMAIN activeNegotiations}

\* A deviation: the timeout of an ended negotiation is left armed.
Lifecycle_TimerLeftArmed(fired, ended, begun) ==
    LET kept == DOMAIN activeNegotiations \ ended IN
    /\ activeNegotiations' =
          [k \in kept \cup DOMAIN begun |->
              IF k \in DOMAIN begun THEN begun[k] ELSE activeNegotiations[k]]
    /\ timers' = (timers \ fired) \cup {<<k, begun[k].timer>> : k \in DOMAIN begun}

\* finishNegotiation for every pair of `ended', then one negotiation begun
\* for every pair in the domain of `begun'; `fired' are timeouts that ran.
Lifecycle(fired, ended, begun) ==
    LET kept == DOMAIN activeNegotiations \ ended IN
    /\ activeNegotiations' =
          [k \in kept \cup DOMAIN begun |->
              IF k \in DOMAIN begun THEN begun[k] ELSE activeNegotiations[k]]
    /\ timers' = (timers \ (fired \cup Handles(ended)))
                 \cup {<<k, begun[k].timer>> : k \in DOMAIN begun}

NothingBegun == [k \in {} |-> {}]
Finish(k) == Lifecycle({}, {k}, NothingBegun)

\* The pairs with a negotiation that one of the peers of P takes part in.
PairsOf(P) == {k \in DOMAIN activeNegotiations : Members(k) \cap P # {}}

\* abortNegotiation for the pairs of K that have one.
Abort(K, reason) ==
    ToBothOf(K \cap DOMAIN activeNegotiations, "negotiate-abort", reason)

-----------------------------------------------------------------------------
(* The connection registry: relay.ts's open and close.                     *)

\* Nothing stops a second socket of a peer from opening while an older one,
\* half-open, has not been closed; the newer one takes the registry's entry.
WsOpen(p) ==
    /\ sockets[p] < MaxSockets
    /\ sockets' = [sockets EXCEPT ![p] = @ + 1]
    /\ connected' = connected \cup {p}
    /\ Silent
    /\ UNCHANGED <<peers, relayEnabled, links, pairHealthMap,
                   activeNegotiations, timers>>

\* A deviation: the disconnect callback is not wired to the negotiator.
WsClose_NegotiationsKept(p) ==
    /\ sockets[p] > 0
    /\ sockets' = [sockets EXCEPT ![p] = @ - 1]
    /\ connected' = connected \ {p}
    /\ Silent
    /\ UNCHANGED <<peers, relayEnabled, links, pairHealthMap,
                   activeNegotiations, timers>>

\* Whichever socket of p closes, the entry of p goes; then p's negotiations
\* are aborted and the other peers of those told (abortPeerNegotiations).
WsClose(p) ==
    /\ sockets[p] > 0
    /\ sockets' = [sockets EXCEPT ![p] = @ - 1]
    /\ connected' = connected \ {p}
    /\ Push({<<Other(k, p), Msg("negotiate-abort", p, "ws-reset")>> : k \in PairsOf({p})})
    /\ Lifecycle({}, PairsOf({p}), NothingBegun)
    /\ UNCHANGED <<peers, relayEnabled, links, pairHealthMap>>

-----------------------------------------------------------------------------
(* Health reports.                                                         *)

Mode(status) == IF status = "relay" THEN "relay" ELSE "direct"

\* A deviation: the rows a peer reported of are inserted one by one, and the
\* failure of one that has no peer undoes nothing.
Upserted_RowByRow(from, reports) ==
    LET rows == {<<from, p>> : p \in DOMAIN reports} IN
    [r \in DOMAIN links \cup rows |->
        IF r \in rows
        THEN [mode |-> Mode(reports[r[2]]),
              forcedMode |-> IF r \in DOMAIN links THEN links[r].forcedMode ELSE "none"]
        ELSE links[r]]

\* A deviation: the statement inserts rows and leaves those that exist.
Upserted_InsertOnly(from, reports) ==
    [r \in DOMAIN links \cup {<<from, p>> : p \in DOMAIN reports} |->
        IF r \in DOMAIN links THEN links[r]
        ELSE [mode |-> Mode(reports[r[2]]), forcedMode |-> "none"]]

\* The batch is one transaction: a foreign key that fails, of the reporter or
\* of one reported peer, undoes it all.  An upsert keeps the forced mode of a
\* row that exists; a row it inserts has none.
Upserted(from, reports) ==
    LET rows == {<<from, p>> : p \in DOMAIN reports} IN
    IF {from} \cup DOMAIN reports \subseteq peers
    THEN [r \in DOMAIN links \cup rows |->
            IF r \in rows
            THEN [mode |-> Mode(reports[r[2]]),
                  forcedMode |-> IF r \in DOMAIN links THEN links[r].forcedMode ELSE "none"]
            ELSE links[r]]
    ELSE links

\* What getForcedModeFromDb may read for a pair: LIMIT 1 takes one of the two
\* rows, and the query does not say which.
ForcedInDb(rows, k) ==
    IF Rows(k) \cap DOMAIN rows = {} THEN {"none"}
    ELSE {rows[r].forcedMode : r \in Rows(k) \cap DOMAIN rows}

\* The health of a pair after a report of side s: `over' says that the grace
\* period, which starts at the first report and may be 0, is found to be over.
AfterReport(health, s, status, over) ==
    LET past == health.past[s] \/ over
        counted == past /\ status # "relay"
    IN  [health EXCEPT
            !.past[s] = past,
            !.streak[s] = IF ~counted THEN @ ELSE IF status = "alive" THEN 0 ELSE @ + 1]

\* Bound: a dead report that would be counted beyond MaxStreak is not made.
Countable(from, reports) ==
    \A p \in DOMAIN reports :
        reports[p] = "dead" => HealthOf(PairKey(from, p)).streak[Side(PairKey(from, p), from)]
                                   < MaxStreak

BothDead(health, s, status) ==
    /\ health.past[s] /\ status # "relay"
    /\ \A i \in Sides : health.streak[i] >= StreakThreshold

RelayAllowed(p) == p \in peers /\ relayEnabled

\* The side with the higher streak serves; A when they are equal.
ServerNode(k, health) == IF health.streak[1] >= health.streak[2] THEN k[1] ELSE k[2]
RelayProbe(k, health) ==
    [type |-> "relay-probe", serverNode |-> ServerNode(k, health), timer |-> "relay"]

\* handleHealthReport.  The reports of one message are of different pairs, so
\* their loop is one assignment to every pair.
HealthReport(from, reports, over) ==
    LET keys == {PairKey(from, p) : p \in DOMAIN reports}
        status(k) == reports[Other(k, from)]
        health == [k \in keys |->
                      AfterReport(HealthOf(k), Side(k, from), status(k), Other(k, from) \in over)]
        \* the pairs for which shouldInitiateRelayProbe looks at the forced mode
        asked == {k \in keys : /\ BothDead(health[k], Side(k, from), status(k))
                               /\ k \notin DOMAIN activeNegotiations}
    IN
    /\ sockets[from] > 0
    /\ Countable(from, reports)
    /\ links' = Upserted(from, reports)
    /\ \E row \in [asked -> ForcedModes] :
        LET forced(k) == IF health[k].forcedMode # "none" THEN health[k].forcedMode ELSE row[k]
            begun == {k \in asked : /\ forced(k) = "none"
                                    /\ Members(k) \subseteq connected
                                    /\ RelayAllowed(from)}
        IN
        /\ \A k \in asked : row[k] \in ForcedInDb(links', k)
        /\ pairHealthMap' =
              [k \in DOMAIN pairHealthMap \cup keys |->
                  IF k \in asked THEN [health[k] EXCEPT !.forcedMode = forced(k)]
                  ELSE IF k \in keys THEN health[k] ELSE pairHealthMap[k]]
        /\ Lifecycle({}, {}, [k \in begun |-> RelayProbe(k, health[k])])
        /\ Push({LET server == ServerNode(k, health[k]) IN
                 <<server, Msg("probe-relay-serve", Other(k, server), "")>> : k \in begun})
    /\ UNCHANGED <<sockets, connected, peers, relayEnabled>>

-----------------------------------------------------------------------------
(* The messages of a probe.  Each handler looks up the negotiation of the  *)
(* pair the message names; a message that fits none of them is ignored.    *)

Ignored ==
    /\ Silent
    /\ UNCHANGED <<sockets, connected, peers, relayEnabled, links,
                   pairHealthMap, activeNegotiations, timers>>

\* The streaks, as handleProbeRelayResult and handleForceMode reset them.
ResetStreaks(health) == [health EXCEPT !.streak = [s \in Sides |-> 0]]

\* handleProbeRelayReady: the TCP server is up, the other side may connect.
ProbeRelayReady(from, p) ==
    LET k == PairKey(from, p)
        expected == IsActive(k, "relay-probe") /\ activeNegotiations[k].serverNode = from
    IN
    /\ sockets[from] > 0
    /\ \/ /\ expected
          /\ Members(k) \subseteq peers
          /\ Push({<<p, Msg("probe-relay-check", from, "")>>})
          /\ UNCHANGED <<sockets, connected, peers, relayEnabled, links,
                         pairHealthMap, activeNegotiations, timers>>
       \/ /\ expected
          /\ ~ Members(k) \subseteq peers
          /\ Push(Abort({k}, "timeout"))
          /\ Finish(k)
          /\ UNCHANGED <<sockets, connected, peers, relayEnabled, links, pairHealthMap>>
       \/ ~expected /\ Ignored

\* handleProbeRelayResult: the client's word alone decides.
ProbeRelayResult(from, p, success) ==
    LET k == PairKey(from, p)
        expected == IsActive(k, "relay-probe") /\ activeNegotiations[k].serverNode = p
    IN
    /\ sockets[from] > 0
    /\ \/ /\ expected
          /\ Push(ToBoth(k, "probe-verdict", IF success THEN "switch-relay" ELSE "stay"))
          /\ Finish(k)
          /\ pairHealthMap' = [h \in DOMAIN pairHealthMap |->
                IF h = k THEN ResetStreaks(pairHealthMap[h]) ELSE pairHealthMap[h]]
          /\ UNCHANGED <<sockets, connected, peers, relayEnabled, links>>
       \/ ~expected /\ Ignored

\* A deviation: the ready timeout is cleared and no result timeout is armed.
ProbeDirectReady_NoResultTimeout(from, p) ==
    LET k == PairKey(from, p)
        expected == IsActive(k, "direct-probe")
        neg == [activeNegotiations[k] EXCEPT !.ready[Side(k, from)] = TRUE]
    IN
    /\ sockets[from] > 0
    /\ \/ /\ expected
          /\ Push({})
          /\ activeNegotiations' = [activeNegotiations EXCEPT ![k] = neg]
          /\ timers' = IF \A s \in Sides : neg.ready[s] THEN timers \ Handles({k}) ELSE timers
          /\ UNCHANGED <<sockets, connected, peers, relayEnabled, links, pairHealthMap>>
       \/ ~expected /\ Ignored

\* handleProbeDirectReady: when both sockets are bound, the ready timeout gives
\* way to the result timeout and both sides are told to go.  A ready that
\* arrives again does the same once more.
ProbeDirectReady(from, p) ==
    LET k == PairKey(from, p)
        expected == IsActive(k, "direct-probe")
        neg == [activeNegotiations[k] EXCEPT !.ready[Side(k, from)] = TRUE]
        both == \A s \in Sides : neg.ready[s]
    IN
    /\ sockets[from] > 0
    /\ \/ /\ expected /\ ~both
          /\ activeNegotiations' = [activeNegotiations EXCEPT ![k] = neg]
          /\ Silent
          /\ UNCHANGED <<sockets, connected, peers, relayEnabled, links,
                         pairHealthMap, timers>>
       \/ /\ expected /\ both
          /\ Members(k) \subseteq peers
          /\ Push(ToBoth(k, "probe-direct-go", ""))
          /\ Lifecycle({}, {k}, [h \in {k} |-> [neg EXCEPT !.timer = "result"]])
          /\ UNCHANGED <<sockets, connected, peers, relayEnabled, links, pairHealthMap>>
       \/ /\ expected /\ both
          /\ ~ Members(k) \subseteq peers
          /\ Push(Abort({k}, "timeout"))
          /\ Finish(k)
          /\ UNCHANGED <<sockets, connected, peers, relayEnabled, links, pairHealthMap>>
       \/ ~expected /\ Ignored

\* A deviation: each side is told what its own result says.
ProbeDirectResult_EachItsOwn(from, p, success) ==
    LET k == PairKey(from, p)
        expected == IsActive(k, "direct-probe")
        neg == [activeNegotiations[k] EXCEPT
                   !.result[Side(k, from)] = IF success THEN "ok" ELSE "fail"]
        verdict(r) == IF neg.result[Side(k, r)] = "ok" THEN "switch-direct" ELSE "stay"
    IN
    /\ sockets[from] > 0
    /\ \/ /\ expected /\ \E s \in Sides : neg.result[s] = "none"
          /\ activeNegotiations' = [activeNegotiations EXCEPT ![k] = neg]
          /\ Silent
          /\ UNCHANGED <<sockets, connected, peers, relayEnabled, links,
                         pairHealthMap, timers>>
       \/ /\ expected /\ \A s \in Sides : neg.result[s] # "none"
          /\ Push({<<r, Msg("probe-verdict", Other(k, r), verdict(r))>> : r \in Members(k)})
          /\ Finish(k)
          /\ UNCHANGED <<sockets, connected, peers, relayEnabled, links, pairHealthMap>>
       \/ ~expected /\ Ignored

\* handleProbeDirectResult: the second result decides; a side that answers
\* twice overwrites its first answer.
ProbeDirectResult(from, p, success) ==
    LET k == PairKey(from, p)
        expected == IsActive(k, "direct-probe")
        neg == [activeNegotiations[k] EXCEPT
                   !.result[Side(k, from)] = IF success THEN "ok" ELSE "fail"]
        both == \A s \in Sides : neg.result[s] # "none"
    IN
    /\ sockets[from] > 0
    /\ \/ /\ expected /\ ~both
          /\ activeNegotiations' = [activeNegotiations EXCEPT ![k] = neg]
          /\ Silent
          /\ UNCHANGED <<sockets, connected, peers, relayEnabled, links,
                         pairHealthMap, timers>>
       \/ /\ expected /\ both
          /\ Push(ToBoth(k, "probe-verdict",
                         IF \A s \in Sides : neg.result[s] = "ok" THEN "switch-direct" ELSE "stay"))
          /\ Finish(k)
          /\ UNCHANGED <<sockets, connected, peers, relayEnabled, links, pairHealthMap>>
       \/ ~expected /\ Ignored

\* handleProbeError: either side's error aborts whatever is active.
ProbeError(from, p) ==
    LET k == PairKey(from, p) IN
    /\ sockets[from] > 0
    /\ \/ /\ k \in DOMAIN activeNegotiations
          /\ Push(Abort({k}, "timeout"))
          /\ Finish(k)
          /\ UNCHANGED <<sockets, connected, peers, relayEnabled, links, pairHealthMap>>
       \/ k \notin DOMAIN activeNegotiations /\ Ignored

-----------------------------------------------------------------------------
(* Timeouts.  Each ends the negotiation the pair has when the timeout runs.*)

RelayProbeTimeout(k) ==
    /\ <<k, "relay">> \in timers
    /\ Push(Abort({k}, "timeout"))
    /\ Lifecycle({<<k, "relay">>}, {k}, NothingBegun)
    /\ UNCHANGED <<sockets, connected, peers, relayEnabled, links, pairHealthMap>>

DirectReadyTimeout(k) ==
    /\ <<k, "ready">> \in timers
    /\ Push(ToBoth(k, "probe-verdict", "stay"))
    /\ Lifecycle({<<k, "ready">>}, {k}, NothingBegun)
    /\ UNCHANGED <<sockets, connected, peers, relayEnabled, links, pairHealthMap>>

\* A deviation: only side A hears that no result came.
DirectResultTimeout_TellsA(k) ==
    /\ <<k, "result">> \in timers
    /\ Push({<<k[1], Msg("probe-verdict", k[2], "stay")>>})
    /\ Lifecycle({<<k, "result">>}, {k}, NothingBegun)
    /\ UNCHANGED <<sockets, connected, peers, relayEnabled, links, pairHealthMap>>

DirectResultTimeout(k) ==
    /\ <<k, "result">> \in timers
    /\ Push(ToBoth(k, "probe-verdict", "stay"))
    /\ Lifecycle({<<k, "result">>}, {k}, NothingBegun)
    /\ UNCHANGED <<sockets, connected, peers, relayEnabled, links, pairHealthMap>>

\* checkDirectProbes: the pairs whose two rows both say relay and are not
\* forced, whatever the cached forced mode says.  `kept' are the pairs that
\* still have a negotiation after the stale ones were aborted.
DirectProbeAllowed(k, kept) ==
    /\ Rows(k) \subseteq DOMAIN links
    /\ \A r \in Rows(k) : links[r].mode = "relay" /\ links[r].forcedMode = "none"
    /\ k \in DOMAIN pairHealthMap /\ k \notin kept
    /\ Members(k) \subseteq connected
    /\ RelayAllowed(k[1])

NewDirectProbe ==
    [type |-> "direct-probe", ready |-> [s \in Sides |-> FALSE],
     result |-> [s \in Sides |-> "none"], timer |-> "ready"]

\* The interval of startStaleSweep: `stale' are the negotiations found older
\* than STALE_NEGOTIATION_MS, `due' the pairs whose backoff is found expired.
StaleSweep(stale, due) ==
    /\ stale \subseteq DOMAIN activeNegotiations
    /\ \A k \in due : DirectProbeAllowed(k, DOMAIN activeNegotiations \ stale)
    /\ Push(Abort(stale, "timeout") \cup ToBothOf(due, "probe-direct-start", ""))
    /\ Lifecycle({}, stale, [k \in due |-> NewDirectProbe])
    /\ UNCHANGED <<sockets, connected, peers, relayEnabled, links, pairHealthMap>>

-----------------------------------------------------------------------------
(* The administrator, the reaper and the server process.                   *)

\* A deviation: the active negotiation of a pair that is forced goes on.
ForceMode_NegotiationKept(k, mode) ==
    LET cached == IF mode = "auto" THEN "none" ELSE mode IN
    /\ Members(k) \subseteq peers
    /\ links' = [r \in DOMAIN links |->
                    IF r \in Rows(k) THEN [links[r] EXCEPT !.forcedMode = cached] ELSE links[r]]
    /\ pairHealthMap' = [h \in DOMAIN pairHealthMap \cup {k} |->
                            IF h = k THEN [ResetStreaks(HealthOf(k)) EXCEPT !.forcedMode = cached]
                            ELSE pairHealthMap[h]]
    /\ Push(ToBoth(k, "force-mode", mode))
    /\ UNCHANGED <<sockets, connected, peers, relayEnabled, activeNegotiations, timers>>

\* handleForceMode, and the check of the API before it that both peers exist.
\* The UPDATE changes the rows that exist and inserts none; a force-mode
\* message to a peer that is not connected is lost.
ForceMode(k, mode) ==
    LET cached == IF mode = "auto" THEN "none" ELSE mode IN
    /\ Members(k) \subseteq peers
    /\ Push(Abort({k}, "admin-force") \cup ToBoth(k, "force-mode", mode))
    /\ Finish(k)
    /\ links' = [r \in DOMAIN links |->
                    IF r \in Rows(k) THEN [links[r] EXCEPT !.forcedMode = cached] ELSE links[r]]
    /\ pairHealthMap' = [h \in DOMAIN pairHealthMap \cup {k} |->
                            IF h = k THEN [ResetStreaks(HealthOf(k)) EXCEPT !.forcedMode = cached]
                            ELSE pairHealthMap[h]]
    /\ UNCHANGED <<sockets, connected, peers, relayEnabled>>

\* The rows that are left when the peers `gone' are deleted (ON DELETE CASCADE).
LinksWithout(gone) ==
    Restrict(links, {r \in DOMAIN links : {r[1], r[2]} \cap gone = {}})

\* What cleanupPeerHealth leaves.
HealthWithout(expired) ==
    Restrict(pairHealthMap, {k \in DOMAIN pairHealthMap : Members(k) \cap expired = {}})

\* The peer that abortPeerNegotiations tells.
Survivor(k, expired, last) ==
    IF Members(k) \subseteq expired THEN last[k]
    ELSE CHOOSE p \in Members(k) : p \notin expired
AbortedByReap(k, p) == <<p, Msg("negotiate-abort", Other(k, p), "peer-removed")>>

\* A deviation: the health of the pairs goes, their negotiations stay.
Reap_NegotiationsKept(expired, last, gone) ==
    /\ expired # {} /\ expired \subseteq peers
    /\ Silent
    /\ pairHealthMap' = HealthWithout(expired)
    /\ peers' = peers \ gone
    /\ links' = LinksWithout(gone)
    /\ UNCHANGED <<sockets, connected, relayEnabled, activeNegotiations, timers>>

\* reap: the negotiations of the expired peers are aborted and their health
\* forgotten, then their rows deleted (`gone') in a transaction that may fail,
\* then the peers that remain are told.  An expired peer itself is told nothing;
\* when both peers of a negotiation expired, the one whose row comes first ends
\* it and the other, `last', is told.  No socket is closed.
Reap(expired, last, gone) ==
    LET K == PairsOf(expired) IN
    /\ expired # {} /\ expired \subseteq peers
    /\ Push({AbortedByReap(k, Survivor(k, expired, last)) : k \in K}
            \cup ((peers \ gone) \X {Msg("peer-removed", q, "") : q \in gone}))
    /\ Lifecycle({}, K, NothingBegun)
    /\ pairHealthMap' = HealthWithout(expired)
    /\ peers' = peers \ gone
    /\ links' = LinksWithout(gone)
    /\ UNCHANGED <<sockets, connected, relayEnabled>>

\* DELETE /api/peers/:id deletes the row and nothing else.
DeletePeer(p) ==
    /\ p \in peers
    /\ peers' = peers \ {p}
    /\ links' = LinksWithout({p})
    /\ Silent
    /\ UNCHANGED <<sockets, connected, relayEnabled, pairHealthMap,
                   activeNegotiations, timers>>

\* PATCH /api/networks/:id with relayEnabled.
SetRelayEnabled(enabled) ==
    /\ relayEnabled' = enabled
    /\ Silent
    /\ UNCHANGED <<sockets, connected, peers, links, pairHealthMap,
                   activeNegotiations, timers>>

\* The process ends and starts again: the database survives, no Map does.
ServerRestart ==
    /\ sockets' = [p \in Peers |-> 0]
    /\ connected' = {}
    /\ pairHealthMap' = [k \in {} |-> NoHealth]
    /\ Lifecycle(timers, DOMAIN activeNegotiations, NothingBegun)
    /\ Silent
    /\ UNCHANGED <<peers, relayEnabled, links>>

-----------------------------------------------------------------------------
Init ==
    /\ sockets = [p \in Peers |-> 0]
    /\ connected = {}
    /\ peers = Peers
    /\ relayEnabled = TRUE
    /\ links = [r \in {} |-> {}]
    /\ pairHealthMap = [k \in {} |-> NoHealth]
    /\ activeNegotiations = NothingBegun
    /\ timers = {}
    /\ sent = {}

\* The agent reports of the peers it monitors, any of the others.
Report(from) ==
    \E about \in SUBSET (Peers \ {from}) :
        \E reports \in [about -> Statuses], over \in SUBSET about :
            HealthReport(from, reports, over)

ProbeMessage(from, p) ==
    \/ ProbeRelayReady(from, p)
    \/ \E success \in BOOLEAN : ProbeRelayResult(from, p, success)
    \/ ProbeDirectReady(from, p)
    \/ \E success \in BOOLEAN : ProbeDirectResult(from, p, success)
    \/ ProbeError(from, p)

Timeout(k) ==
    \/ RelayProbeTimeout(k)
    \/ DirectReadyTimeout(k)
    \/ DirectResultTimeout(k)

Sweep ==
    \E stale \in SUBSET DOMAIN activeNegotiations, due \in SUBSET Keys :
        StaleSweep(stale, due)

Reaper ==
    \E expired \in SUBSET peers :
        \E gone \in {expired, {}},
           last \in [{k \in DOMAIN activeNegotiations : Members(k) \subseteq expired} -> peers] :
            /\ \A k \in DOMAIN last : last[k] \in Members(k)
            /\ Reap(expired, last, gone)

Next ==
    \/ \E p \in Peers : WsOpen(p)
    \/ \E p \in Peers : WsClose(p)
    \/ \E from \in Peers : Report(from)
    \/ \E from \in Peers : \E p \in Peers \ {from} : ProbeMessage(from, p)
    \/ \E k \in Keys : Timeout(k)
    \/ Sweep
    \/ \E k \in Keys, mode \in {"force-direct", "force-relay", "auto"} : ForceMode(k, mode)
    \/ Reaper
    \/ \E p \in Peers : DeletePeer(p)
    \/ \E enabled \in BOOLEAN : SetRelayEnabled(enabled)
    \/ ServerRestart

Spec == Init /\ [][Next]_vars

\* A timeout that stays armed runs: setTimeout promises it.  Nothing is
\* assumed of the agents, the network, the sweep or the administrator.
Fairness ==
    /\ \A k \in Keys : WF_vars(RelayProbeTimeout(k))
    /\ \A k \in Keys : WF_vars(DirectReadyTimeout(k))
    /\ \A k \in Keys : WF_vars(DirectResultTimeout(k))

FairSpec == Spec /\ Fairness

-----------------------------------------------------------------------------
(* Properties.                                                             *)

\* The types, and the foreign keys of peer_links: every row of the table names
\* two peers that exist.
TypeOK ==
    /\ sockets \in [Peers -> 0..MaxSockets]
    /\ connected \subseteq Peers
    /\ peers \subseteq Peers
    /\ relayEnabled \in BOOLEAN
    /\ DOMAIN links \subseteq peers \X peers
    /\ links \in [DOMAIN links -> [mode : LinkModes, forcedMode : ForcedModes]]
    /\ DOMAIN pairHealthMap \subseteq Keys
    /\ pairHealthMap \in [DOMAIN pairHealthMap -> PairHealth]
    /\ DOMAIN activeNegotiations \subseteq Keys
    /\ activeNegotiations \in [DOMAIN activeNegotiations -> Negotiations]
    /\ timers \subseteq Keys \X TimerKinds
    /\ sent \subseteq Peers \X Message

\* The armed timeouts are exactly those the active negotiations hold: no
\* negotiation lacks the timeout that would end it, and no timeout of an
\* earlier negotiation is left to end a later one of the same pair (the
\* timeouts of initiateRelayProbe, initiateDirectProbe and
\* handleProbeDirectReady find their negotiation by the pair alone).
TimerOwnership == timers = Handles(DOMAIN activeNegotiations)

\* Both peers of an active negotiation are in the connection registry: it began
\* when they were, and wsHandler.close ended those of the peer it took out.
ActivePeersConnected ==
    \A k \in DOMAIN activeNegotiations : Members(k) \subseteq connected

\* An active negotiation's pair has its health record, so that the outcome can
\* be counted (streaks, backoff) when it ends; only the reaper drops records.
ActiveHasHealth == DOMAIN activeNegotiations \subseteq DOMAIN pairHealthMap

\* No relay probe is running for a pair that the server knows to be forced:
\* handleForceMode aborts it, shouldInitiateRelayProbe starts none.
RelayProbeNotForced ==
    \A k \in Keys : IsActive(k, "relay-probe") => pairHealthMap[k].forcedMode = "none"

\* A peer with an open socket is in the registry.
OpenIsRegistered == \A p \in Peers : sockets[p] > 0 => p \in connected

\* Whether a message ends, for the agent that gets it, its negotiation of pair
\* k; and the peers that the last step told so.
TellsEnd(k, e) ==
    /\ e[1] \in Members(k) /\ e[2].with = Other(k, e[1])
    /\ e[2].type \in {"probe-verdict", "negotiate-abort"}
ToldOfEnd(k) == {e[1] : e \in {m \in sent : TellsEnd(k, m)}}

\* When a negotiation ends, each of its peers that is still connected is told
\* in the same step, by a verdict or an abort; the one exception is a peer that
\* the reaper removes, and with it the pair's health: then the other is told.
EndAnnounced ==
    \A k \in DOMAIN activeNegotiations \ DOMAIN activeNegotiations' :
        \/ Members(k) \cap connected' \subseteq ToldOfEnd(k)'
        \/ k \notin DOMAIN pairHealthMap' /\ ToldOfEnd(k)' # {}
EndIsAnnounced == [][EndAnnounced]_vars

\* Every negotiation ends: none can hold its pair, and with it the frozen
\* detection of both agents, for ever.  (The sweep may abort one and begin the
\* next of the same pair in one step: the abort is then what shows the end.)
NegotiationEnds ==
    \A k \in Keys :
        k \in DOMAIN activeNegotiations
            ~> \/ k \notin DOMAIN activeNegotiations
               \/ ToldOfEnd(k) # {}

=============================================================================
