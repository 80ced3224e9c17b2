------------------------------ MODULE Monitor ------------------------------
(***************************************************************************)
(* How an agent finds out whether it hears a peer directly (monitor.ts,    *)
(* with relay-proxy.ts and awg.ts of packages/agent/src).  The kernel      *)
(* counts all bytes of the peer's interface, those the agent itself passes *)
(* on from the relay included; the monitor reads the counter once a second *)
(* by a subprocess and has to tell the two apart.  Nothing keeps a read    *)
(* from beginning while another runs, nor the older one from ending last.  *)
(*                                                                         *)
(* Peers do not share anything here but the reads, so that one peer is     *)
(* enough.  The code only compares the counter's values, so the model      *)
(* keeps their order: Ranked numbers the values that still matter from 0,  *)
(* the value of a failed read.                                             *)
(***************************************************************************)
EXTENDS Naturals, FiniteSets

CONSTANTS
    MissThreshold,  \* MISS_THRESHOLD
    FrozenTimeout,  \* FROZEN_TIMEOUT_MS, in ticks
    Reads,          \* bound: the reads that run at a time
    MaxOrders,      \* bound: probes that begin, and switches
    MaxFailures     \* bound: reads that fail

ASSUME MonitorBounds ==
    {MissThreshold, FrozenTimeout} \subseteq Nat \ {0} /\ {MaxOrders, MaxFailures} \subseteq Nat

VARIABLES
    mode, rxAlive, directMissed,  \* the peer's state; lastRxBytes is
    known,      \* at least 0, or -1 after a switch
    frozen,     \* how many ticks ago the peer was frozen, or Thawed
    tainted,    \* the peer is in relayForwardedPeers
    rxBytes,    \* the ranks of the kernel's counter, lastRxBytes ("last"), cachedStats
                \* ("cached") and what each read has counted; 0 for what is not used
    young,      \* a report read cachedStats less than STATS_CACHE_TTL_MS ago, which is less
                \* than the time between two ticks
    reader,     \* who waits for each read: "tick", "report", or "none"
    counted,    \* the reads whose subprocess is done
    source,     \* how the peer's packets arrive now, "none" if they do not
    orders, failures

peer == <<mode, rxAlive, directMissed, known>>
cache == <<young, reader, counted>>
vars == <<peer, frozen, tainted, rxBytes, cache, source, orders, failures>>

Thawed == FrozenTimeout + 1
Frozen == frozen # Thawed

Values == {"kernel", "last", "cached"} \union Reads

\* The same order, without gaps.
Ranked(values) ==
    LET taken == {0} \union {values[v] : v \in Values}
    IN  [v \in Values |-> Cardinality({n \in taken : n < values[v]})]

-----------------------------------------------------------------------------
(* The packets.                                                            *)

TurnSource(s) ==
    /\ source' = s
    /\ UNCHANGED <<peer, frozen, tainted, rxBytes, cache, orders, failures>>

MoreBytes == rxBytes' = Ranked([rxBytes EXCEPT !["kernel"] = @ + 1])

DirectPacket ==
    /\ source = "direct"
    /\ MoreBytes
    /\ UNCHANGED <<peer, frozen, tainted, cache, source, orders, failures>>

\* ws.onmessage: a relay frame goes to the interface by the loopback, at once.
RelayFrame ==
    /\ source = "relay"
    /\ tainted' = TRUE
    /\ MoreBytes
    /\ UNCHANGED <<peer, frozen, cache, source, orders, failures>>

-----------------------------------------------------------------------------
(* The negotiation's part.                                                 *)

FreezePeer ==
    /\ orders < MaxOrders
    /\ orders' = orders + 1
    /\ frozen' = 0
    /\ UNCHANGED <<peer, tainted, rxBytes, cache, source, failures>>

UnfreezePeer ==
    /\ Frozen
    /\ frozen' = Thawed
    /\ UNCHANGED <<peer, tainted, rxBytes, cache, source, orders, failures>>

\* lastRxBytes is -1.
Forget ==
    /\ known' = FALSE
    /\ rxBytes' = Ranked([rxBytes EXCEPT !["last"] = 0])

\* A deviation: the misses are not forgotten.
SetPeerMode_MissesKept(m) ==
    /\ orders < MaxOrders
    /\ orders' = orders + 1
    /\ mode' = m
    /\ Forget
    /\ rxAlive' = (m = "direct")
    /\ UNCHANGED <<directMissed, frozen, tainted, cache, source, failures>>

SetPeerMode(m) ==
    /\ orders < MaxOrders
    /\ orders' = orders + 1
    /\ mode' = m
    /\ Forget
    /\ directMissed' = 0
    /\ rxAlive' = (m = "direct")
    /\ UNCHANGED <<frozen, tainted, cache, source, failures>>

-----------------------------------------------------------------------------
(* getCachedPeerStats.                                                     *)

\* Without a young cache a read begins, whatever reads still run.
Spawn(who) ==
    /\ ~young
    /\ \E r \in Reads :
          /\ reader[r] = "none" /\ r = CHOOSE s \in Reads : reader[s] = "none"
          /\ reader' = [reader EXCEPT ![r] = who]
    /\ UNCHANGED <<young, counted>>

\* The subprocess reads the counters ...
Count(r) ==
    /\ reader[r] # "none" /\ r \notin counted
    /\ counted' = counted \union {r}
    /\ rxBytes' = [rxBytes EXCEPT ![r] = rxBytes["kernel"]]
    /\ UNCHANGED <<peer, frozen, tainted, young, reader, source, orders, failures>>

\* ... or fails, which gives no peers, and so no bytes.
FailRead(r) ==
    /\ reader[r] # "none" /\ r \notin counted /\ failures < MaxFailures
    /\ failures' = failures + 1
    /\ counted' = counted \union {r}
    /\ UNCHANGED <<peer, frozen, tainted, rxBytes, young, reader, source, orders>>

\* cachedStats is this read's, and as old as this read is; a tick's is too old for
\* the next tick, so that its value does not matter.
Fetched(r) ==
    /\ r \in counted
    /\ young' = (reader[r] = "report")
    /\ reader' = [reader EXCEPT ![r] = "none"]
    /\ counted' = counted \ {r}

CacheExpires ==
    /\ young
    /\ young' = FALSE
    /\ rxBytes' = Ranked([rxBytes EXCEPT !["cached"] = 0])
    /\ UNCHANGED <<peer, frozen, tainted, reader, counted, source, orders, failures>>

-----------------------------------------------------------------------------
(* tick and collectHealthReports.                                          *)

\* A deviation: a peer stays frozen until a message thaws it.
Thaw_Never == frozen' = frozen

\* A peer is frozen for so long at most.
Thaw == frozen' = IF frozen = Thawed THEN Thawed ELSE frozen + 1

\* A deviation: what was forwarded is never forgotten.
Drain_Kept == UNCHANGED tainted

Drain == tainted' = FALSE

\* After the await: drain, and judge by the bytes of this tick's statistics.
Judge(stats, asleep) ==
    LET rx == rxBytes[stats]
        left == [rxBytes EXCEPT !["cached"] = 0, ![stats] = 0]
    IN  /\ Drain
        /\ IF asleep \/ mode = "relay"
           THEN rxBytes' = Ranked(left) /\ UNCHANGED peer
           ELSE /\ rxBytes' = Ranked([left EXCEPT !["last"] = rx])
                /\ known' = TRUE
                /\ IF known /\ ~tainted /\ rx > rxBytes["last"]
                   THEN directMissed' = 0 /\ rxAlive' = TRUE
                   ELSE IF known
                   THEN /\ directMissed' = IF directMissed = MissThreshold THEN MissThreshold ELSE directMissed + 1
                        /\ rxAlive' = (rxAlive /\ directMissed' < MissThreshold)
                   ELSE UNCHANGED <<directMissed, rxAlive>>
                /\ UNCHANGED mode

TickFromCache ==
    /\ young /\ young' = FALSE
    /\ Thaw
    /\ Judge("cached", frozen' # Thawed)
    /\ UNCHANGED <<reader, counted, source, orders, failures>>

BeginTick ==
    /\ Spawn("tick")
    /\ Thaw
    /\ UNCHANGED <<peer, tainted, rxBytes, source, orders, failures>>

EndTick(r) ==
    /\ reader[r] = "tick" /\ Fetched(r)
    /\ Judge(r, Frozen)
    /\ UNCHANGED <<frozen, source, orders, failures>>

BeginReport ==
    /\ Spawn("report")
    /\ UNCHANGED <<peer, frozen, tainted, rxBytes, source, orders, failures>>

EndReport(r) ==
    /\ reader[r] = "report" /\ Fetched(r)
    /\ rxBytes' = Ranked([rxBytes EXCEPT !["cached"] = rxBytes[r], ![r] = 0])
    /\ UNCHANGED <<peer, frozen, tainted, source, orders, failures>>

-----------------------------------------------------------------------------
Init ==
    /\ mode = "direct" /\ rxAlive = TRUE /\ directMissed = 0 /\ known = FALSE
    /\ frozen = Thawed /\ tainted = FALSE
    /\ rxBytes = [v \in Values |-> 0]
    /\ young = FALSE /\ reader = [r \in Reads |-> "none"] /\ counted = {}
    /\ source = "direct" /\ orders = 0 /\ failures = 0

Tick == TickFromCache \/ BeginTick
Stats(r) == Count(r) \/ EndTick(r) \/ EndReport(r)

Next ==
    \/ \E s \in {"direct", "relay", "none"} : TurnSource(s)
    \/ DirectPacket \/ RelayFrame
    \/ FreezePeer \/ UnfreezePeer
    \/ \E m \in {"direct", "relay"} : SetPeerMode(m)
    \/ \E r \in Reads : Stats(r) \/ FailRead(r)
    \/ CacheExpires \/ Tick \/ BeginReport

\* The timer ticks every second, whatever else goes on; of the reads that run one
\* ends; a peer that is heard sends on.
Spec == Init /\ [][Next]_vars
FairSpec ==
    /\ Spec
    /\ SF_vars(Tick) /\ WF_vars(\E r \in Reads : Stats(r)) /\ WF_vars(DirectPacket)
-----------------------------------------------------------------------------
(* Properties.                                                             *)

\* In direct mode a peer counts as dead exactly after MISS_THRESHOLD ticks without
\* new bytes, wherever they lie between switches, probes and failed reads.
DeadIsCounted == mode = "direct" => (~rxAlive <=> directMissed >= MissThreshold)

\* Once nothing is heard of a peer in direct mode it counts as dead in the end,
\* though a probe whose end was lost left it frozen (health-report-tests.bats:108).
SilenceDetected == <>[](source = "none" /\ mode = "direct") => <>[]~rxAlive

\* A peer that is heard directly, and no more by the relay, comes to life again,
\* though an older read may be judged after a newer one.
HeardAgain == <>[](source = "direct" /\ mode = "direct") => []<>rxAlive
=============================================================================
