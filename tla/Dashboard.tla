----------------------------- MODULE Dashboard -----------------------------
(***************************************************************************)
(* The page of one network (packages/frontend/src/views/NetworkDetail.vue; *)
(* Networks.vue loads and edits its list in the same way) and the rows of  *)
(* the server that it shows and edits (packages/server/src/api.ts).        *)
(*                                                                         *)
(* A timer loads the page every five seconds, and some edits do, whether   *)
(* or not an earlier load has ended.  A load is several requests that the  *)
(* server answers one by one, in any order.                                *)
(***************************************************************************)
EXTENDS Naturals

CONSTANTS
    Names,       \* names of the network
    Peers,       \* peers that come and go
    Loads,       \* bound: places for the loads that are under way at once, 1..n
    Edits,       \* bound: places for the edits that are under way at once, 1..n
    MaxChanges,  \* bound: edits, here and elsewhere
    MaxFaults    \* bound: requests that fail

CONSTANT None
DashboardConstants == None \notin Names /\ MaxChanges \in Nat /\ MaxFaults \in Nat

VARIABLES
    network,   \* the network's row: its name, and whether it relays
    peers,     \* the rows of its peers
    shown,     \* the network on the page, None before the first load
    shownPeers,
    loads,     \* each load's answers so far, None if it is not under way
    edits,     \* what each edit of the page does and was answered, None if not under way
    changes, faults

vars == <<network, peers, shown, shownPeers, loads, edits, changes, faults>>
server == <<network, peers>>
page == <<shown, shownPeers>>

Change == changes < MaxChanges /\ changes' = changes + 1
Fault == faults < MaxFaults /\ faults' = faults + 1

-----------------------------------------------------------------------------
(* load                                                                    *)

Asked == [network |-> None, peers |-> None]
\* Which place a load has tells nothing: it takes the first that is free.
Free(l) == loads[l] = None /\ \A k \in Loads : loads[k] = None => l <= k
Loading(l) == loads[l] # None
SetLoad(l, x) == loads' = [loads EXCEPT ![l] = x]

BeginLoad(l) ==
    /\ Free(l)
    /\ SetLoad(l, Asked)
    /\ UNCHANGED <<server, page, edits, changes, faults>>

ServeNetwork(l) ==
    /\ Loading(l) /\ loads[l].network = None
    /\ SetLoad(l, [loads[l] EXCEPT !.network = network])
    /\ UNCHANGED <<server, page, edits, changes, faults>>

ServePeers(l) ==
    /\ Loading(l) /\ loads[l].peers = None
    /\ SetLoad(l, [loads[l] EXCEPT !.peers = peers])
    /\ UNCHANGED <<server, page, edits, changes, faults>>

Complete(l) == Loading(l) /\ None \notin {loads[l].network, loads[l].peers}

\* A deviation: what an edit shows is not loaded over.
EndLoad_NetworkOnce(l) ==
    /\ Complete(l)
    /\ shown' = (IF shown = None THEN loads[l].network ELSE shown)
    /\ shownPeers' = loads[l].peers
    /\ SetLoad(l, None)
    /\ UNCHANGED <<server, edits, changes, faults>>

\* The last load to end is shown, whichever began last.
EndLoad(l) ==
    /\ Complete(l)
    /\ shown' = loads[l].network /\ shownPeers' = loads[l].peers
    /\ SetLoad(l, None)
    /\ UNCHANGED <<server, edits, changes, faults>>

Load(l) == BeginLoad(l) \/ ServeNetwork(l) \/ ServePeers(l) \/ EndLoad(l)

FailLoad(l) ==
    /\ Loading(l) /\ Fault
    /\ SetLoad(l, None)
    /\ UNCHANGED <<server, page, edits, changes>>

-----------------------------------------------------------------------------
(* The page's edits: nothing keeps one from beginning before another ends.  *)

SetEdit(e, x) == edits' = [edits EXCEPT ![e] = x]
Waits(e, does) == edits[e] # None /\ edits[e].does = does /\ edits[e].answer = None
Answered(e, does) == edits[e] # None /\ edits[e].does = does /\ edits[e].answer # None

Begin(e, x) ==
    /\ shown # None /\ Change
    /\ edits[e] = None /\ \A f \in Edits : edits[f] = None => e <= f
    /\ SetEdit(e, x)
    /\ UNCHANGED <<server, page, loads, faults>>

Patch(name, relay) == [does |-> "patch", name |-> name, relay |-> relay, answer |-> None]

SaveName(e) == \E n \in Names : shown # None /\ n # shown.name /\ Begin(e, Patch(n, None))

\* The opposite of what is shown, and nothing else.
ToggleRelay(e) == shown # None /\ Begin(e, Patch(None, ~shown.relay))

RemovePeer(e) ==
    \E p \in shownPeers : Begin(e, [does |-> "remove", peer |-> p, answer |-> None])

Given(x, otherwise) == IF x = None THEN otherwise ELSE x

\* PATCH /api/networks/:id writes the fields it is given and answers with the row.
ServePatch(e) ==
    /\ Waits(e, "patch")
    /\ network' = [name |-> Given(edits[e].name, network.name),
                   relay |-> Given(edits[e].relay, network.relay)]
    /\ SetEdit(e, [edits[e] EXCEPT !.answer = network'])
    /\ UNCHANGED <<peers, page, loads, changes, faults>>

\* DELETE /api/peers/:id
ServeRemove(e) ==
    /\ Waits(e, "remove")
    /\ peers' = peers \ {edits[e].peer}
    /\ SetEdit(e, [edits[e] EXCEPT !.answer = "ok"])
    /\ UNCHANGED <<network, page, loads, changes, faults>>

EndPatch(e) ==
    /\ Answered(e, "patch")
    /\ shown' = edits[e].answer
    /\ SetEdit(e, None)
    /\ UNCHANGED <<server, shownPeers, loads, changes, faults>>

\* After a removal the page is loaded.
EndRemove(e) ==
    /\ Answered(e, "remove")
    /\ SetEdit(e, None)
    /\ \E l \in Loads : Free(l) /\ SetLoad(l, Asked)
    /\ UNCHANGED <<server, page, changes, faults>>

\* Refused, or the answer is lost.
FailEdit(e) ==
    /\ edits[e] # None /\ Fault
    /\ SetEdit(e, None)
    /\ UNCHANGED <<server, page, loads, changes>>

-----------------------------------------------------------------------------
(* Other administrators, and agents that register or are reaped.           *)

OtherPatch ==
    /\ Change
    /\ \/ \E n \in Names : network' = [network EXCEPT !.name = n]
       \/ network' = [network EXCEPT !.relay = ~@]
    /\ UNCHANGED <<peers, page, loads, edits, faults>>

PeerComesOrGoes ==
    /\ Change
    /\ \E p \in Peers : peers' = IF p \in peers THEN peers \ {p} ELSE peers \union {p}
    /\ UNCHANGED <<network, page, loads, edits, faults>>

-----------------------------------------------------------------------------
Init ==
    /\ network \in [name : Names, relay : {TRUE}] /\ peers = {}
    /\ shown = None /\ shownPeers = {}
    /\ loads = [l \in Loads |-> None] /\ edits = [e \in Edits |-> None]
    /\ changes = 0 /\ faults = 0

Serve == \E e \in Edits : ServePatch(e) \/ ServeRemove(e)
EndEdit == \E e \in Edits : EndPatch(e) \/ EndRemove(e)

Next ==
    \/ \E l \in Loads : Load(l) \/ FailLoad(l)
    \/ \E e \in Edits : SaveName(e) \/ ToggleRelay(e) \/ RemovePeer(e) \/ FailEdit(e)
    \/ Serve \/ EndEdit
    \/ OtherPatch \/ PeerComesOrGoes

\* The timer goes on, and requests that do not fail are answered.
Spec == Init /\ [][Next]_vars
FairSpec ==
    /\ Spec
    /\ \A l \in Loads : WF_vars(Load(l))
    /\ WF_vars(Serve) /\ SF_vars(EndEdit)
-----------------------------------------------------------------------------
(* Properties.                                                             *)

\* In the end the page shows what the server has, whatever was overwritten by loads
\* and edits that ended out of order.
ShowsTheServer == <>[](shown = network /\ shownPeers = peers)
=============================================================================
