---------------------------- MODULE PairFailover ----------------------------
(***************************************************************************)
(* What the server's failover promises the agents, with nothing of how:    *)
(* reports, streaks, timeouts, readiness and results are left out.         *)
(*                                                                         *)
(* A pair of peers is probed for one thing at a time, and only while both  *)
(* are present.  A probe ends with one outcome, which its kind allows, and *)
(* in the step that ends it everybody of the pair who is still present is  *)
(* told that outcome and no other.  Nobody is told an outcome of a pair    *)
(* that was not being probed.                                              *)
(***************************************************************************)
EXTENDS Naturals

CONSTANT Peers

VARIABLES
    present, \* the peers that can be told anything
    phase,   \* what each pair is probed for
    told     \* what the last step told: <<peer, pair, outcome>>

vars == <<present, phase, told>>

Keys == {k \in Peers \X Peers : k[1] < k[2]}
Members(k) == {k[1], k[2]}

Outcomes(probe) ==
    CASE probe = "relay-probe" -> {"switch-relay", "stay", "abort"}
      [] probe = "direct-probe" -> {"switch-direct", "stay", "abort"}

Probed == {k \in Keys : phase[k] # "idle"}
ProbedWith(P) == {k \in Probed : Members(k) \cap P # {}}
Told(k, outcome) == {<<p, k, outcome>> : p \in Members(k)}

\* The pairs of `ended' become idle, then those of `begun' are probed.
Phases(ended, begun, probe) ==
    phase' = [k \in Keys |-> IF k \in begun THEN probe
                             ELSE IF k \in ended THEN "idle" ELSE phase[k]]

Arrive(p) ==
    /\ present' = present \cup {p}
    /\ told' = {}
    /\ UNCHANGED phase

\* A peer that goes ends its probes; the others of those pairs are told.
Depart(p) ==
    /\ present' = present \ {p}
    /\ Phases(ProbedWith({p}), {}, "idle")
    /\ told' = {t \in UNION {Told(k, "abort") : k \in ProbedWith({p})} : t[1] # p}

\* Relay probes begin; for no pair, it is a step that concerns nobody.
BeginRelayProbes(begun) ==
    /\ begun \cap Probed = {}
    /\ \A k \in begun : Members(k) \subseteq present
    /\ Phases({}, begun, "relay-probe")
    /\ told' = {}
    /\ UNCHANGED present

\* Probes that take too long are aborted, and direct probes begin.
Sweep(stale, due) ==
    /\ stale \subseteq Probed
    /\ due \cap (Probed \ stale) = {}
    /\ \A k \in due : Members(k) \subseteq present
    /\ Phases(stale, due, "direct-probe")
    /\ told' = UNION {Told(k, "abort") : k \in stale}
    /\ UNCHANGED present

Conclude(k, outcome) ==
    /\ k \in Probed /\ outcome \in Outcomes(phase[k])
    /\ Phases({k}, {}, "idle")
    /\ told' = Told(k, outcome)
    /\ UNCHANGED present

\* The peers of `removed' are of the mesh no more: one peer of each of their
\* probes is told, the one that stays if there is one.
Remove(removed, survivor) ==
    /\ \A k \in ProbedWith(removed) :
          /\ survivor[k] \in Members(k)
          /\ survivor[k] \in removed => Members(k) \subseteq removed
    /\ Phases(ProbedWith(removed), {}, "idle")
    /\ told' = {<<survivor[k], k, "abort">> : k \in ProbedWith(removed)}
    /\ UNCHANGED present

\* Everything is forgotten, and nobody is told.
Restart ==
    /\ present' = {}
    /\ phase' = [k \in Keys |-> "idle"]
    /\ told' = {}

Init ==
    /\ present = {}
    /\ phase = [k \in Keys |-> "idle"]
    /\ told = {}

Next ==
    \/ \E p \in Peers : Arrive(p) \/ Depart(p)
    \/ \E begun \in SUBSET Keys : BeginRelayProbes(begun)
    \/ \E stale \in SUBSET Probed, due \in SUBSET Keys : Sweep(stale, due)
    \/ \E k \in Probed : \E outcome \in Outcomes(phase[k]) : Conclude(k, outcome)
    \/ \E removed \in SUBSET Peers :
          \E survivor \in [ProbedWith(removed) -> Peers] : Remove(removed, survivor)
    \/ Restart

Spec == Init /\ [][Next]_vars
=============================================================================
