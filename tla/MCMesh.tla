------------------------------- MODULE MCMesh -------------------------------
(* The mesh for TLC.                                                       *)
EXTENDS Mesh

\* What the last step pushed decides nothing, and no property of these runs
\* is about it.
View == <<sockets, connected, peers, relayEnabled, links, pairHealthMap,
          activeNegotiations, timers, network, agents, faults>>

\* A bound on the reports: an agent reports a path alive only when the server
\* could count no more dead reports of it, and one report is under way in the
\* whole mesh at a time.
ReportsOf(queue) == SelectSeq(queue, LAMBDA m : m.type = "health-report")
FewReports ==
    \A p \in Peers : Len(ReportsOf(up'[p])) > Len(ReportsOf(up[p])) =>
        /\ \A r \in Peers : up[r] = <<>>
        /\ \A q \in Others(p) :
              "alive" \in {m.reports[q] : m \in {m \in Range(up'[p]) : q \in DOMAIN m.reports}}
                  => DeadReports(p, q) >= MaxStreak

\* tick's safety net is left out.
SafetyNetUnused ==
    frozenPeers' = frozenPeers \/ <<network, tasks>>' # <<network, tasks>>

FewReportsNext == MeshNext /\ FewReports

NoSafetyNetNext == FewReportsNext /\ SafetyNetUnused
NoSafetyNetSpec == MeshInit /\ [][NoSafetyNetNext]_meshVars
FairNoSafetyNetSpec == NoSafetyNetSpec /\ MeshFairness

\* The agents go on reporting; the bound on the reports makes them wait for each
\* other, hence strong fairness.
Monitored ==
    /\ \A p \in Peers : SF_meshVars(SendReport(p) /\ FewReports)
    /\ \A k \in Keys : WF_meshVars(ServerSweep({k}))
MonitoredSpec == MeshInit /\ [][FewReportsNext]_meshVars /\ MeshFairness /\ Monitored

\* Without the administrator: what fails is a socket or an agent.
UnforcedNext ==
    /\ \/ Connection
       \/ Server
       \/ \E p \in Peers : Agent(p)
    /\ FewReports /\ SafetyNetUnused
UnforcedSpec == MeshInit /\ [][UnforcedNext]_meshVars /\ MeshFairness /\ Monitored
=============================================================================
