---------------------------- MODULE MCReconciler ----------------------------
(* One agent's polls for TLC.                                              *)
EXTENDS Reconciler, TLC

\* Two polls differ in nothing.
SamePolls == Permutations(Polls)

\* A change and a failure meet where two peers are members at a time, who may be
\* followed by a third; where the agent is stopped, which two peers at most see,
\* there is one of the two, before or after.
FewMembers ==
    /\ changes + failures > 1 => Cardinality(roster) <= 2
    /\ crashes > 0 => Cardinality(Peers \ fresh) <= 2 /\ changes + failures <= 1
=============================================================================
