------------------------ MODULE NegotiatorImplements ------------------------
(***************************************************************************)
(* The server's failover keeps the promise of PairFailover: a peer is      *)
(* present when the registry has it, a pair is in the phase of its         *)
(* negotiation's type, and of what is pushed, verdicts and aborts tell an  *)
(* outcome.                                                                *)
(***************************************************************************)
EXTENDS Negotiator

PhaseOf(k) ==
    IF k \in DOMAIN activeNegotiations THEN activeNegotiations[k].type ELSE "idle"

Verdicts == {"probe-verdict", "negotiate-abort"}
Outcome(m) == IF m.type = "negotiate-abort" THEN "abort" ELSE m.arg
OutcomesIn(mail) ==
    {<<e[1], PairKey(e[1], e[2].with), Outcome(e[2])>> :
        e \in {e \in mail : e[2].type \in Verdicts}}

Failover == INSTANCE PairFailover
            WITH present <- connected,
                 phase <- [k \in Keys |-> PhaseOf(k)],
                 told <- OutcomesIn(sent)

\* One probe of a pair at a time, one outcome of it, the same for both peers and
\* one its kind allows, told in the step that ends it (finishNegotiation,
\* abortNegotiation and the verdicts of handleProbe...Result and the timeouts).
ImplementsPairFailover == Failover!Spec
=============================================================================
