----------------------------- MODULE MCClients -----------------------------
(* What administrators and scripts meet: signing in, the page of a         *)
(* network, the memo of a peer, and the server's limit on requests.  They  *)
(* share no variable of these models; each behaviour is one of one part,   *)
(* the others rest where they begin.                                       *)
EXTENDS Naturals

CONSTANTS
    Tokens, Admin, MaxRequests,         \* Session
    Names, Peers, Loads, Edits,         \* Dashboard
    MaxChanges,
    Memos, Posts,                       \* Memo
    Window, MaxServed, MaxAsked,        \* RateLimiter
    MaxFaults, None, Empty

VARIABLES
    part,  \* the part that moves
    token, tokenValid, stored, loggingIn, requests, unreached,
    network, peers, shown, shownPeers, loads, edits, changes, failed,
    memo, row, posts, flying, lone,
    count, left, asked, served

sessionVars == <<token, tokenValid, stored, loggingIn, requests, unreached>>
pageVars == <<network, peers, shown, shownPeers, loads, edits, changes, failed>>
memoVars == <<memo, row, posts, flying, lone>>
rateVars == <<count, left, asked, served>>
clientVars == <<part, sessionVars, pageVars, memoVars, rateVars>>

Signing == INSTANCE Session WITH faults <- unreached
Page == INSTANCE Dashboard WITH faults <- failed
Notes == INSTANCE Memo
Rate == INSTANCE RateLimiter

ASSUME SigningAssumption == Signing!SessionConstants
ASSUME PageAssumption == Page!DashboardConstants
ASSUME RateAssumption == Rate!RateConstants

ClientsInit ==
    /\ part \in {"session", "page", "memo", "rate"}
    /\ Signing!Init /\ Page!Init /\ Notes!Init /\ Rate!Init
    /\ network.name = CHOOSE n \in Names : TRUE  \* two names differ in nothing

ClientsNext ==
    \/ part = "session" /\ Signing!Next /\ UNCHANGED <<part, pageVars, memoVars, rateVars>>
    \/ part = "page" /\ Page!Next /\ UNCHANGED <<part, sessionVars, memoVars, rateVars>>
    \/ part = "memo" /\ Notes!Next /\ UNCHANGED <<part, sessionVars, pageVars, rateVars>>
    \/ part = "rate" /\ Rate!Next /\ UNCHANGED <<part, sessionVars, pageVars, memoVars>>

\* Each part's own fairness: see FairSpec of Session, Dashboard and RateLimiter.
ClientsSpec ==
    /\ ClientsInit /\ [][ClientsNext]_clientVars
    /\ WF_sessionVars(part = "session" /\ Signing!Ask)
    /\ \A r \in Signing!Requests : WF_sessionVars(part = "session" /\ Signing!Answer(r))
    /\ \A l \in Loads : WF_pageVars(part = "page" /\ Page!Load(l))
    /\ WF_pageVars(part = "page" /\ Page!Serve)
    /\ SF_pageVars(part = "page" /\ Page!EndEdit)
    /\ WF_rateVars(part = "rate" /\ Rate!Instant)
    /\ SF_rateVars(part = "rate" /\ Rate!Request)

\* The properties of the parts; see their modules.
StoredIsAccepted == Signing!StoredIsAccepted
LoginIsShown == Signing!LoginIsShown
ShowsTheServer == part = "page" => Page!ShowsTheServer
LonePostSyncs == Notes!LonePostSyncs
BurstIsBounded == Rate!BurstIsBounded
ServedAgain == part = "rate" => Rate!ServedAgain
=============================================================================
