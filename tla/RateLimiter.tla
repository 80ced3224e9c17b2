---------------------------- MODULE RateLimiter ----------------------------
(***************************************************************************)
(* The server's limit on the requests of one IP address, in fixed windows  *)
(* (packages/server/src/index.ts, checkRateLimit).  Addresses do not share *)
(* anything.  Time is counted in instants; the agents behind the address   *)
(* go on asking, served or not.                                            *)
(***************************************************************************)
EXTENDS Integers

CONSTANTS
    Window,     \* RATE_WINDOW_MS, in instants
    MaxServed,  \* RATE_MAX_REQUESTS
    MaxAsked    \* bound: requests in one instant

CONSTANT None

RateConstants == None \notin Nat /\ {Window, MaxServed, MaxAsked} \subseteq Nat \ {0}

VARIABLES
    count,   \* the entry's count, or None when rateMap has no entry; what exceeds
             \* the limit by more than two is counted as two
    left,    \* the instants until its resetAt, -1 when that has passed
    asked,   \* the requests of this instant
    served   \* how many were served in the last i instants, this one included

vars == <<count, left, asked, served>>

Expired == count = None \/ left < 0

\* A deviation: a request that is refused starts the window again.
ResetAt_Sliding(fresh) == left' = Window

\* The window ends where it did, unless it is a new one.
ResetAt(fresh) == left' = IF fresh THEN Window ELSE left

\* A deviation: the limit is compared with the count before this request.
Refused_CheckedBefore(n) == n - 1 > MaxServed

Refused(n) == n > MaxServed

Counted(before) == IF before > MaxServed + 1 THEN before ELSE before + 1

Request ==
    /\ asked < MaxAsked /\ asked' = asked + 1
    /\ count' = Counted(IF Expired THEN 0 ELSE count)
    /\ ResetAt(Expired)
    /\ served' = IF Refused(count') THEN served
                 ELSE [i \in 1..Window |-> served[i] + 1]

Instant ==
    /\ left' = IF left < 0 THEN left ELSE left - 1
    /\ asked' = 0
    /\ served' = [i \in 1..Window |-> IF i = 1 THEN 0 ELSE served[i - 1]]
    /\ UNCHANGED count

\* The clean-up timer.
CleanUp ==
    /\ count # None /\ left < 0
    /\ count' = None
    /\ UNCHANGED <<left, asked, served>>

Init ==
    /\ count = None /\ left = 0 - 1 /\ asked = 0
    /\ served = [i \in 1..Window |-> 0]

Next == Request \/ Instant \/ CleanUp

\* Time passes, and the agents ask at some instant again.
Spec == Init /\ [][Next]_vars
FairSpec == Spec /\ WF_vars(Instant) /\ SF_vars(Request)
-----------------------------------------------------------------------------
(* Properties.                                                             *)

\* In any 60 s no more than twice the limit is served: windows begin when they are
\* used, so that the end of one and all of the next may fall together.
BurstIsBounded == served[Window] <= 2 * MaxServed

\* Agents that ask on and on, though they were refused, are served again: a refusal
\* does not put off the end of the window.
ServedAgain == []<>(served[1] > 0)
=============================================================================
