------------------------------ MODULE Session ------------------------------
(***************************************************************************)
(* Signing in to the dashboard (packages/frontend/src: useApi.ts, App.vue; *)
(* the server's part: requireAdmin of packages/server/src/api.ts).         *)
(*                                                                         *)
(* Two variables of the module useApi decide what every view does: the     *)
(* token that requests carry, and tokenValid, which shows the login screen *)
(* or the dashboard.  Requests are answered in any order.                  *)
(***************************************************************************)
EXTENDS FiniteSets, Naturals

CONSTANTS
    Tokens,       \* what may be typed in
    Admin,        \* the server's token, one of them
    MaxRequests,  \* bound: requests under way
    MaxFaults     \* bound: requests that get no answer

CONSTANT Empty    \* the token of somebody who is signed out
SessionConstants ==
    /\ Admin \in Tokens /\ Empty \notin Tokens
    /\ MaxRequests \in Nat \ {0} /\ MaxFaults \in Nat

VARIABLES
    token,       \* the requests' token
    tokenValid,  \* "unknown", "yes" or "no"
    stored,      \* the token in sessionStorage
    loggingIn,   \* the login form waits
    requests,    \* the requests under way: what for, and the token they carry
    faults

vars == <<token, tokenValid, stored, loggingIn, requests, faults>>

Request(kind, t) == [kind |-> kind, token |-> t]
Send(r) == requests' = requests \union {r}
Room == Cardinality(requests) < MaxRequests

\* The page is loaded (again): requests of the page before are dropped.
OpenPage ==
    /\ token' = stored /\ tokenValid' = "unknown" /\ loggingIn' = FALSE
    /\ requests' = IF stored = Empty THEN {} ELSE {Request("saved", stored)}
    /\ UNCHANGED <<stored, faults>>

\* A deviation: the token is kept before it is validated.
Login_StoredFirst(t) ==
    /\ tokenValid # "yes" /\ ~loggingIn /\ Room
    /\ loggingIn' = TRUE /\ token' = t /\ stored' = t
    /\ Send(Request("login", t))
    /\ UNCHANGED <<tokenValid, faults>>

\* login, and setToken up to its await
Login(t) ==
    /\ tokenValid # "yes" /\ ~loggingIn /\ Room
    /\ loggingIn' = TRUE /\ token' = t
    /\ Send(Request("login", t))
    /\ UNCHANGED <<tokenValid, stored, faults>>

\* logout: setToken('')
Logout ==
    /\ tokenValid = "yes"
    /\ token' = Empty /\ tokenValid' = "unknown" /\ stored' = Empty
    /\ UNCHANGED <<loggingIn, requests, faults>>

\* A view of the dashboard asks for something: now and then, and on every click.
Ask ==
    /\ tokenValid = "yes" /\ Room
    /\ Send(Request("view", token))
    /\ UNCHANGED <<token, tokenValid, stored, loggingIn, faults>>

\* A deviation: a refusal is shown like any other error.
Answered_RefusalIgnored(granted) ==
    /\ tokenValid' = IF granted THEN "yes" ELSE tokenValid
    /\ UNCHANGED <<stored, loggingIn>>

\* request: 401 means that the token is not valid, success that it is.
Answered(granted) ==
    /\ tokenValid' = IF granted THEN "yes" ELSE "no"
    /\ UNCHANGED <<stored, loggingIn>>

\* setToken after its await, whatever was done meanwhile
Validated(t, granted) ==
    /\ tokenValid' = IF granted THEN "yes" ELSE "no"
    /\ stored' = IF granted THEN t ELSE Empty
    /\ loggingIn' = FALSE

\* The saved token was checked on the first load.
SavedChecked(granted) ==
    /\ tokenValid' = IF granted THEN "yes" ELSE "no"
    /\ UNCHANGED <<stored, loggingIn>>

Answer(r) ==
    /\ r \in requests /\ requests' = requests \ {r}
    /\ LET granted == r.token = Admin
       IN  \/ r.kind = "view"  /\ Answered(granted)
           \/ r.kind = "login" /\ Validated(r.token, granted)
           \/ r.kind = "saved" /\ SavedChecked(granted)
    /\ UNCHANGED <<token, faults>>

\* The server is not reached: a validation counts as failed, a view shows an error.
NoAnswer(r) ==
    /\ faults < MaxFaults /\ faults' = faults + 1
    /\ r \in requests /\ requests' = requests \ {r}
    /\ \/ r.kind = "view"  /\ UNCHANGED <<tokenValid, stored, loggingIn>>
       \/ r.kind = "login" /\ Validated(r.token, FALSE)
       \/ r.kind = "saved" /\ SavedChecked(FALSE)
    /\ UNCHANGED token

Init ==
    /\ token = Empty /\ tokenValid = "unknown" /\ stored = Empty
    /\ loggingIn = FALSE /\ requests = {} /\ faults = 0

Next ==
    \/ OpenPage \/ Logout \/ Ask
    \/ \E t \in Tokens : Login(t)
    \/ \E r \in requests : Answer(r) \/ NoAnswer(r)

Requests == [kind : {"view", "login", "saved"}, token : Tokens \union {Empty}]

\* The views' timers ask again and again; every request comes to an end.
Spec == Init /\ [][Next]_vars
FairSpec == Spec /\ WF_vars(Ask) /\ \A r \in Requests : WF_vars(Answer(r))
-----------------------------------------------------------------------------
(* Properties.                                                             *)

\* What the browser keeps for the next load is a token that the server accepted,
\* whichever answers came late.
StoredIsAccepted == stored \in {Empty, Admin}

\* Who holds no accepted token is shown the login screen in the end, and stays
\* there, though answers to requests made before may still say otherwise.
LoginIsShown == <>[](token # Admin) => <>[](tokenValid # "yes")
=============================================================================
