-------------------------------- MODULE Memo --------------------------------
(***************************************************************************)
(* The memo of a peer, which lives twice: in the agent's observer          *)
(* (packages/agent/src: observer.ts, config.memo; index.ts, onMemoUpdate)  *)
(* and in the server's row (packages/server/src/api.ts).                   *)
(*                                                                         *)
(* The observer takes posts at any time.  It sets its memo at once and     *)
(* waits for the answer to its PATCH, for 15 s at most: a PATCH that was   *)
(* given up may still reach the server, in any order with the others.      *)
(***************************************************************************)
EXTENDS Naturals

CONSTANTS
    Memos,  \* what it may be set to
    Empty,  \* the memo of an agent that was started without one
    Posts,  \* bound: the POST /api/memo requests, or PATCHes, under way at once
    None

VARIABLES
    memo,    \* config.memo
    row,     \* the memo in the row of the peer
    posts,   \* each post: how far it is, and its memo
    flying,  \* the posts whose PATCH the server may still get
    lone     \* history: the last post, if no other PATCH was on its way when it came

vars == <<memo, row, posts, flying, lone>>

Become(p, at) == posts' = [posts EXCEPT ![p].at = at]

\* POST /api/memo up to its await.
PostMemo(p, m) ==
    /\ posts[p].at \in {"new", "ok", "failed"} /\ p \notin flying
    /\ posts' = [posts EXCEPT ![p] = [at |-> "sent", memo |-> m]]
    /\ memo' = m
    /\ flying' = flying \union {p}
    /\ lone' = IF flying = {} THEN p ELSE None
    /\ UNCHANGED row

\* A deviation: an empty memo counts as one that is not given.
StoreMemo_EmptyIgnored(p) ==
    /\ p \in flying /\ flying' = flying \ {p}
    /\ row' = IF posts[p].memo = Empty THEN row ELSE posts[p].memo
    /\ IF posts[p].at = "sent" THEN Become(p, "stored") ELSE UNCHANGED posts
    /\ UNCHANGED <<memo, lone>>

\* PATCH /api/peers/:id
StoreMemo(p) ==
    /\ p \in flying /\ flying' = flying \ {p}
    /\ row' = posts[p].memo
    /\ IF posts[p].at = "sent" THEN Become(p, "stored") ELSE UNCHANGED posts
    /\ UNCHANGED <<memo, lone>>

\* The server refuses the memo, which may be too long, or never gets the PATCH.
RefuseMemo(p) ==
    /\ p \in flying /\ flying' = flying \ {p}
    /\ IF posts[p].at = "sent" THEN Become(p, "refused") ELSE UNCHANGED posts
    /\ UNCHANGED <<memo, row, lone>>

AnswerMemo(p) ==
    /\ \/ posts[p].at = "stored" /\ Become(p, "ok")
       \/ posts[p].at = "refused" /\ Become(p, "failed")
    /\ UNCHANGED <<memo, row, flying, lone>>

\* No answer in time: the post is answered with an error.
TimeOut(p) ==
    /\ posts[p].at \in {"sent", "stored", "refused"}
    /\ Become(p, "failed")
    /\ UNCHANGED <<memo, row, flying, lone>>

\* The agent starts again with a memo, or without; only the former goes to the
\* server, and the posts are never answered.
Boot(flag) ==
    /\ memo' = flag
    /\ row' = IF flag = Empty THEN row ELSE flag
    /\ posts' = [p \in Posts |-> IF posts[p].at \in {"sent", "stored", "refused"}
                                 THEN [posts[p] EXCEPT !.at = "failed"] ELSE posts[p]]
    /\ lone' = None
    /\ UNCHANGED flying

\* "It can also be set directly via the server API": the agent is not told.
ServerUpdate(m) ==
    /\ row' = m
    /\ lone' = None
    /\ UNCHANGED <<memo, posts, flying>>

Init ==
    /\ memo = Empty /\ row = Empty
    /\ posts = [p \in Posts |-> [at |-> "new", memo |-> Empty]]
    /\ flying = {} /\ lone = None

Next ==
    \/ \E m \in Memos \union {Empty} : Boot(m) \/ ServerUpdate(m) \/ \E p \in Posts : PostMemo(p, m)
    \/ \E p \in Posts : StoreMemo(p) \/ RefuseMemo(p) \/ AnswerMemo(p) \/ TimeOut(p)

Spec == Init /\ [][Next]_vars
-----------------------------------------------------------------------------
(* Properties.                                                             *)

\* A post that came when no PATCH of another one was on its way, and that was answered
\* with success, leaves agent and server with the same memo, until the next post,
\* restart or change by the server's API and whatever overlapped, failed, timed out
\* or was stored late before it (observer.ts, POST /api/memo; README.md:316, "syncs
\* to control plane").
LonePostSyncs == lone # None /\ posts[lone].at = "ok" => memo = row
=============================================================================
