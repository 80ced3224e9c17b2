--------------------------- MODULE ClientsProofs ---------------------------
(* Proofs about what administrators and scripts meet: signing in, the memo *)
(* of a peer, and the limit on requests.  The parts share no variable, so each has an         *)
(* invariant of its own; a step of one part leaves the others' variables,  *)
(* and so their invariants.                                                *)
EXTENDS MCClients, Integers, TLAPS

-----------------------------------------------------------------------------
(* Signing in.                                                             *)

\* An answer keeps a token only if the server granted it.
LEMMA StoredStep == StoredIsAccepted /\ [ClientsNext]_clientVars => StoredIsAccepted'
<1> SUFFICES ASSUME StoredIsAccepted, [ClientsNext]_clientVars PROVE StoredIsAccepted'
  OBVIOUS
<1>1. CASE stored' = stored
  BY <1>1 DEF StoredIsAccepted, Signing!StoredIsAccepted
<1>2. CASE stored' \in {Empty, Admin}
  BY <1>2 DEF StoredIsAccepted, Signing!StoredIsAccepted
<1>3. CASE Signing!Next
  <2>1. CASE Signing!OpenPage \/ Signing!Ask \/ \E t \in Tokens : Signing!Login(t)
    BY <1>1, <2>1 DEF Signing!OpenPage, Signing!Ask, Signing!Login
  <2>2. CASE Signing!Logout
    BY <1>2, <2>2 DEF Signing!Logout
  <2>3. ASSUME NEW r \in requests, Signing!Answer(r) PROVE StoredIsAccepted'
    <3>1. stored' = stored \/ stored' = (IF r.token = Admin THEN r.token ELSE Empty)
      BY <2>3 DEF Signing!Answer, Signing!Answered, Signing!Validated, Signing!SavedChecked
    <3> QED
      BY <1>1, <1>2, <3>1
  <2>4. ASSUME NEW r \in requests, Signing!NoAnswer(r) PROVE StoredIsAccepted'
    <3>1. stored' = stored \/ stored' = Empty
      BY <2>4 DEF Signing!NoAnswer, Signing!Validated, Signing!SavedChecked
    <3> QED
      BY <1>1, <1>2, <3>1
  <2> QED
    BY <1>3, <2>1, <2>2, <2>3, <2>4 DEF Signing!Next
<1>4. CASE UNCHANGED sessionVars
  BY <1>1, <1>4 DEF sessionVars
<1> QED
  BY <1>3, <1>4 DEF ClientsNext, clientVars

\* What the browser keeps for the next load is a token that the server accepted
\* (useApi.ts, setToken).
THEOREM OnlyAcceptedIsStored == ClientsSpec => []StoredIsAccepted
<1>1. ClientsInit => StoredIsAccepted
  BY DEF ClientsInit, Signing!Init, StoredIsAccepted, Signing!StoredIsAccepted
<1> QED
  BY <1>1, StoredStep, PTL DEF ClientsSpec

-----------------------------------------------------------------------------
(* The memo.                                                               *)

\* Only the post that came alone, if there is one, may still have its PATCH on the
\* way; the agent has its memo, and once it is stored so has the row.
MemoInv ==
    /\ posts \in [Posts -> [at : {"new", "sent", "stored", "refused", "ok", "failed"},
                            memo : Memos \union {Empty}]]
    /\ \A p \in flying : p \in Posts /\ posts[p].at \in {"sent", "failed"}
    /\ lone # None =>
          /\ lone \in Posts /\ flying \subseteq {lone}
          /\ memo = posts[lone].memo
          /\ posts[lone].at \in {"stored", "ok"} => row = posts[lone].memo

\* A step of the post p that leaves its memo.
LEMMA PostMoves ==
    ASSUME MemoInv, NEW p \in Posts, NEW at \in {"stored", "refused", "ok", "failed"},
           posts' = [posts EXCEPT ![p].at = at] \/ posts' = posts,
           flying' \subseteq flying, p \in flying' => posts'[p].at \in {"sent", "failed"},
           UNCHANGED <<memo, lone>>,
           lone # None /\ posts'[lone].at \in {"stored", "ok"} => row' = posts[lone].memo
    PROVE  MemoInv'
<1>1. /\ posts' \in [Posts -> [at : {"new", "sent", "stored", "refused", "ok", "failed"},
                               memo : Memos \union {Empty}]]
      /\ \A q \in Posts : posts'[q].memo = posts[q].memo /\ (q # p => posts'[q] = posts[q])
  BY DEF MemoInv
<1>2. \A q \in flying' : q \in Posts /\ posts'[q].at \in {"sent", "failed"}
  BY <1>1 DEF MemoInv
<1>3. lone' # None =>
          /\ lone' \in Posts /\ flying' \subseteq {lone'}
          /\ memo' = posts'[lone'].memo
          /\ posts'[lone'].at \in {"stored", "ok"} => row' = posts'[lone'].memo
  BY <1>1 DEF MemoInv
<1> QED
  BY <1>1, <1>2, <1>3 DEF MemoInv

LEMMA PostStep ==
    ASSUME MemoInv, NEW m \in Memos \union {Empty}, NEW p \in Posts, Notes!PostMemo(p, m)
    PROVE  MemoInv'
<1>1. /\ posts' = [posts EXCEPT ![p] = [at |-> "sent", memo |-> m]]
      /\ memo' = m /\ flying' = flying \union {p}
      /\ lone' = IF flying = {} THEN p ELSE None
  BY DEF Notes!PostMemo
<1>2. /\ posts' \in [Posts -> [at : {"new", "sent", "stored", "refused", "ok", "failed"},
                               memo : Memos \union {Empty}]]
      /\ posts'[p] = [at |-> "sent", memo |-> m]
      /\ \A q \in Posts : q # p => posts'[q] = posts[q]
  BY <1>1 DEF MemoInv
<1>3. \A q \in flying' : q \in Posts /\ posts'[q].at \in {"sent", "failed"}
  BY <1>1, <1>2 DEF MemoInv
<1> QED
  BY <1>1, <1>2, <1>3 DEF MemoInv

\* A restart ends the posts that were under way.
LEMMA BootStep ==
    ASSUME MemoInv, NEW flag \in Memos \union {Empty}, Notes!Boot(flag)
    PROVE  MemoInv'
<1>1. /\ flying' = flying /\ lone' = None
      /\ posts' = [p \in Posts |-> IF posts[p].at \in {"sent", "stored", "refused"}
                                   THEN [posts[p] EXCEPT !.at = "failed"] ELSE posts[p]]
  BY DEF Notes!Boot
<1>2. ASSUME NEW p \in Posts
      PROVE  /\ posts'[p] \in [at : {"new", "sent", "stored", "refused", "ok", "failed"},
                               memo : Memos \union {Empty}]
             /\ posts[p].at \in {"sent", "failed"} => posts'[p].at = "failed"
  BY <1>1 DEF MemoInv
<1>3. posts' \in [Posts -> [at : {"new", "sent", "stored", "refused", "ok", "failed"},
                            memo : Memos \union {Empty}]]
  BY <1>1, <1>2
<1> QED
  BY <1>1, <1>2, <1>3 DEF MemoInv

LEMMA MemoStep == MemoInv /\ [ClientsNext]_clientVars => MemoInv'
<1> SUFFICES ASSUME MemoInv, [ClientsNext]_clientVars PROVE MemoInv'
  OBVIOUS
<1>1. ASSUME NEW m \in Memos \union {Empty}, Notes!ServerUpdate(m) PROVE MemoInv'
  BY <1>1 DEF MemoInv, Notes!ServerUpdate
<1>2. ASSUME NEW p \in Posts, Notes!StoreMemo(p) PROVE MemoInv'
  <2>1. /\ p \in flying /\ flying' = flying \ {p} /\ row' = posts[p].memo
        /\ UNCHANGED <<memo, lone>>
        /\ posts' = [posts EXCEPT ![p].at = "stored"] \/ posts' = posts
    BY <1>2 DEF Notes!StoreMemo, Notes!Become
  <2>2. lone # None => lone = p
    BY <2>1 DEF MemoInv
  <2> QED
    BY <2>1, <2>2, PostMoves
<1>3. ASSUME NEW p \in Posts, Notes!RefuseMemo(p) PROVE MemoInv'
  <2>1. /\ p \in flying /\ flying' = flying \ {p} /\ UNCHANGED <<memo, row, lone>>
        /\ posts' = [posts EXCEPT ![p].at = "refused"] \/ posts' = posts
    BY <1>3 DEF Notes!RefuseMemo, Notes!Become
  <2>2. lone # None => lone = p /\ posts[p].at \in {"sent", "failed"}
    BY <2>1 DEF MemoInv
  <2>3. posts'[p].at \in {"refused", "sent", "failed"}
    BY <2>1 DEF MemoInv
  <2> QED
    BY <2>1, <2>2, <2>3, PostMoves
<1>4. ASSUME NEW p \in Posts, Notes!AnswerMemo(p) PROVE MemoInv'
  <2>1. /\ UNCHANGED <<memo, row, flying, lone>> /\ p \notin flying
        /\ \/ posts[p].at = "stored" /\ posts' = [posts EXCEPT ![p].at = "ok"]
           \/ posts[p].at = "refused" /\ posts' = [posts EXCEPT ![p].at = "failed"]
    BY <1>4 DEF Notes!AnswerMemo, Notes!Become, MemoInv
  <2>2. lone # None /\ posts'[lone].at \in {"stored", "ok"} => row' = posts[lone].memo
    BY <2>1 DEF MemoInv
  <2> QED
    BY <2>1, <2>2, PostMoves
<1>5. ASSUME NEW p \in Posts, Notes!TimeOut(p) PROVE MemoInv'
  <2>1. UNCHANGED <<memo, row, flying, lone>> /\ posts' = [posts EXCEPT ![p].at = "failed"]
    BY <1>5 DEF Notes!TimeOut, Notes!Become
  <2>2. posts'[p].at = "failed"
    BY <2>1 DEF MemoInv
  <2>3. lone # None /\ posts'[lone].at \in {"stored", "ok"} => row' = posts[lone].memo
    BY <2>1 DEF MemoInv
  <2> QED
    BY <2>1, <2>2, <2>3, PostMoves
<1>6. CASE UNCHANGED memoVars
  BY <1>6 DEF memoVars, MemoInv
<1> QED
  BY <1>1, <1>2, <1>3, <1>4, <1>5, <1>6, BootStep, PostStep DEF ClientsNext, clientVars, Notes!Next

\* A post that came alone and was answered with success leaves agent and server with
\* the same memo, whatever happened to the posts before it (observer.ts, POST /api/memo).
THEOREM LonePostsSync == ClientsSpec => []LonePostSyncs
<1>1. ClientsInit => MemoInv
  BY DEF ClientsInit, Notes!Init, MemoInv
<1>2. MemoInv => LonePostSyncs
  BY DEF MemoInv, LonePostSyncs, Notes!LonePostSyncs
<1> QED
  BY <1>1, <1>2, MemoStep, PTL DEF ClientsSpec

-----------------------------------------------------------------------------
(* The limit on requests.                                                  *)

\* How many were served in the window that is on.
Served == IF count < MaxServed THEN count ELSE MaxServed

\* When the window of the entry has passed, nothing was served since; while it is
\* on, it began Window - left instants ago, and what was served earlier is the
\* rest of a window before, or of none.
RateInv ==
    /\ served \in [1..Window -> Nat]
    /\ left \in -1..Window
    /\ left >= 0 => count \in 1..MaxServed + 2
    /\ left < 0 => served[1] = 0 /\ \A i \in 1..Window : served[i] <= MaxServed
    /\ left >= 0 => \A i \in 1..Window :
          served[i] <= IF i <= Window - left + 1 THEN Served ELSE MaxServed + Served

LEMMA RateBounds ==
    /\ Window \in Nat /\ Window > 0 /\ MaxServed \in Nat /\ MaxServed > 0
    /\ None \notin Nat
BY RateAssumption DEF Rate!RateConstants

LEMMA RateRequest == ASSUME RateInv, Rate!Request PROVE RateInv'
<1>1. /\ count' = Rate!Counted(IF Rate!Expired THEN 0 ELSE count)
      /\ left' = IF Rate!Expired THEN Window ELSE left
      /\ served' = IF count' > MaxServed THEN served ELSE [i \in 1..Window |-> served[i] + 1]
  BY DEF Rate!Request, Rate!ResetAt, Rate!Refused
<1>2. CASE left < 0
  <2>1. count' = 1 /\ left' = Window
    BY <1>1, <1>2, RateBounds DEF Rate!Counted, Rate!Expired
  <2>2. served' = [i \in 1..Window |-> served[i] + 1]
    BY <1>1, <2>1, RateBounds
  <2>3. Served' = 1
    BY <2>1, RateBounds DEF Served
  <2>4. /\ served \in [1..Window -> Nat] /\ served[1] = 0
        /\ \A i \in 1..Window : served[i] <= MaxServed
    BY <1>2 DEF RateInv
  <2>5. served' \in [1..Window -> Nat]
    BY <2>2, <2>4
  <2>6. ASSUME NEW i \in 1..Window
        PROVE  served'[i] <= IF i <= Window - left' + 1 THEN Served' ELSE MaxServed + Served'
    <3>1. served'[i] = served[i] + 1 /\ served[i] \in Nat
      BY <2>2, <2>4
    <3>2. Window - left' + 1 = 1
      BY <2>1, RateBounds
    <3>3. CASE i = 1
      BY <2>3, <2>4, <3>1, <3>2, <3>3
    <3>4. CASE i > 1
      BY <2>3, <2>4, <3>1, <3>2, <3>4, RateBounds
    <3> QED
      BY <3>3, <3>4
  <2>7. left' \in -1..Window /\ ~(left' < 0) /\ count' \in 1..MaxServed + 2
    BY <2>1, RateBounds
  <2> QED
    BY <2>5, <2>6, <2>7 DEF RateInv
<1>3. CASE left >= 0
  <2>1. /\ served \in [1..Window -> Nat] /\ left \in 0..Window /\ count \in 1..MaxServed + 2
        /\ \A i \in 1..Window :
              served[i] <= IF i <= Window - left + 1 THEN Served ELSE MaxServed + Served
    BY <1>3, RateBounds DEF RateInv
  <2>2. ~Rate!Expired
    BY <1>3, <2>1, RateBounds DEF Rate!Expired
  <2>3. left' = left /\ count' \in 1..MaxServed + 2
    BY <1>1, <2>1, <2>2, RateBounds DEF Rate!Counted
  <2>4. \/ served' = served /\ Served' = Served
        \/ served' = [i \in 1..Window |-> served[i] + 1] /\ Served' = Served + 1
    BY <1>1, <2>1, <2>2, RateBounds DEF Rate!Counted, Served
  <2>5. served' \in [1..Window -> Nat]
    BY <2>1, <2>4
  <2>6. ASSUME NEW i \in 1..Window
        PROVE  served'[i] <= IF i <= Window - left' + 1 THEN Served' ELSE MaxServed + Served'
    <3>1. Served \in Nat
      BY <2>1, RateBounds DEF Served
    <3>2. served[i] <= IF i <= Window - left' + 1 THEN Served ELSE MaxServed + Served
      BY <2>1, <2>3
    <3>3. served[i] \in Nat
      BY <2>1
    <3>4. \/ served'[i] = served[i] /\ Served' = Served
          \/ served'[i] = served[i] + 1 /\ Served' = Served + 1
      BY <2>4
    <3>5. CASE i <= Window - left' + 1
      BY <3>1, <3>2, <3>3, <3>4, <3>5
    <3>6. CASE ~(i <= Window - left' + 1)
      BY <3>1, <3>2, <3>3, <3>4, <3>6, RateBounds
    <3> QED
      BY <3>5, <3>6
  <2> QED
    BY <2>1, <2>3, <2>5, <2>6, RateBounds DEF RateInv
<1> QED
  BY <1>2, <1>3, RateBounds DEF RateInv

\* Time passes: what was served in i - 1 instants was served in i, now.
LEMMA RateInstant == ASSUME RateInv, Rate!Instant PROVE RateInv'
<1>1. /\ left' = IF left < 0 THEN left ELSE left - 1
      /\ served' = [i \in 1..Window |-> IF i = 1 THEN 0 ELSE served[i - 1]]
      /\ count' = count
  BY DEF Rate!Instant
<1>2. served \in [1..Window -> Nat] /\ left \in -1..Window
  BY DEF RateInv
<1>3. ASSUME NEW i \in 1..Window
      PROVE  \/ i = 1 /\ served'[i] = 0
             \/ i - 1 \in 1..Window /\ served'[i] = served[i - 1]
  BY <1>1, RateBounds
<1>4. served' \in [1..Window -> Nat]
  <2>1. \A i \in 1..Window : (IF i = 1 THEN 0 ELSE served[i - 1]) \in Nat
    BY <1>1, <1>2, <1>3
  <2> QED
    BY <1>1, <2>1
<1>5. 1 \in 1..Window
  BY RateBounds
<1>6. served'[1] = 0
  BY <1>1, <1>5
<1>7. CASE left < 0
  <2>1. left' < 0 /\ left' = left
    BY <1>1, <1>7
  <2>2. \A i \in 1..Window : served[i] <= MaxServed
    BY <1>7 DEF RateInv
  <2>3. \A i \in 1..Window : served'[i] <= MaxServed
    BY <1>3, <2>2, RateBounds
  <2> QED
    BY <1>2, <1>4, <1>6, <2>1, <2>3 DEF RateInv
<1>8. CASE left >= 0
  <2>1. /\ count \in 1..MaxServed + 2
        /\ \A i \in 1..Window :
              served[i] <= IF i <= Window - left + 1 THEN Served ELSE MaxServed + Served
    BY <1>8 DEF RateInv
  <2>2. left' = left - 1 /\ Served' = Served
    BY <1>1, <1>2, <1>8 DEF Served
  <2>3. Served \in Nat /\ Served <= MaxServed
    BY <2>1, RateBounds DEF Served
  <2>4. ASSUME NEW i \in 1..Window
        PROVE  served'[i] <= IF i <= Window - left' + 1 THEN Served' ELSE MaxServed + Served'
    <3>1. CASE i = 1 /\ served'[i] = 0
      BY <2>2, <2>3, <3>1, RateBounds
    <3>2. CASE i - 1 \in 1..Window /\ served'[i] = served[i - 1]
      <4>1. served[i - 1] <= IF i - 1 <= Window - left + 1 THEN Served ELSE MaxServed + Served
        BY <2>1, <3>2
      <4>2. i - 1 <= Window - left + 1 <=> i <= Window - left' + 1
        BY <1>2, <2>2, RateBounds
      <4> QED
        BY <2>2, <3>2, <4>1, <4>2
    <3> QED
      BY <1>3, <3>1, <3>2
  <2>5. ASSUME left' < 0, NEW i \in 1..Window PROVE served'[i] <= MaxServed
    <3>1. left' = -1
      BY <1>2, <1>8, <2>2, <2>5
    <3>2. i <= Window - left' + 1
      BY <3>1, RateBounds
    <3>3. served'[i] <= Served
      BY <2>2, <2>4, <3>2
    <3> QED
      BY <1>4, <2>3, <3>3, RateBounds
  <2>6. left' \in -1..Window
    BY <1>2, <1>8, <2>2, RateBounds
  <2> QED
    BY <1>1, <1>4, <1>6, <2>1, <2>4, <2>5, <2>6 DEF RateInv
<1> QED
  BY <1>2, <1>7, <1>8

LEMMA RateStep == RateInv /\ [ClientsNext]_clientVars => RateInv'
<1> SUFFICES ASSUME RateInv, [ClientsNext]_clientVars PROVE RateInv'
  OBVIOUS
<1>1. CASE Rate!CleanUp
  BY <1>1 DEF Rate!CleanUp, RateInv
<1>2. CASE UNCHANGED rateVars
  BY <1>2 DEF rateVars, RateInv, Served
<1> QED
  BY <1>1, <1>2, RateRequest, RateInstant DEF ClientsNext, clientVars, Rate!Next

\* In any window's length no more than twice the limit is served, whenever the
\* windows of the entry began (index.ts, checkRateLimit).
THEOREM BurstsAreBounded == ClientsSpec => []BurstIsBounded
<1>1. ClientsInit => RateInv
  BY RateBounds DEF ClientsInit, Rate!Init, RateInv
<1>2. RateInv => BurstIsBounded
  <2> SUFFICES ASSUME RateInv PROVE served[Window] <= 2 * MaxServed
    BY DEF BurstIsBounded, Rate!BurstIsBounded
  <2>1. Window \in 1..Window /\ served[Window] \in Nat
    BY RateBounds DEF RateInv
  <2>2. CASE left < 0
    BY <2>1, <2>2, RateBounds DEF RateInv
  <2>3. CASE left >= 0
    <3>1. Served \in Nat /\ Served <= MaxServed
      BY <2>3, RateBounds DEF RateInv, Served
    <3>2. served[Window] <= Served \/ served[Window] <= MaxServed + Served
      BY <2>1, <2>3 DEF RateInv
    <3> QED
      BY <2>1, <3>1, <3>2, RateBounds
  <2> QED
    BY <2>2, <2>3, RateBounds DEF RateInv
<1> QED
  BY <1>1, <1>2, RateStep, PTL DEF ClientsSpec

=============================================================================
