-------------------------- MODULE SelfUpdateProofs --------------------------
(* Proofs about the replacement of the agent's binary: that what is left   *)
(* starts again, as long as updates are under way one at a time, and that  *)
(* the process exits for one that is in place, however many there are.     *)
EXTENDS MCHost, TLAPS

\* What MCHost assumes of the names of files.
LEMMA Named == None # "missing" /\ {None, "missing"} \intersect Updates = {}
BY UpdateAssumption DEF Update!SelfUpdateConstants

Stages == {"new", "fetch", "write", "chmod", "rename", "exit", "failed", "over"}

\* The file that an update fills is the one the path names; it is never the binary,
\* and it is complete before it becomes that.
UpdateInv(u) ==
    /\ at[u] \in {"new", "fetch"} => u \notin {binPath, tmpPath}
    /\ at[u] \in {"write", "chmod", "rename"} => tmpPath = file[u] /\ tmpPath # "missing"
    /\ at[u] \in {"chmod", "rename"} => file[u] \in whole
    /\ at[u] = "rename" => file[u] \in executable

BinaryInv ==
    /\ at \in [Updates -> Stages] /\ file \in [Updates -> Updates \union {None}]
    /\ tmpPath \in Updates \union {"missing"} /\ binPath \in Updates \union {None}
    /\ tmpPath # binPath
    /\ binPath \in whole \intersect executable
    /\ \A u \in Updates : UpdateInv(u)

\* An update that is not under way stays so while another one takes a step.
LEMMA StepOfOne ==
    ASSUME BinaryInv, Update!OneByOne, Update!OneByOne',
           NEW u \in Updates, NEW m \in Stages, Update!Goto(u, m),
           Update!Under(u) \/ m \notin {"new", "over"}
    PROVE  /\ at' \in [Updates -> Stages] /\ at'[u] = m
           /\ \A v \in Updates \ {u} : ~Update!Under(v) /\ at'[v] = at[v]
<1>1. at' = [at EXCEPT ![u] = m] /\ at \in [Updates -> Stages]
  BY DEF Update!Goto, BinaryInv
<1>2. at' \in [Updates -> Stages] /\ at'[u] = m /\ \A v \in Updates \ {u} : at'[v] = at[v]
  BY <1>1
<1>3. ASSUME NEW v \in Updates \ {u} PROVE ~Update!Under(v)
  <2>1. CASE Update!Under(u)
    BY <2>1 DEF Update!OneByOne
  <2>2. CASE m \notin {"new", "over"}
    BY <1>2, <2>2 DEF Update!OneByOne, Update!Under
  <2> QED
    BY <2>1, <2>2
<1> QED
  BY <1>2, <1>3

LEMMA StopStep == ASSUME BinaryInv, Update!Stop PROVE BinaryInv'
<1>1. /\ at \in [Updates -> Stages]
      /\ at' = [u \in Updates |-> IF Update!Under(u) THEN "over" ELSE at[u]]
      /\ UNCHANGED <<binPath, tmpPath, whole, executable, file>>
  BY DEF Update!Stop, BinaryInv
<1>2. at' \in [Updates -> Stages] /\ \A u \in Updates : at'[u] \in {"new", "over"}
                                                    /\ (at'[u] = "new" => at[u] = "new")
  BY <1>1 DEF Update!Under, Stages
<1>3. ASSUME NEW u \in Updates PROVE UpdateInv(u)'
  BY <1>1, <1>2 DEF UpdateInv, Update!Under, BinaryInv
<1> QED
  BY <1>1, <1>2, <1>3 DEF BinaryInv

LEMMA BinaryStep ==
    ASSUME Update!OneByOne, Update!OneByOne', BinaryInv, [HostNext]_hostVars
    PROVE  BinaryInv'
<1>1. ASSUME NEW u \in Updates,
             Update!Push(u) \/ Update!FetchFails(u) \/ Update!WriteFails(u) \/ Update!PathMissing(u)
      PROVE  BinaryInv'
  <2>1. PICK m \in {"fetch", "failed"} :
           Update!Goto(u, m) /\ UNCHANGED <<binPath, tmpPath, whole, executable, file>>
                      /\ (m = "fetch" => at[u] = "new")
    BY <1>1 DEF Update!Push, Update!FetchFails, Update!WriteFails, Update!PathMissing, Update!Step
  <2>2. /\ at' \in [Updates -> Stages] /\ at'[u] = m
        /\ \A v \in Updates \ {u} : ~Update!Under(v) /\ at'[v] = at[v]
    BY <2>1, StepOfOne DEF Stages
  <2>3. ASSUME NEW v \in Updates PROVE UpdateInv(v)'
    BY <2>1, <2>2 DEF UpdateInv, BinaryInv
  <2> QED
    BY <2>1, <2>2, <2>3 DEF BinaryInv
<1>2. ASSUME NEW u \in Updates, Update!BeginWrite(u) PROVE BinaryInv'
  <2>1. /\ at[u] = "fetch" /\ Update!Under(u) /\ Update!Goto(u, "write")
        /\ tmpPath' = IF tmpPath = "missing" THEN u ELSE tmpPath
        /\ whole' = whole \ {tmpPath'}
        /\ file' = [file EXCEPT ![u] = tmpPath']
        /\ UNCHANGED <<binPath, executable>>
    BY <1>2 DEF Update!BeginWrite, Update!Step, Update!Under
  <2>2. /\ at' \in [Updates -> Stages] /\ at'[u] = "write"
        /\ \A v \in Updates \ {u} : ~Update!Under(v) /\ at'[v] = at[v]
    BY <2>1, StepOfOne DEF Stages
  <2>3. u \notin {binPath, tmpPath}
    BY <2>1 DEF BinaryInv, UpdateInv
  <2>4. tmpPath' \in Updates /\ tmpPath' # "missing" /\ tmpPath' # binPath'
    BY <2>1, <2>3, Named DEF BinaryInv
  <2>5. file' \in [Updates -> Updates \union {None}] /\ file'[u] = tmpPath'
    BY <2>1, <2>4 DEF BinaryInv
  <2>6. ASSUME NEW v \in Updates PROVE UpdateInv(v)'
    BY <2>1, <2>2, <2>4, <2>5 DEF UpdateInv, BinaryInv, Update!Under
  <2> QED
    BY <2>1, <2>2, <2>4, <2>5, <2>6 DEF BinaryInv
<1>3. ASSUME NEW u \in Updates, Update!EndWrite(u) PROVE BinaryInv'
  <2>1. /\ at[u] = "write" /\ Update!Under(u) /\ Update!Goto(u, "chmod")
        /\ UNCHANGED <<binPath, tmpPath, executable, file>>
    BY <1>3 DEF Update!EndWrite, Update!Step, Update!Under
  <2>2. /\ at' \in [Updates -> Stages] /\ at'[u] = "chmod"
        /\ \A v \in Updates \ {u} : ~Update!Under(v) /\ at'[v] = at[v]
    BY <2>1, StepOfOne DEF Stages
  <2>3. whole' = whole \union {file[u]}
    BY <1>3, <2>2 DEF Update!EndWrite, Update!Under
  <2>4. ASSUME NEW v \in Updates PROVE UpdateInv(v)'
    BY <2>1, <2>2, <2>3 DEF UpdateInv, BinaryInv, Update!Under
  <2> QED
    BY <2>1, <2>2, <2>3, <2>4 DEF BinaryInv
<1>4. ASSUME NEW u \in Updates, Update!Chmod(u) PROVE BinaryInv'
  <2>1. /\ at[u] = "chmod" /\ Update!Under(u) /\ Update!Goto(u, "rename")
        /\ executable' = executable \union {tmpPath}
        /\ UNCHANGED <<binPath, tmpPath, whole, file>>
    BY <1>4 DEF Update!Chmod, Update!Step, Update!Under
  <2>2. /\ at' \in [Updates -> Stages] /\ at'[u] = "rename"
        /\ \A v \in Updates \ {u} : ~Update!Under(v) /\ at'[v] = at[v]
    BY <2>1, StepOfOne DEF Stages
  <2>3. ASSUME NEW v \in Updates PROVE UpdateInv(v)'
    BY <2>1, <2>2 DEF UpdateInv, BinaryInv, Update!Under
  <2> QED
    BY <2>1, <2>2, <2>3 DEF BinaryInv
<1>5. ASSUME NEW u \in Updates, Update!Rename(u) PROVE BinaryInv'
  <2>1. /\ at[u] = "rename" /\ Update!Under(u) /\ Update!Goto(u, "exit")
        /\ binPath' = tmpPath /\ tmpPath' = "missing"
        /\ UNCHANGED <<whole, executable, file>>
    BY <1>5 DEF Update!Rename, Update!Step, Update!Under
  <2>2. /\ at' \in [Updates -> Stages] /\ at'[u] = "exit"
        /\ \A v \in Updates \ {u} : ~Update!Under(v) /\ at'[v] = at[v]
    BY <2>1, StepOfOne DEF Stages
  <2>3. binPath' \in whole' \intersect executable' /\ binPath' \in Updates
    BY <2>1 DEF BinaryInv, UpdateInv
  <2>4. ASSUME NEW v \in Updates PROVE UpdateInv(v)'
    BY <2>1, <2>2, Named DEF UpdateInv, BinaryInv, Update!Under
  <2> QED
    BY <2>1, <2>2, <2>3, <2>4, Named DEF BinaryInv
<1>6. ASSUME NEW u \in Updates, Update!Unlink(u) PROVE BinaryInv'
  <2>1. /\ at[u] = "failed" /\ Update!Under(u) /\ Update!Goto(u, "over")
        /\ tmpPath' = "missing"
        /\ UNCHANGED <<binPath, whole, executable, file>>
    BY <1>6 DEF Update!Unlink, Update!Step, Update!Under
  <2>2. /\ at' \in [Updates -> Stages] /\ at'[u] = "over"
        /\ \A v \in Updates \ {u} : ~Update!Under(v) /\ at'[v] = at[v]
    BY <2>1, StepOfOne DEF Stages
  <2>3. ASSUME NEW v \in Updates PROVE UpdateInv(v)'
    BY <2>1, <2>2, Named DEF UpdateInv, BinaryInv, Update!Under
  <2> QED
    BY <2>1, <2>2, <2>3, Named DEF BinaryInv
<1>7. ASSUME NEW u \in Updates, Update!Exit(u) PROVE BinaryInv'
  BY <1>7, StopStep DEF Update!Exit
<1>8. CASE Update!Crash
  BY <1>8, StopStep DEF Update!Crash
<1>9. CASE UNCHANGED <<binPath, tmpPath, whole, executable, file, at>>
  BY <1>9 DEF BinaryInv, UpdateInv, Update!Under
<1> QED
  BY <1>1, <1>2, <1>3, <1>4, <1>5, <1>6, <1>7, <1>8, <1>9
  DEF HostNext, hostVars, updateVars, Update!Next, Update!Start

\* An agent whose updates are under way one at a time can be started again wherever
\* it was killed and whatever failed (selfUpdate).
THEOREM BinaryAlwaysStarts == HostSpec => BinaryStarts
<1>1. HostInit => BinaryInv
  BY Named DEF HostInit, Update!Init, BinaryInv, UpdateInv, Update!Under, Stages
<1>2. BinaryInv => (~running => binPath \in whole \intersect executable)
  BY DEF BinaryInv
<1>3. Update!OneByOne /\ Update!OneByOne' /\ BinaryInv /\ [HostNext]_hostVars => BinaryInv'
  BY BinaryStep
<1> QED
  BY <1>1, <1>2, <1>3, PTL DEF HostSpec, BinaryStarts, Update!BinaryStarts

-----------------------------------------------------------------------------
(* Updates beside each other.                                              *)

\* An update that is to exit has put one in place, itself; nothing puts the file of
\* the package back.
ExitInv ==
    /\ at \in [Updates -> Stages]
    /\ tmpPath \in Updates \union {"missing"}
    /\ \A u \in Updates : at[u] = "exit" => binPath # None

\* One update goes to a stage before the exit, and the binary stays.
LEMMA MovesBeforeExit ==
    ASSUME ExitInv, NEW u \in Updates, NEW m \in Stages \ {"exit"}, Update!Goto(u, m),
           binPath' = binPath, tmpPath' \in Updates \union {"missing"}
    PROVE  ExitInv'
BY DEF ExitInv, Update!Goto

LEMMA ExitStep == ASSUME ExitInv, [HostNext]_hostVars PROVE ExitInv'
<1> USE DEF Stages
<1>1. tmpPath \in Updates \union {"missing"}
  BY DEF ExitInv
<1>2. ASSUME NEW u \in Updates,
             \/ Update!Push(u) \/ Update!FetchFails(u) \/ Update!WriteFails(u) \/ Update!EndWrite(u)
             \/ Update!Chmod(u) \/ Update!PathMissing(u)
      PROVE  ExitInv'
  <2>1. PICK m \in Stages \ {"exit"} : Update!Goto(u, m)
    BY <1>2 DEF Update!Push, Update!FetchFails, Update!WriteFails,
           Update!EndWrite, Update!Chmod, Update!PathMissing, Update!Step
  <2>2. UNCHANGED <<binPath, tmpPath>>
    BY <1>2 DEF Update!Push, Update!FetchFails, Update!WriteFails,
           Update!EndWrite, Update!Chmod, Update!PathMissing
  <2> QED
    BY <1>1, <2>1, <2>2, MovesBeforeExit
<1>3. ASSUME NEW u \in Updates, Update!BeginWrite(u) PROVE ExitInv'
  <2>1. Update!Goto(u, "write") /\ binPath' = binPath /\ tmpPath' \in Updates \union {"missing"}
    BY <1>1, <1>3 DEF Update!BeginWrite, Update!Step
  <2> QED
    BY <2>1, MovesBeforeExit
<1>4. ASSUME NEW u \in Updates, Update!Unlink(u) PROVE ExitInv'
  <2>1. Update!Goto(u, "over") /\ binPath' = binPath /\ tmpPath' \in Updates \union {"missing"}
    BY <1>4 DEF Update!Unlink, Update!Step
  <2> QED
    BY <2>1, MovesBeforeExit
<1>5. ASSUME NEW u \in Updates, Update!Rename(u) PROVE ExitInv'
  <2>1. /\ at' = [at EXCEPT ![u] = "exit"]
        /\ binPath' \in Updates /\ tmpPath' = "missing"
    BY <1>1, <1>5 DEF Update!Rename, Update!Step, Update!Goto
  <2>2. binPath' # None
    BY <2>1, Named
  <2> QED
    BY <2>1, <2>2 DEF ExitInv
<1>6. CASE Update!Stop
  <2>1. at' = [u \in Updates |-> IF Update!Under(u) THEN "over" ELSE at[u]]
        /\ UNCHANGED <<binPath, tmpPath>>
    BY <1>6 DEF Update!Stop
  <2> QED
    BY <2>1 DEF ExitInv
<1>7. CASE UNCHANGED <<at, binPath, tmpPath>>
  BY <1>7 DEF ExitInv
<1> QED
  BY <1>2, <1>3, <1>4, <1>5, <1>6, <1>7
  DEF HostNext, hostVars, updateVars, Update!Next, Update!Exit, Update!Crash, Update!Start

\* The process exits for an update only when one is in place, whatever the updates
\* that run beside it rename or unlink (index.ts, selfUpdate).
THEOREM ExitsAreUpdates == HostSpec => ExitsUpdated
<1>1. HostInit => ExitInv
  BY DEF HostInit, Update!Init, ExitInv, Stages
<1>2. ExitInv => \A u \in Updates : Update!Exit(u) => binPath # None
  BY DEF ExitInv, Update!Exit
<1>3. ExitInv /\ [HostNext]_hostVars => ExitInv'
  BY ExitStep
<1> QED
  BY <1>1, <1>2, <1>3, PTL DEF HostSpec, ExitsUpdated, Update!ExitsUpdated

=============================================================================
