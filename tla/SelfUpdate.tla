----------------------------- MODULE SelfUpdate -----------------------------
(***************************************************************************)
(* How an agent replaces its own binary when the administrator pushes an   *)
(* update (packages/agent/src/index.ts, selfUpdate; the push:              *)
(* packages/server/src/api.ts, packages/agent/src/relay-proxy.ts).  All    *)
(* updates write to one path, binPath + '.update', so that what a path     *)
(* names is kept apart from the files: a file that is open or runs stays   *)
(* what it is when its path is given to another one.                       *)
(***************************************************************************)
EXTENDS Naturals

CONSTANTS
    Updates,    \* the updates that are ever pushed
    MaxCrashes, \* bound: how often the process is killed
    None        \* a file is named by the update that made it; None is the package's

SelfUpdateConstants ==
    /\ MaxCrashes \in Nat
    /\ None # "missing" /\ {None, "missing"} \intersect Updates = {}

VARIABLES
    binPath,     \* the file that process.execPath names
    tmpPath,     \* the one that binPath + '.update' names, "missing" if none
    whole,       \* the files that have all their bytes ...
    executable,  \* ... and those that may be run
    file,        \* the file that each update has open
    at,          \* how far each update is
    running,     \* the process runs
    crashes

vars == <<binPath, tmpPath, whole, executable, file, at, running, crashes>>

Under(u) == at[u] \notin {"new", "over"}
Goto(u, l) == at' = [at EXCEPT ![u] = l]
Step(u, l, m) == at[u] = l /\ running /\ Goto(u, m)

\* POST /api/peers/:id/update: the agent must be connected.
Push(u) ==
    /\ Step(u, "new", "fetch")
    /\ UNCHANGED <<binPath, tmpPath, whole, executable, file, running, crashes>>

\* No answer in two minutes, no success, or less than 1024 bytes.
FetchFails(u) ==
    /\ Step(u, "fetch", "failed")
    /\ UNCHANGED <<binPath, tmpPath, whole, executable, file, running, crashes>>

\* A deviation: the bytes go to the binary itself.
BeginWrite_InPlace(u) ==
    /\ Step(u, "fetch", "write")
    /\ whole' = whole \ {binPath}
    /\ file' = [file EXCEPT ![u] = binPath]
    /\ UNCHANGED <<binPath, tmpPath, executable, running, crashes>>

\* Bun.write makes a file, or cuts the one that is there, ...
BeginWrite(u) ==
    /\ Step(u, "fetch", "write")
    /\ tmpPath' = IF tmpPath = "missing" THEN u ELSE tmpPath
    /\ whole' = whole \ {tmpPath'}
    /\ file' = [file EXCEPT ![u] = tmpPath']
    /\ UNCHANGED <<binPath, executable, running, crashes>>

\* ... and fills it; the file is whole unless another update has begun to fill it.
EndWrite(u) ==
    /\ Step(u, "write", "chmod")
    /\ whole' = IF \E v \in Updates \ {u} : at[v] = "write" /\ file[v] = file[u]
                THEN whole ELSE whole \union {file[u]}
    /\ UNCHANGED <<binPath, tmpPath, executable, file, running, crashes>>

WriteFails(u) ==
    /\ Step(u, "write", "failed")
    /\ UNCHANGED <<binPath, tmpPath, whole, executable, file, running, crashes>>

Chmod(u) ==
    /\ tmpPath # "missing" /\ Step(u, "chmod", "rename")
    /\ executable' = executable \union {tmpPath}
    /\ UNCHANGED <<binPath, tmpPath, whole, file, running, crashes>>

Rename(u) ==
    /\ tmpPath # "missing" /\ Step(u, "rename", "exit")
    /\ binPath' = tmpPath /\ tmpPath' = "missing"
    /\ UNCHANGED <<whole, executable, file, running, crashes>>

\* A deviation: a path that is missing is no error.
PathMissing_Ignored(u) ==
    /\ tmpPath = "missing"
    /\ Step(u, "chmod", "rename") \/ Step(u, "rename", "exit")
    /\ UNCHANGED <<binPath, tmpPath, whole, executable, file, running, crashes>>

\* Another update's rename or unlink came before.
PathMissing(u) ==
    /\ tmpPath = "missing"
    /\ Step(u, "chmod", "failed") \/ Step(u, "rename", "failed")
    /\ UNCHANGED <<binPath, tmpPath, whole, executable, file, running, crashes>>

Unlink(u) ==
    /\ Step(u, "failed", "over")
    /\ tmpPath' = "missing"
    /\ UNCHANGED <<binPath, whole, executable, file, running, crashes>>

\* The process ends, and with it whatever else it does.
Stop ==
    /\ running' = FALSE
    /\ at' = [u \in Updates |-> IF Under(u) THEN "over" ELSE at[u]]
    /\ UNCHANGED <<binPath, tmpPath, whole, executable, file>>

Exit(u) == running /\ at[u] = "exit" /\ Stop /\ UNCHANGED crashes

Crash == running /\ crashes < MaxCrashes /\ crashes' = crashes + 1 /\ Stop

Start ==
    /\ ~running /\ binPath \in whole \intersect executable
    /\ running' = TRUE
    /\ UNCHANGED <<binPath, tmpPath, whole, executable, file, at, crashes>>

Init ==
    /\ binPath = None /\ tmpPath = "missing"
    /\ whole = {None} /\ executable = {None}
    /\ file = [u \in Updates |-> None] /\ at = [u \in Updates |-> "new"]
    /\ running = TRUE /\ crashes = 0

Next ==
    \/ \E u \in Updates :
          \/ Push(u) \/ FetchFails(u) \/ BeginWrite(u) \/ EndWrite(u) \/ WriteFails(u)
          \/ Chmod(u) \/ Rename(u) \/ PathMissing(u) \/ Unlink(u) \/ Exit(u)
    \/ Crash \/ Start

Spec == Init /\ [][Next]_vars
-----------------------------------------------------------------------------
(* Properties.                                                             *)

OneByOne == \A u, v \in Updates : Under(u) /\ Under(v) => u = v

\* Wherever the process ends and whatever fails, the binary it leaves is one that
\* starts again (README.md:353 "atomically replaces process.execPath"), as long as
\* no update is pushed while another is under way: two of them write one file.
BinaryStarts == []OneByOne => [](~running => binPath \in whole \intersect executable)

\* The process exits for an update only when one is in place, whatever the updates
\* that run beside it rename or unlink.
ExitsUpdated == [][\A u \in Updates : Exit(u) => binPath # None]_vars
=============================================================================
