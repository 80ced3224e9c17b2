------------------------------- MODULE MCHost -------------------------------
(* What is left on a host when its agent stops: the files of its boot, by  *)
(* which the server knows it, with sixteen addresses and subnets of four   *)
(* and of eight; and its binary, which updates replace.  They share no     *)
(* variable of these models; each behaviour is one of one part, the other  *)
(* rests where it begins.                                                  *)
EXTENDS Registration

CONSTANTS Updates, MaxCrashes

VARIABLES
    part,  \* the part that moves
    binPath, tmpPath, whole, executable, file, at, running, crashes

Update == INSTANCE SelfUpdate
ASSUME UpdateAssumption == Update!SelfUpdateConstants

\* One is not written by its first address.
SomeSubnets == {[base |-> 4, size |-> 4], [base |-> 6, size |-> 4], [base |-> 8, size |-> 8]}

updateVars == <<binPath, tmpPath, whole, executable, file, at, running, crashes>>
hostVars == <<part, vars, updateVars>>

HostInit == part \in {"boot", "update"} /\ Init /\ Update!Init

HostNext ==
    \/ part = "boot" /\ Next /\ UNCHANGED <<part, updateVars>>
    \/ part = "update" /\ Update!Next /\ UNCHANGED <<part, vars>>

\* See FairSpec of Registration.
HostSpec ==
    /\ HostInit /\ [][HostNext]_hostVars
    /\ \A a \in Agents : WF_vars(part = "boot" /\ Boot(a))

\* The properties of SelfUpdate.
BinaryStarts == Update!BinaryStarts
ExitsUpdated == Update!ExitsUpdated
=============================================================================
