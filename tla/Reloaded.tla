------------------------------ MODULE Reloaded ------------------------------
(***************************************************************************)
(* What Watched<T> of cadvisor/src/secure.rs promises its users, without   *)
(* stamps, threads, locks and partial reads: files that another program    *)
(* replaces, and a value in use that is at every moment a combination of   *)
(* their versions that load accepts, and never goes back to an earlier     *)
(* version of a file.  Watched implements it; Serving is built on it.      *)
(***************************************************************************)
EXTENDS Integers

CONSTANTS
    N,           \* number of files
    Contents,    \* what a file may hold
    Good,        \* the combinations load accepts
    Absent,      \* the content of a file that does not exist
    MaxWrites    \* bound on the number of replacements

VARIABLES
    file,        \* the files: version and content
    writes,      \* number of replacements so far; numbers the versions
    phase,       \* starting, serving, or failed to start
    value        \* the versions the value in use was loaded from

vars == <<file, writes, phase, value>>

Index == 1..N

Init ==
    /\ writes = 0
    /\ file \in [Index -> {[ver |-> 1, content |-> c] : c \in Contents \cup {Absent}}]
    /\ phase = "starting"
    /\ value = [i \in Index |-> [ver |-> 0, content |-> Absent]]

Replace(i, c) ==
    /\ writes < MaxWrites
    /\ file' = [file EXCEPT ![i] = [ver |-> writes + 2, content |-> c]]
    /\ writes' = writes + 1
    /\ UNCHANGED <<phase, value>>

\* A combination load accepts, each of its versions between the one in use
\* and the one the file has now, comes into use.
Take ==
    /\ phase # "failed"
    /\ [i \in Index |-> value'[i].content] \in Good
    /\ \A i \in Index : /\ value[i].ver <= value'[i].ver /\ value'[i].ver <= file[i].ver
                        /\ value'[i].ver = file[i].ver => value'[i] = file[i]
    /\ phase' = "serving"
    /\ UNCHANGED <<file, writes>>

\* Only at startup is a load that fails fatal.
Fail ==
    /\ phase = "starting"
    /\ phase' = "failed"
    /\ UNCHANGED <<file, writes, value>>

Next ==
    \/ \E i \in Index : \E c \in Contents \cup {Absent} : Replace(i, c)
    \/ Take
    \/ Fail

Spec == Init /\ [][Next]_vars
=============================================================================
