------------------------------ MODULE Watched -------------------------------
(***************************************************************************)
(* Watched<T> of cadvisor/src/secure.rs: a value loaded from files (the    *)
(* certificate and its key, or the bearer tokens) and reloaded when their  *)
(* metadata changes.  Requests call get concurrently; the files are        *)
(* replaced one by one by another program, also while they are being read. *)
(*                                                                         *)
(* A file is abstracted to a version number, which its metadata identifies *)
(* (mtime, size, inode), and what load makes of its content.               *)
(***************************************************************************)
EXTENDS Integers

CONSTANTS
    N,           \* number of watched files: 2 for TLS (certificate, key), 1 for tokens
    Getters,     \* threads that call get()
    Main,        \* the thread that calls Watched::new at startup
    Contents,    \* what a file may hold
    Readable,    \* the contents load accepts of one file
    Good,        \* the combinations load accepts: [1..N -> Readable]
    Absent,      \* the content of a file that does not exist
    MaxWrites,   \* bound on the number of replacements
    MaxErrors    \* bound on the reads that fail for another reason (EMFILE, EIO)

NoOne == "no one"

ASSUME WatchedAssumption ==
    /\ N \in Nat \ {0}
    /\ Main \notin Getters /\ NoOne \notin Getters \cup {Main}
    /\ Readable \subseteq Contents /\ Absent \notin Contents
    /\ Good \subseteq [1..N -> Readable]
    /\ MaxWrites \in Nat /\ MaxErrors \in Nat

VARIABLES
    file,        \* the files: version and content
    writes,      \* number of replacements so far; numbers the versions
    errors,      \* number of failed reads so far
    phase,       \* starting (in Watched::new), serving, or failed to start
    value,       \* state.0: the file versions the value in use was loaded from
    stamp,       \* state.1: the metadata recorded with it
    due,         \* whether RECHECK has elapsed since state.2
    lock,        \* the thread that holds the mutex (Main before there is one)
    thread       \* position and local variables of each thread

vars == <<file, writes, errors, phase, value, stamp, due, lock, thread>>

Index == 1..N
Threads == Getters \cup {Main}
NoStamp == 0

Version == [ver : Nat, content : Contents \cup {Absent}]
NoVersion == [ver |-> 0, content |-> Absent]

\* next: the file to look at next; st: the local stamp; ld: what load has read.
Thread == [pc : {"idle", "stamp", "load"}, next : Index,
           st : [Index -> Nat], ld : [Index -> Version]]

At(label) == [pc |-> label, next |-> 1, st |-> [i \in Index |-> NoStamp],
              ld |-> [i \in Index |-> NoVersion]]

\* Faulty variant of Stamp: a missing file is told apart by its content.
StampOfAbsent(i) == IF file[i].content = Absent THEN Absent ELSE file[i].ver

\* stamp(): a file that does not exist has no metadata.
Stamp(i) == IF file[i].content = Absent THEN NoStamp ELSE file[i].ver

\* The files may be anything when cadvisor starts.
Init ==
    /\ writes = 0 /\ errors = 0
    /\ file \in [Index -> {[ver |-> 1, content |-> c] : c \in Contents \cup {Absent}}]
    /\ phase = "starting"
    /\ value = [i \in Index |-> NoVersion]
    /\ stamp = [i \in Index |-> NoStamp]
    /\ due = FALSE
    /\ lock = Main
    /\ thread = [t \in Threads |-> At(IF t = Main THEN "stamp" ELSE "idle")]
-----------------------------------------------------------------------------
(* The environment: renewal and rotation, and the clock.                   *)

\* One file is replaced (renamed over, rewritten or removed).
Replace(i, c) ==
    /\ writes < MaxWrites
    /\ file' = [file EXCEPT ![i] = [ver |-> writes + 2, content |-> c]]
    /\ writes' = writes + 1
    /\ UNCHANGED <<errors, phase, value, stamp, due, lock, thread>>

RecheckElapses ==
    /\ phase = "serving" /\ ~due
    /\ due' = TRUE
    /\ UNCHANGED <<file, writes, errors, phase, value, stamp, lock, thread>>
-----------------------------------------------------------------------------
(* get(), and the body it shares with Watched::new.                        *)

\* The mutex is taken; unless RECHECK has elapsed it is released at once with
\* a clone of the value, which changes nothing.
Enter(t) ==
    /\ phase = "serving" /\ lock = NoOne
    /\ due
    /\ due' = FALSE
    /\ lock' = t
    /\ thread' = [thread EXCEPT ![t] = At("stamp")]
    /\ UNCHANGED <<file, writes, errors, phase, value, stamp>>

Leave(t) ==
    /\ lock' = NoOne
    /\ thread' = [thread EXCEPT ![t] = At("idle")]

\* Metadata of one file.  After the last one, load unless nothing changed.
StampFile(t) ==
    /\ thread[t].pc = "stamp"
    /\ LET i == thread[t].next
           st == [thread[t].st EXCEPT ![i] = Stamp(i)]
       IN  \/ /\ i < N
              /\ thread' = [thread EXCEPT ![t] =
                               [pc |-> "stamp", next |-> i + 1, st |-> st, ld |-> @.ld]]
              /\ UNCHANGED lock
           \/ /\ i = N
              /\ IF phase = "serving" /\ st = stamp
                 THEN Leave(t)
                 ELSE /\ thread' = [thread EXCEPT ![t] =
                                        [pc |-> "load", next |-> 1, st |-> st, ld |-> @.ld]]
                      /\ UNCHANGED lock
    /\ UNCHANGED <<file, writes, errors, phase, value, stamp, due>>

\* Faulty variants of Loaded: the stamp is taken again after the load; it is
\* recorded although the load failed.
LoadedRestamped(t, ld) ==
    /\ value' = ld /\ stamp' = [i \in Index |-> Stamp(i)] /\ phase' = "serving"

LoadFailedStamped(t) ==
    /\ stamp' = thread[t].st /\ UNCHANGED value
    /\ phase' = IF phase = "starting" THEN "failed" ELSE phase

\* load succeeded: the value and the stamp taken before it are recorded.
Loaded(t, ld) == value' = ld /\ stamp' = thread[t].st /\ phase' = "serving"

\* Faulty variant of LoadFailed: what could be read replaces the value.
LoadFailedReplaces(t) ==
    /\ value' = thread[t].ld /\ UNCHANGED stamp
    /\ phase' = IF phase = "starting" THEN "failed" ELSE phase

\* load failed: the previous value and stamp stay, or the program exits.
LoadFailed(t) ==
    /\ phase' = IF phase = "starting" THEN "failed" ELSE phase
    /\ UNCHANGED <<value, stamp>>

\* load reads the files in order and gives up at the first one it cannot use.
LoadFile(t) ==
    /\ thread[t].pc = "load"
    /\ LET i == thread[t].next
           ld == [thread[t].ld EXCEPT ![i] = file[i]]
           contents == [j \in Index |-> ld[j].content]
       IN  \/ /\ file[i].content \in Readable /\ i < N
              /\ thread' = [thread EXCEPT ![t] =
                               [pc |-> "load", next |-> i + 1, st |-> @.st, ld |-> ld]]
              /\ UNCHANGED <<phase, value, stamp, lock>>
           \/ /\ file[i].content \in Readable /\ i = N /\ contents \in Good
              /\ Loaded(t, ld) /\ Leave(t)
           \/ /\ file[i].content \notin Readable \/ (i = N /\ contents \notin Good)
              /\ LoadFailed(t) /\ Leave(t)
    /\ UNCHANGED <<file, writes, errors, due>>

\* A file that could be used fails to be read this time.
ReadError(t) ==
    /\ errors < MaxErrors
    /\ thread[t].pc = "load"
    /\ errors' = errors + 1
    /\ LoadFailed(t) /\ Leave(t)
    /\ UNCHANGED <<file, writes, due>>

GetStep(t) == StampFile(t) \/ LoadFile(t)

Next ==
    \/ \E i \in Index : \E c \in Contents \cup {Absent} : Replace(i, c)
    \/ RecheckElapses
    \/ \E t \in Getters : Enter(t)
    \/ \E t \in Threads : GetStep(t) \/ ReadError(t)

Spec == Init /\ [][Next]_vars

\* Threads that hold the mutex run, time passes, and requests keep coming.
FairSpec ==
    /\ Spec
    /\ \A t \in Threads : WF_vars(GetStep(t))
    /\ WF_vars(RecheckElapses)
    /\ WF_vars(\E t \in Getters : Enter(t))
-----------------------------------------------------------------------------
(* Properties *)

\* Every variable keeps its type; what is in use is a version of each file.
TypeOK ==
    /\ file \in [Index -> Version]
    /\ writes \in 0..MaxWrites /\ errors \in 0..MaxErrors
    /\ phase \in {"starting", "serving", "failed"}
    /\ value \in [Index -> Version]
    /\ stamp \in [Index -> Nat]
    /\ due \in BOOLEAN
    /\ lock \in Threads \cup {NoOne}
    /\ thread \in [Threads -> Thread]

\* A recorded stamp never hides a change: while a file's metadata is what was
\* recorded, the value in use was loaded from that very version of the file,
\* although the files may be replaced between the stamp and the load and
\* between the reads of the two files (get stamps before it loads).
StampHidesNothing ==
    phase = "serving" =>
        \A i \in Index : file[i].content # Absent /\ stamp[i] = Stamp(i)
                            => value[i] = file[i]

\* The value in use never goes back to an earlier version of a file, although
\* several threads reload it (get keeps the mutex from the check to the update).
NeverBackwards ==
    [][\A i \in Index : value'[i].ver >= value[i].ver]_value

\* Once the files stay as they are and load accepts them, they come into use
\* and stay in use, also after failed attempts on a half-replaced pair or
\* failed reads (get does not record the stamp of a failed load, so it is
\* retried).
SettledFilesAreServed ==
    <>[]([i \in Index |-> file[i].content] \in Good)
        => <>[](phase = "serving" => value = file)

Promise == INSTANCE Reloaded

\* What users of get see, whatever the threads and the other program do: a
\* value that load accepted, of versions between the one in use and the
\* latest, and a bad file that is fatal at startup only.
ImplementsReloaded == Promise!Spec
=============================================================================
