--------------------------- MODULE WatchedProofs ----------------------------
(***************************************************************************)
(* Proofs about Watched.  The invariant relates the three copies of a      *)
(* file's version (the recorded one, the local stamp and what load read)   *)
(* to the file: none is newer than the file, and a stamp equal to the      *)
(* file's version means that what was read after it is that version.       *)
(***************************************************************************)
EXTENDS Watched, TLAPS

\* Version numbers: no copy is newer than the file it was taken from.
Aged ==
    /\ \A i \in Index : file[i].ver >= 1 /\ file[i].ver <= writes + 1
    /\ \A i \in Index : stamp[i] <= file[i].ver /\ value[i].ver <= file[i].ver
    /\ \A t \in Threads : \A i \in Index : thread[t].st[i] <= file[i].ver

\* Only the thread that holds the mutex is stamping or loading.
Exclusive == \A t \in Threads : thread[t].pc # "idle" => lock = t

\* What load has read so far is not older than the value in use, and is the
\* file itself if the file still is what its stamp says.
ReadSoFar ==
    \A t \in Threads : thread[t].pc = "load" =>
        \A i \in Index : i < thread[t].next =>
            /\ value[i].ver <= thread[t].ld[i].ver
            /\ thread[t].ld[i].ver <= file[i].ver
            /\ file[i].content # Absent /\ thread[t].st[i] = file[i].ver
                 => thread[t].ld[i] = file[i]

IInv == TypeOK /\ Aged /\ Exclusive /\ ReadSoFar /\ StampHidesNothing

\* An idle or starting thread is a thread.
LEMMA AtType == \A l \in {"idle", "stamp"} : At(l) \in Thread
BY WatchedAssumption DEF At, Thread, Index, Version, NoStamp, NoVersion

\* The metadata of a file is a number not above its version.
LEMMA StampType ==
    ASSUME TypeOK, Aged, NEW i \in Index
    PROVE  Stamp(i) \in Nat /\ Stamp(i) <= file[i].ver
BY DEF TypeOK, Aged, Stamp, NoStamp, Version

\* Before anything is loaded the invariant holds.
LEMMA WatchedInit == Init => IInv
<1> SUFFICES ASSUME Init PROVE IInv
  OBVIOUS
<1>1. thread \in [Threads -> Thread]
  BY AtType DEF Init
<1>2. \A i \in Index : file[i] \in Version /\ file[i].ver = 1
  BY DEF Init, Version
<1>3. TypeOK
  <2>1. file \in [Index -> Version]
    BY <1>2 DEF Init
  <2>2. value \in [Index -> Version] /\ stamp \in [Index -> Nat]
    BY DEF Init, Version, NoVersion, NoStamp
  <2> QED
    <3>1. writes \in 0..MaxWrites /\ errors \in 0..MaxErrors
      BY WatchedAssumption DEF Init
    <3>2. phase \in {"starting", "serving", "failed"} /\ due \in BOOLEAN /\ lock \in Threads
      BY DEF Init, Threads
    <3> QED
      BY <1>1, <2>1, <2>2, <3>1, <3>2 DEF TypeOK
<1>4. Aged
  BY <1>2 DEF Init, Aged, NoStamp, NoVersion, At
<1>5. Exclusive /\ ReadSoFar /\ StampHidesNothing
  BY DEF Init, Exclusive, ReadSoFar, StampHidesNothing, At
<1> QED
  BY <1>3, <1>4, <1>5 DEF IInv

\* A file that is replaced gets a version nothing refers to.
LEMMA WatchedReplace ==
    ASSUME IInv, NEW k \in Index, NEW c \in Contents \cup {Absent}, Replace(k, c)
    PROVE  IInv'
<1> USE DEF IInv
<1>1. /\ file'[k].ver = writes + 2 /\ \A i \in Index \ {k} : file'[i] = file[i]
      /\ file' \in [Index -> Version] /\ writes' = writes + 1
      /\ UNCHANGED <<errors, phase, value, stamp, due, lock, thread>>
  BY DEF Replace, TypeOK, Version
<1>2. TypeOK'
  BY <1>1, WatchedAssumption DEF TypeOK, Replace
<1>3. \A i \in Index : file'[i].ver >= file[i].ver /\ (file'[i].ver = file[i].ver => file'[i] = file[i])
  BY <1>1 DEF TypeOK, Aged, Version
<1>4. Aged'
  <2>1. \A i \in Index : file'[i].ver >= 1 /\ file'[i].ver <= writes' + 1
    BY <1>1, <1>3 DEF TypeOK, Aged, Version
  <2>2. \A i \in Index : stamp[i] <= file'[i].ver /\ value[i].ver <= file'[i].ver
    BY <1>1, <1>3 DEF TypeOK, Aged, Version
  <2>3. \A t \in Threads : \A i \in Index : thread[t].st[i] <= file'[i].ver
    <3> SUFFICES ASSUME NEW t \in Threads, NEW i \in Index
                 PROVE  thread[t].st[i] <= file'[i].ver
      OBVIOUS
    <3>1. thread[t].st[i] \in Nat /\ file[i].ver \in Nat /\ file'[i].ver \in Nat
      BY <1>1 DEF TypeOK, Thread, Version
    <3> QED
      BY <3>1, <1>3 DEF Aged
  <2> QED
    BY <2>1, <2>2, <2>3, <1>1 DEF Aged
<1>5. Exclusive'
  BY <1>1 DEF Exclusive
<1>6. ReadSoFar'
  <2> SUFFICES ASSUME NEW t \in Threads, thread[t].pc = "load",
                      NEW i \in Index, i < thread[t].next
               PROVE  /\ value[i].ver <= thread[t].ld[i].ver
                      /\ thread[t].ld[i].ver <= file'[i].ver
                      /\ file'[i].content # Absent /\ thread[t].st[i] = file'[i].ver
                           => thread[t].ld[i] = file'[i]
    BY <1>1 DEF ReadSoFar
  <2>1. /\ thread[t].st[i] \in Nat /\ file[i].ver \in Nat /\ file'[i].ver \in Nat
        /\ thread[t].ld[i].ver \in Nat
    BY <1>1 DEF TypeOK, Thread, Version
  <2>2. thread[t].st[i] <= file[i].ver
    BY DEF Aged
  <2> QED
    BY <1>3, <2>1, <2>2 DEF ReadSoFar
<1>7. StampHidesNothing'
  <2> SUFFICES ASSUME phase = "serving", NEW i \in Index,
                      file'[i].content # Absent, stamp[i] = file'[i].ver
               PROVE  value[i] = file'[i]
    BY <1>1 DEF StampHidesNothing, Stamp
  <2>1. file'[i] = file[i]
    BY <1>1, <1>3 DEF TypeOK, Aged, Version
  <2> QED
    BY <2>1 DEF StampHidesNothing, Stamp
<1> QED
  BY <1>2, <1>4, <1>5, <1>6, <1>7

\* A thread that takes the mutex starts with an empty stamp.
LEMMA WatchedEnter ==
    ASSUME IInv, NEW t \in Getters, Enter(t)
    PROVE  IInv'
<1> USE DEF IInv
<1>1. /\ thread' = [thread EXCEPT ![t] = At("stamp")] /\ t \in Threads
      /\ lock' = t /\ lock = NoOne /\ due' = FALSE
      /\ UNCHANGED <<file, writes, errors, phase, value, stamp>>
  BY DEF Enter, Threads
<1>2. TypeOK'
  BY <1>1, AtType DEF TypeOK
<1>3. \A u \in Threads : thread[u].pc = "idle" /\ (u # t => thread'[u] = thread[u])
  BY <1>1, WatchedAssumption DEF Exclusive, TypeOK, Threads
<1>4. Aged'
  BY <1>1, <1>3 DEF Aged, At, NoStamp, TypeOK, Version
<1>5. Exclusive' /\ ReadSoFar'
  BY <1>1, <1>3 DEF Exclusive, ReadSoFar, At, TypeOK
<1>6. StampHidesNothing'
  BY <1>1 DEF StampHidesNothing, Stamp
<1> QED
  BY <1>2, <1>4, <1>5, <1>6

\* A thread that leaves is idle; nothing else about threads changes.
LEMMA WatchedLeave ==
    ASSUME IInv, NEW t \in Threads, thread[t].pc # "idle", Leave(t),
           UNCHANGED <<file, writes, due>>, errors' \in 0..MaxErrors,
           value' \in [Index -> Version], stamp' \in [Index -> Nat],
           phase' \in {"starting", "serving", "failed"},
           \A i \in Index : stamp'[i] <= file[i].ver /\ value'[i].ver <= file[i].ver,
           StampHidesNothing'
    PROVE  IInv'
<1> USE DEF IInv
<1>1. thread' = [thread EXCEPT ![t] = At("idle")] /\ lock' = NoOne
  BY DEF Leave
<1>2. TypeOK'
  BY <1>1, AtType DEF TypeOK
<1>3. \A u \in Threads : thread'[u].pc = "idle" /\ (u # t => thread'[u] = thread[u])
                         /\ thread'[t] = At("idle")
  BY <1>1 DEF Exclusive, TypeOK, At
<1>4. \A u \in Threads : \A i \in Index : thread'[u].st[i] <= file[i].ver
  <2>1. \A i \in Index : At("idle").st[i] = 0 /\ file[i].ver >= 1 /\ file[i].ver \in Nat
    BY DEF At, NoStamp, Aged, TypeOK, Version
  <2>2. \A i \in Index : thread'[t].st[i] <= file[i].ver
    BY <1>3, <2>1
  <2> QED
    BY <1>3, <2>2 DEF Aged
<1>5. Aged'
  BY <1>4 DEF Aged
<1>6. Exclusive' /\ ReadSoFar'
  BY <1>3 DEF Exclusive, ReadSoFar
<1> QED
  BY <1>2, <1>5, <1>6

\* Reading the metadata of a file keeps the invariant.
LEMMA WatchedStampFile ==
    ASSUME IInv, NEW t \in Threads, StampFile(t)
    PROVE  IInv'
<1> USE DEF IInv
<1> DEFINE i == thread[t].next
<1> DEFINE st == [thread[t].st EXCEPT ![i] = Stamp(i)]
<1>1. /\ thread[t].pc = "stamp" /\ i \in Index /\ thread[t] \in Thread
      /\ UNCHANGED <<file, writes, errors, phase, value, stamp, due>>
  BY DEF StampFile, TypeOK, Thread
<1>2. st \in [Index -> Nat] /\ \A j \in Index : st[j] <= file[j].ver
  BY <1>1, StampType DEF TypeOK, Thread, Aged
<1>3. CASE Leave(t)
  <2>1. StampHidesNothing'
    BY <1>1 DEF StampHidesNothing, Stamp
  <2> QED
    BY <1>1, <1>3, <2>1, WatchedLeave DEF TypeOK, Aged
<1>4. CASE /\ UNCHANGED lock
           /\ \/ i < N /\ thread' = [thread EXCEPT ![t] = [pc |-> "stamp", next |-> i + 1, st |-> st, ld |-> @.ld]]
              \/ thread' = [thread EXCEPT ![t] = [pc |-> "load", next |-> 1, st |-> st, ld |-> @.ld]]
  <2>1. /\ thread'[t] \in Thread /\ thread'[t].st = st
        /\ thread'[t].pc = "load" => thread'[t].next = 1
        /\ \A u \in Threads : u # t => thread'[u] = thread[u]
        /\ thread' \in [Threads -> Thread]
    <3> DEFINE r == IF i < N /\ thread'[t].pc = "stamp"
                    THEN [pc |-> "stamp", next |-> i + 1, st |-> st, ld |-> thread[t].ld]
                    ELSE [pc |-> "load", next |-> 1, st |-> st, ld |-> thread[t].ld]
    <3>1. i + 1 \in Index \/ ~(i < N)
      BY <1>1, WatchedAssumption DEF Index
    <3>2. 1 \in Index /\ thread[t].ld \in [Index -> Version]
      BY <1>1, WatchedAssumption DEF Index, Thread
    <3>3. r \in Thread
      BY <1>2, <3>1, <3>2 DEF Thread
    <3>4. thread' = [thread EXCEPT ![t] = r]
      <4>1. CASE i < N /\ thread' = [thread EXCEPT ![t] = [pc |-> "stamp", next |-> i + 1, st |-> st, ld |-> @.ld]]
        BY <1>1, <4>1 DEF TypeOK
      <4>2. CASE thread' = [thread EXCEPT ![t] = [pc |-> "load", next |-> 1, st |-> st, ld |-> @.ld]]
        BY <1>1, <4>2 DEF TypeOK
      <4> QED
        BY <1>4, <4>1, <4>2
    <3>5. r.st = st /\ (r.pc = "load" => r.next = 1)
      OBVIOUS
    <3> HIDE DEF r
    <3> QED
      BY <3>3, <3>4, <3>5 DEF TypeOK
  <2>2. TypeOK'
    BY <1>1, <1>4, <2>1 DEF TypeOK
  <2>3. Aged'
    BY <1>1, <1>2, <2>1 DEF Aged
  <2>4. Exclusive'
    BY <1>1, <1>4, <2>1 DEF Exclusive
  <2>5. ReadSoFar'
    BY <1>1, <2>1 DEF ReadSoFar, Index
  <2>6. StampHidesNothing'
    BY <1>1 DEF StampHidesNothing, Stamp
  <2> QED
    BY <2>2, <2>3, <2>4, <2>5, <2>6
<1> QED
  BY <1>3, <1>4 DEF StampFile

\* A load that fails keeps the value and the stamp.
LEMMA WatchedLoadFailed ==
    ASSUME IInv, NEW t \in Threads, thread[t].pc # "idle", LoadFailed(t), Leave(t),
           UNCHANGED <<file, writes, due>>, errors' \in 0..MaxErrors
    PROVE  IInv'
<1>1. UNCHANGED <<value, stamp>> /\ phase' \in {"starting", "serving", "failed"}
  BY DEF LoadFailed, IInv, TypeOK
<1>2. StampHidesNothing'
  BY <1>1 DEF IInv, LoadFailed, StampHidesNothing, Stamp
<1> QED
  BY <1>1, <1>2, WatchedLeave DEF IInv, TypeOK, Aged

\* Reading the content of a file keeps the invariant, and what comes into use
\* is not older than what it replaces.
LEMMA WatchedLoadFile ==
    ASSUME IInv, NEW t \in Threads, LoadFile(t)
    PROVE  IInv' /\ \A i \in Index : value'[i].ver >= value[i].ver
<1> USE DEF IInv
<1> DEFINE k == thread[t].next
<1> DEFINE ld == [thread[t].ld EXCEPT ![k] = file[k]]
<1>1. /\ thread[t].pc = "load" /\ k \in Index /\ thread[t] \in Thread
      /\ UNCHANGED <<file, writes, errors, due>>
  BY DEF LoadFile, TypeOK, Thread
<1>2. /\ ld \in [Index -> Version]
      /\ \A i \in Index : i <= k =>
            /\ value[i].ver <= ld[i].ver /\ ld[i].ver <= file[i].ver
            /\ file[i].content # Absent /\ thread[t].st[i] = file[i].ver => ld[i] = file[i]
  <2>1. ld \in [Index -> Version]
    BY <1>1 DEF TypeOK, Thread
  <2>2. ld[k] = file[k] /\ \A i \in Index : i < k => ld[i] = thread[t].ld[i]
    <3>1. /\ thread[t].ld \in [Index -> Version] /\ k \in Index
          /\ \A i \in Index : i < k => i # k
      BY <1>1 DEF Thread, Index
    <3> QED
      BY <3>1
  <2>3. \A i \in Index : i <= k => i = k \/ i < k
    BY <1>1 DEF Index
  <2>4. value[k].ver <= file[k].ver /\ file[k].ver <= file[k].ver
    BY <1>1 DEF Aged, TypeOK, Version
  <2> QED
    BY <1>1, <2>1, <2>2, <2>3, <2>4 DEF ReadSoFar
<1>3. CASE /\ k < N /\ thread' = [thread EXCEPT ![t] = [pc |-> "load", next |-> k + 1, st |-> @.st, ld |-> ld]]
           /\ UNCHANGED <<phase, value, stamp, lock>>
  <2>1. /\ thread'[t] \in Thread /\ thread'[t].st = thread[t].st
        /\ thread'[t].pc = "load" /\ thread'[t].next = k + 1 /\ thread'[t].ld = ld
        /\ \A u \in Threads : u # t => thread'[u] = thread[u]
        /\ thread' \in [Threads -> Thread]
    <3> DEFINE r == [pc |-> "load", next |-> k + 1, st |-> thread[t].st, ld |-> ld]
    <3>1. thread' = [thread EXCEPT ![t] = r]
      BY <1>1, <1>3
    <3>2. r \in Thread
      <4>1. k + 1 \in Index
        BY <1>1, <1>3, WatchedAssumption DEF Index
      <4> QED
        BY <1>1, <1>2, <4>1 DEF Thread
    <3>3. r.st = thread[t].st /\ r.pc = "load" /\ r.next = k + 1 /\ r.ld = ld
      OBVIOUS
    <3> HIDE DEF r
    <3> QED
      BY <3>1, <3>2, <3>3 DEF TypeOK
  <2>2. TypeOK' /\ Aged' /\ Exclusive'
    BY <1>1, <1>3, <2>1 DEF TypeOK, Aged, Exclusive
  <2>3. \A i \in Index : i < k + 1 => i <= k
    BY <1>1 DEF Index
  <2>4. ReadSoFar'
    BY <1>1, <1>2, <1>3, <2>1, <2>3 DEF ReadSoFar
  <2>5. StampHidesNothing'
    BY <1>1, <1>3 DEF StampHidesNothing, Stamp
  <2>6. \A i \in Index : value'[i].ver >= value[i].ver
    BY <1>3 DEF TypeOK, Version
  <2> QED
    BY <2>2, <2>4, <2>5, <2>6
<1>4. CASE k = N /\ Loaded(t, ld) /\ Leave(t)
  <2>1. \A i \in Index : i <= k
    BY <1>4 DEF Index
  <2>2. value' = ld /\ stamp' = thread[t].st /\ phase' = "serving"
    BY <1>4 DEF Loaded
  <2>3. StampHidesNothing'
    <3> SUFFICES ASSUME NEW i \in Index, file[i].content # Absent,
                        thread[t].st[i] = file[i].ver
                 PROVE  ld[i] = file[i]
      BY <1>1, <2>2 DEF StampHidesNothing, Stamp
    <3> QED
      BY <1>2, <2>1
  <2>4. \A i \in Index : stamp'[i] <= file[i].ver /\ value'[i].ver <= file[i].ver
    BY <1>2, <2>1, <2>2 DEF Aged
  <2>5. IInv'
    BY <1>1, <1>2, <1>4, <2>2, <2>3, <2>4, WatchedLeave DEF TypeOK, Thread
  <2>6. \A i \in Index : value'[i].ver >= value[i].ver
    BY <1>2, <2>1, <2>2 DEF TypeOK, Version
  <2> QED
    BY <2>5, <2>6
<1>5. CASE LoadFailed(t) /\ Leave(t)
  <2>1. errors' \in 0..MaxErrors
    BY <1>1 DEF TypeOK
  <2>2. \A i \in Index : value'[i].ver >= value[i].ver
    BY <1>5 DEF LoadFailed, TypeOK, Version
  <2> QED
    BY <1>1, <1>5, <2>1, <2>2, WatchedLoadFailed
<1> QED
  BY <1>3, <1>4, <1>5 DEF LoadFile

\* Every step keeps the invariant and brings no older version into use.
LEMMA WatchedStep ==
    ASSUME IInv, [Next]_vars
    PROVE  IInv' /\ \A i \in Index : value'[i].ver >= value[i].ver
<1>1. ASSUME UNCHANGED value
      PROVE  \A i \in Index : value'[i].ver >= value[i].ver
  BY <1>1 DEF IInv, TypeOK, Version
<1>2. ASSUME NEW i \in Index, NEW c \in Contents \cup {Absent}, Replace(i, c)
      PROVE  IInv' /\ UNCHANGED value
  BY <1>2, WatchedReplace DEF Replace
<1>3. CASE RecheckElapses \/ UNCHANGED vars
  <2>1. UNCHANGED <<file, writes, errors, phase, value, stamp, lock, thread>> /\ due' \in BOOLEAN
    BY <1>3 DEF RecheckElapses, vars, IInv, TypeOK
  <2>2. IInv'
    BY <2>1 DEF IInv, TypeOK, Aged, Exclusive, ReadSoFar, StampHidesNothing, Stamp
  <2> QED
    BY <1>1, <2>1, <2>2
<1>4. ASSUME NEW t \in Getters, Enter(t)
      PROVE  IInv' /\ UNCHANGED value
  BY <1>4, WatchedEnter DEF Enter
<1>5. ASSUME NEW t \in Threads, StampFile(t)
      PROVE  IInv' /\ UNCHANGED value
  BY <1>5, WatchedStampFile DEF StampFile
<1>6. ASSUME NEW t \in Threads, ReadError(t)
      PROVE  IInv' /\ UNCHANGED value
  <2>1. errors' \in 0..MaxErrors
    BY <1>6, WatchedAssumption DEF ReadError, IInv, TypeOK
  <2> QED
    BY <1>6, <2>1, WatchedLoadFailed DEF ReadError, LoadFailed
<1> QED
  BY <1>1, <1>2, <1>3, <1>4, <1>5, <1>6, WatchedLoadFile DEF Next, GetStep

\* The state of Watched and of the threads in get keeps its type.
THEOREM WatchedTypeCorrect == Spec => []TypeOK
<1>1. IInv /\ [Next]_vars => IInv'
  BY WatchedStep
<1> QED
  BY WatchedInit, <1>1, PTL DEF Spec, IInv

\* A recorded stamp never hides a change of a file, for any number of files
\* and of threads (Watched::get stamps before it loads).
THEOREM WatchedStampSound == Spec => []StampHidesNothing
<1>1. IInv /\ [Next]_vars => IInv'
  BY WatchedStep
<1> QED
  BY WatchedInit, <1>1, PTL DEF Spec, IInv

\* The value in use never goes back to an earlier version of a file
\* (Watched::get keeps the mutex while it loads).
THEOREM WatchedNeverBackwards == Spec => NeverBackwards
<1>1. IInv /\ [Next]_vars => IInv' /\ [\A i \in Index : value'[i].ver >= value[i].ver]_value
  BY WatchedStep
<1> QED
  BY WatchedInit, <1>1, PTL DEF Spec, NeverBackwards
-----------------------------------------------------------------------------
(* Refinement: every step of Watched is one of Reloaded, or none.          *)

\* What load has read of a file is the file itself if it still has the
\* version that was read: no version number is used twice.
Genuine ==
    \A t \in Threads : thread[t].pc = "load" =>
        \A i \in Index : i < thread[t].next /\ thread[t].ld[i].ver = file[i].ver
            => thread[t].ld[i] = file[i]

\* After a failed start no thread is in get.
FailedIsOver == phase = "failed" => \A t \in Threads : thread[t].pc = "idle"

RInv == IInv /\ Genuine /\ FailedIsOver

\* Initially nothing has been read.
LEMMA RefineInit == Init => RInv /\ Promise!Init
<1> SUFFICES ASSUME Init PROVE RInv /\ Promise!Init
  OBVIOUS
<1>1. IInv
  BY WatchedInit
<1>2. Genuine /\ FailedIsOver
  BY DEF Init, Genuine, FailedIsOver, At
<1>3. Promise!Init
  BY DEF Init, Promise!Init, NoVersion, Index, Promise!Index
<1> QED
  BY <1>1, <1>2, <1>3 DEF RInv

\* Replacing a file makes a version nothing was read of.
LEMMA RefineReplace ==
    ASSUME RInv, NEW k \in Index, NEW c \in Contents \cup {Absent}, Replace(k, c)
    PROVE  Genuine' /\ FailedIsOver' /\ Promise!Next
<1> USE DEF RInv, IInv
<1>1. /\ file'[k].ver = writes + 2 /\ \A i \in Index \ {k} : file'[i] = file[i]
      /\ UNCHANGED <<phase, value, thread>>
  BY DEF Replace, TypeOK, Version
<1>2. Genuine'
  <2> SUFFICES ASSUME NEW t \in Threads, thread[t].pc = "load", NEW i \in Index,
                      i < thread[t].next, thread[t].ld[i].ver = file'[i].ver
               PROVE  thread[t].ld[i] = file'[i]
    BY <1>1 DEF Genuine
  <2>1. /\ thread[t].ld[i].ver \in Nat /\ file[i].ver \in Nat /\ writes \in Nat
        /\ thread[t].ld[i].ver <= file[i].ver /\ file[i].ver <= writes + 1
    BY DEF TypeOK, Thread, Version, ReadSoFar, Aged
  <2>2. i # k
    BY <1>1, <2>1
  <2> QED
    BY <1>1, <2>2 DEF Genuine
<1>3. FailedIsOver'
  BY <1>1 DEF FailedIsOver
<1>4. Promise!Replace(k, c)
  BY DEF Replace, Promise!Replace
<1> QED
  BY <1>2, <1>3, <1>4 DEF Promise!Next, Index, Promise!Index

\* The thread that leaves was the only one in get.
LEMMA RefineLeave ==
    ASSUME RInv, NEW t \in Threads, thread[t].pc # "idle", Leave(t)
    PROVE  Genuine' /\ FailedIsOver'
<1>1. \A u \in Threads : thread'[u].pc = "idle"
  BY DEF RInv, IInv, Leave, Exclusive, TypeOK, At
<1> QED
  BY <1>1 DEF Genuine, FailedIsOver

\* A load that fails is fatal at startup and invisible later.
LEMMA RefineLoadFailed ==
    ASSUME RInv, NEW t \in Threads, thread[t].pc = "load", LoadFailed(t), Leave(t),
           UNCHANGED <<file, writes>>
    PROVE  Genuine' /\ FailedIsOver' /\ [Promise!Next]_(Promise!vars)
<1>1. Genuine' /\ FailedIsOver'
  BY RefineLeave
<1>2. CASE phase = "starting"
  BY <1>1, <1>2 DEF LoadFailed, Promise!Fail, Promise!Next
<1>3. CASE phase # "starting"
  BY <1>1, <1>3 DEF LoadFailed, Promise!vars
<1> QED
  BY <1>2, <1>3

\* Metadata is not visible to the users of get.
LEMMA RefineStampFile ==
    ASSUME RInv, NEW t \in Threads, StampFile(t)
    PROVE  Genuine' /\ FailedIsOver' /\ UNCHANGED Promise!vars
<1> USE DEF RInv, IInv
<1>1. thread[t].pc = "stamp" /\ UNCHANGED <<file, writes, phase, value>>
  BY DEF StampFile
<1>2. UNCHANGED Promise!vars
  BY <1>1 DEF Promise!vars
<1>3. CASE Leave(t)
  BY <1>1, <1>2, <1>3, RefineLeave
<1>4. ASSUME NEW r, thread' = [thread EXCEPT ![t] = r], r.pc = "load" => r.next = 1
      PROVE  Genuine' /\ FailedIsOver' /\ UNCHANGED Promise!vars
  <2>1. thread'[t] = r /\ \A u \in Threads : u # t => thread'[u] = thread[u]
    BY <1>4 DEF TypeOK
  <2>2. Genuine'
    BY <1>1, <1>4, <2>1 DEF Genuine, Index
  <2>3. phase # "failed"
    BY <1>1 DEF FailedIsOver
  <2> QED
    BY <1>1, <1>2, <2>2, <2>3 DEF FailedIsOver
<1> DEFINE st == [thread[t].st EXCEPT ![thread[t].next] = Stamp(thread[t].next)]
<1> DEFINE more == [pc |-> "stamp", next |-> thread[t].next + 1, st |-> st, ld |-> thread[t].ld]
<1> DEFINE load == [pc |-> "load", next |-> 1, st |-> st, ld |-> thread[t].ld]
<1>5. \/ Leave(t)
      \/ thread' = [thread EXCEPT ![t] = more]
      \/ thread' = [thread EXCEPT ![t] = load]
  BY DEF StampFile, TypeOK
<1>6. (more.pc = "load" => more.next = 1) /\ (load.pc = "load" => load.next = 1)
  OBVIOUS
<1> HIDE DEF more, load
<1> QED
  BY <1>3, <1>4, <1>5, <1>6

\* The last file that load reads brings a combination it accepts into use.
LEMMA RefineLoadFile ==
    ASSUME RInv, NEW t \in Threads, LoadFile(t)
    PROVE  Genuine' /\ FailedIsOver' /\ [Promise!Next]_(Promise!vars)
<1> USE DEF RInv, IInv
<1> DEFINE k == thread[t].next
<1> DEFINE ld == [thread[t].ld EXCEPT ![k] = file[k]]
<1>1. /\ thread[t].pc = "load" /\ k \in Index /\ thread[t] \in Thread
      /\ UNCHANGED <<file, writes>> /\ phase # "failed"
  BY DEF LoadFile, TypeOK, Thread, FailedIsOver
<1>2. /\ \A i \in Index : i <= k /\ ld[i].ver = file[i].ver => ld[i] = file[i]
      /\ \A i \in Index : i <= k => value[i].ver <= ld[i].ver /\ ld[i].ver <= file[i].ver
  <2>1. ld[k] = file[k] /\ \A i \in Index : i # k => ld[i] = thread[t].ld[i]
    BY <1>1 DEF Thread
  <2>2. \A i \in Index : i <= k => i = k \/ (i < k /\ i # k)
    BY <1>1 DEF Index
  <2>3. value[k].ver <= file[k].ver /\ file[k].ver <= file[k].ver
    BY <1>1 DEF Aged, TypeOK, Version
  <2> QED
    BY <1>1, <2>1, <2>2, <2>3 DEF Genuine, ReadSoFar
<1>3. CASE /\ thread' = [thread EXCEPT ![t] = [pc |-> "load", next |-> k + 1, st |-> @.st, ld |-> ld]]
           /\ UNCHANGED <<phase, value>>
  <2>1. /\ thread'[t].next = k + 1 /\ thread'[t].ld = ld
        /\ \A u \in Threads : u # t => thread'[u] = thread[u]
    BY <1>3 DEF TypeOK
  <2>2. \A i \in Index : i < k + 1 => i <= k
    BY <1>1 DEF Index
  <2>3. ASSUME NEW u \in Threads, thread'[u].pc = "load", NEW i \in Index,
               i < thread'[u].next, thread'[u].ld[i].ver = file[i].ver
        PROVE  thread'[u].ld[i] = file[i]
    <3>1. CASE u = t
      BY <3>1, <1>2, <2>1, <2>2, <2>3
    <3>2. CASE u # t
      BY <3>2, <2>1, <2>3 DEF Genuine
    <3> QED
      BY <3>1, <3>2
  <2>4. Genuine'
    BY <1>1, <2>3 DEF Genuine
  <2> QED
    BY <1>1, <1>3, <2>4 DEF FailedIsOver, Promise!vars
<1>4. CASE /\ k = N /\ [j \in Index |-> ld[j].content] \in Good
           /\ Loaded(t, ld) /\ Leave(t)
  <2>1. \A i \in Index : i <= k
    BY <1>4 DEF Index
  <2>2. value' = ld /\ phase' = "serving"
    BY <1>4 DEF Loaded
  <2>3. Promise!Take
    BY <1>1, <1>2, <1>4, <2>1, <2>2 DEF Promise!Take, Index, Promise!Index
  <2> QED
    BY <1>1, <1>4, <2>3, RefineLeave DEF Promise!Next
<1>5. CASE LoadFailed(t) /\ Leave(t)
  BY <1>1, <1>5, RefineLoadFailed
<1> QED
  BY <1>3, <1>4, <1>5 DEF LoadFile

\* Every step keeps the invariant and is a step of Reloaded or a stutter.
LEMMA RefineStep ==
    ASSUME RInv, [Next]_vars
    PROVE  RInv' /\ [Promise!Next]_(Promise!vars)
<1> DEFINE Simulated == Genuine' /\ FailedIsOver' /\ [Promise!Next]_(Promise!vars)
<1>1. IInv'
  BY WatchedStep DEF RInv
<1>2. ASSUME NEW i \in Index, NEW c \in Contents \cup {Absent}, Replace(i, c)
      PROVE  Simulated
  BY <1>2, RefineReplace
<1>3. ASSUME RecheckElapses \/ UNCHANGED vars
      PROVE  Simulated
  <2>1. UNCHANGED <<file, writes, phase, value, thread>>
    BY <1>3 DEF RecheckElapses, vars
  <2> QED
    BY <2>1, <1>1 DEF RInv, Genuine, FailedIsOver, Promise!vars
<1>4. ASSUME NEW t \in Getters, Enter(t)
      PROVE  Simulated
  <2>1. /\ thread' = [thread EXCEPT ![t] = At("stamp")] /\ t \in Threads
        /\ UNCHANGED <<file, writes, phase, value>> /\ phase = "serving"
    BY <1>4 DEF Enter, Threads
  <2>2. thread'[t].pc = "stamp" /\ \A u \in Threads : u # t => thread'[u] = thread[u]
    BY <2>1 DEF RInv, IInv, TypeOK, At
  <2>3. Genuine' /\ FailedIsOver'
    BY <2>1, <2>2 DEF RInv, Genuine, FailedIsOver
  <2> QED
    BY <2>1, <2>3 DEF Promise!vars
<1>5. ASSUME NEW t \in Threads, StampFile(t)
      PROVE  Simulated
  BY <1>5, RefineStampFile
<1>6. ASSUME NEW t \in Threads, ReadError(t)
      PROVE  Simulated
  BY <1>6, RefineLoadFailed DEF ReadError
<1>7. ASSUME NEW t \in Threads, LoadFile(t)
      PROVE  Simulated
  BY <1>7, RefineLoadFile
<1>8. Simulated
  BY <1>2, <1>3, <1>4, <1>5, <1>6, <1>7 DEF Next, GetStep
<1> QED
  BY <1>1, <1>8 DEF RInv

\* Watched implements Reloaded for any number of files and of threads: the
\* value that get returns is always one that load accepted, of versions
\* between the one in use and the latest (Watched::new, Watched::get).
THEOREM WatchedImplementsReloaded == Spec => ImplementsReloaded
<1>1. RInv /\ [Next]_vars => RInv' /\ [Promise!Next]_(Promise!vars)
  BY RefineStep
<1> QED
  BY RefineInit, <1>1, PTL DEF Spec, ImplementsReloaded, Promise!Spec
=============================================================================
