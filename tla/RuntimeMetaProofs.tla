------------------------- MODULE RuntimeMetaProofs -------------------------
(***************************************************************************)
(* Proofs about RuntimeMeta, for any callers, names, lengths of ids and    *)
(* behaviour of the runtimes: what a call of runtime_meta that found       *)
(* nothing says about the runtime it asked.                                *)
(***************************************************************************)
EXTENDS RuntimeMeta, TLAPS

\* Where the two kinds of call are.
CrioPcs == {"attempt", "crio"}
ContainerdPcs == {"attempt", "connect", "get", "task"}
Active == CrioPcs \cup ContainerdPcs

Metas ==
    {NoMeta} \cup {CrioMeta(id, pid) : id \in Ids, pid \in BOOLEAN}
             \cup {ContainerdMeta(id, pid) : id \in Ids, pid \in BOOLEAN}

CallType ==
    [pc : Active \cup {"idle", "done"}, id : Ids \cup {NoId}, is_crio : BOOLEAN,
     attempt : 0..Attempts - 1, slept : Nat, broken : BOOLEAN, up : BOOLEAN,
     knew : BOOLEAN, ran : BOOLEAN, meta : Metas]

TypeOK ==
    /\ mode \in [{"crio", "containerd"} -> Modes]
    /\ changes \in Nat
    /\ container \in [Ids -> {"unknown", "created", "running", "gone"}]
    /\ cell \in {"empty", "init", "none", "client"}
    /\ call \in [Callers -> CallType]

\* A call under way asks for an id, at its runtime's steps.
Placed(c) ==
    call[c].pc \in Active =>
        /\ call[c].id \in Ids
        /\ call[c].pc \in IF call[c].is_crio THEN CrioPcs ELSE ContainerdPcs

\* What history says of a call under way is still so.
StillSo(c) ==
    call[c].pc \in Active =>
        /\ call[c].up => mode[Asked(c)] = "up" /\ ~call[c].broken
        /\ call[c].knew => Known(call[c].id)
        /\ call[c].ran => Running(call[c].id)

\* What a CRI-O call has slept so far: the delays of the attempts before this
\* one, and its own once it is over.
Waited(c) ==
    call[c].is_crio =>
        /\ call[c].pc = "attempt" => call[c].slept = IF call[c].attempt = 2 THEN 2 ELSE 0
        /\ call[c].pc = "crio" =>
               call[c].slept = IF call[c].attempt = 2 THEN 6 ELSE 2 * call[c].attempt

\* The properties, of one caller.
Found(c) ==
    Missed(c) /\ call[c].up /\ call[c].knew => ~call[c].is_crio /\ cell = "none"
HasPid(c) ==
    Finished(c) /\ call[c].up /\ call[c].ran /\ call[c].meta.reports_network
        => call[c].meta.init_pid
WaitedFor(c) ==
    Missed(c) /\ call[c].is_crio /\ call[c].up => call[c].slept = 6

Sound(c) ==
    Placed(c) /\ StillSo(c) /\ Waited(c) /\ Found(c) /\ HasPid(c) /\ WaitedFor(c)

Calls == TypeOK /\ \A c \in Callers : Sound(c)

\* The cell is being initialised by the one caller that connects: no second
\* connection can replace the stored result of the first.
OneConnects ==
    \A c \in Callers :
        call[c].pc = "connect" =>
            cell = "init" /\ \A d \in Callers \ {c} : call[d].pc # "connect"

IInv == Calls /\ OneConnects

-----------------------------------------------------------------------------
(* The records.                                                            *)

\* What the clients make of an answer is metadata, and is not NoMeta.
LEMMA MetaTypes ==
    /\ NoMeta \in Metas
    /\ \A id \in Ids, pid \in BOOLEAN :
           /\ CrioMeta(id, pid) \in Metas /\ ContainerdMeta(id, pid) \in Metas
           /\ CrioMeta(id, pid) # NoMeta /\ ContainerdMeta(id, pid) # NoMeta
           /\ CrioMeta(id, pid).init_pid = pid /\ ContainerdMeta(id, pid).init_pid = pid
    /\ ~NoMeta.reports_network
<1>1. \A id \in Ids, pid \in BOOLEAN :
          CrioMeta(id, pid) \in Metas /\ ContainerdMeta(id, pid) \in Metas
  BY DEF Metas
<1>2. \A id \in Ids, pid \in BOOLEAN :
          /\ CrioMeta(id, pid).namespace = "crio" /\ CrioMeta(id, pid).init_pid = pid
          /\ ContainerdMeta(id, pid).namespace = "containerd"
          /\ ContainerdMeta(id, pid).init_pid = pid
  BY DEF CrioMeta, ContainerdMeta
<1>3. NoMeta.namespace = "" /\ ~NoMeta.reports_network /\ NoMeta \in Metas
  BY DEF NoMeta, Metas
<1> QED BY <1>1, <1>2, <1>3

LEMMA IdleType == Idle \in CallType
BY MetaTypes DEF Idle, CallType, Attempts

\* A step of one caller, which leaves the runtimes alone and never takes a
\* failed connection back, is judged by that caller's record.
LEMMA OwnStep ==
    ASSUME Calls, NEW c \in Callers,
           UNCHANGED <<mode, changes, container>>,
           cell' \in {"empty", "init", "none", "client"},
           cell = "none" => cell' = "none",
           call' \in [Callers -> CallType],
           \A d \in Callers \ {c} : call'[d] = call[d],
           Sound(c)'
    PROVE  Calls'
<1>1. TypeOK'
  BY DEF Calls, TypeOK
<1>2. ASSUME NEW d \in Callers, d # c PROVE Sound(d)'
  <2>1. call'[d] = call[d] /\ Sound(d)
    BY <1>2 DEF Calls
  <2> QED BY <2>1 DEF Sound, Placed, StillSo, Waited, Found, HasPid, WaitedFor, Missed,
                      Finished, Asked, Known, Running
<1> QED BY <1>1, <1>2 DEF Calls

\* Return ends a call under way; what is left to show is what it found.
LEMMA Returned ==
    ASSUME Calls, NEW c \in Callers, NEW meta \in Metas,
           UNCHANGED <<mode, changes, container>>,
           cell' \in {"empty", "init", "none", "client"},
           cell = "none" => cell' = "none",
           Return(c, meta),
           call[c].up /\ call[c].knew /\ meta = NoMeta => ~call[c].is_crio /\ cell' = "none",
           call[c].up /\ call[c].ran /\ meta.reports_network => meta.init_pid,
           call[c].up /\ call[c].is_crio /\ meta = NoMeta => call[c].slept = 6
    PROVE  Calls'
<1> USE DEF Return
<1>1. call[c] \in CallType /\ call \in [Callers -> CallType]
  BY DEF Calls, TypeOK
<1>2. PICK r : r = [call[c] EXCEPT !.pc = "done", !.attempt = 0, !.broken = FALSE,
                                   !.meta = meta]
  OBVIOUS
<1>3. r \in CallType
  <2>1. r = [pc |-> "done", id |-> call[c].id, is_crio |-> call[c].is_crio, attempt |-> 0,
             slept |-> call[c].slept, broken |-> FALSE, up |-> call[c].up,
             knew |-> call[c].knew, ran |-> call[c].ran, meta |-> meta]
    BY <1>1, <1>2 DEF CallType
  <2> QED BY <1>1, <2>1 DEF CallType, Attempts
<1>4. call'[c] = r /\ \A d \in Callers \ {c} : call'[d] = call[d]
  BY <1>1, <1>2 DEF CallType
<1>5. call' \in [Callers -> CallType]
  BY <1>1, <1>2, <1>3 DEF CallType
<1>6. /\ r.pc = "done" /\ r.meta = meta /\ r.up = call[c].up /\ r.knew = call[c].knew
      /\ r.ran = call[c].ran /\ r.is_crio = call[c].is_crio /\ r.slept = call[c].slept
  BY <1>1, <1>2 DEF CallType
<1>7. Sound(c)'
  BY <1>4, <1>6 DEF Sound, Placed, StillSo, Waited, Found, HasPid, WaitedFor, Missed,
                    Finished, Active, CrioPcs, ContainerdPcs
<1> QED BY <1>4, <1>5, <1>7, OwnStep
-----------------------------------------------------------------------------
(* The steps of the runtimes.                                              *)

LEMMA ModeChangesKeeps ==
    ASSUME Calls, NEW r \in {"crio", "containerd"}, NEW m \in Modes, ModeChanges(r, m)
    PROVE  Calls'
<1> USE DEF ModeChanges
<1>1. TypeOK'
  <2>1. ASSUME NEW c \in Callers PROVE call'[c] \in CallType
    <3>1. call[c] \in CallType
      BY DEF Calls, TypeOK
    <3>2. PICK broken \in BOOLEAN : broken = (call[c].broken \/ m = "down")
      BY <3>1 DEF CallType
    <3>3. \/ call'[c] = call[c]
          \/ call'[c] = [call[c] EXCEPT !.up = FALSE, !.broken = broken]
      BY <3>2
    <3> QED BY <3>1, <3>3 DEF CallType
  <2>2. call' \in [Callers -> CallType]
    BY <2>1 DEF Calls, TypeOK
  <2>3. mode' \in [{"crio", "containerd"} -> Modes]
    BY DEF Calls, TypeOK
  <2>4. changes' \in Nat
    <3>1. changes \in Nat /\ changes' = changes + 1
      BY Zenon DEF Calls, TypeOK
    <3> HIDE DEF ModeChanges
    <3> QED BY <3>1
  <2> QED BY <2>2, <2>3, <2>4 DEF Calls, TypeOK
<1>2. ASSUME NEW c \in Callers PROVE Sound(c)'
  <2>1. Sound(c) /\ call[c] \in CallType /\ mode \in [{"crio", "containerd"} -> Modes]
    BY DEF Calls, TypeOK
  <2>2. CASE Busy(c, r)
    <3>1. /\ ~call'[c].up /\ call'[c].pc = call[c].pc /\ call'[c].id = call[c].id
          /\ call'[c].is_crio = call[c].is_crio /\ call'[c].knew = call[c].knew
          /\ call'[c].ran = call[c].ran /\ call'[c].attempt = call[c].attempt
          /\ call'[c].slept = call[c].slept
      BY <2>1, <2>2 DEF CallType
    <3> QED BY <2>1, <2>2, <3>1 DEF Sound, Placed, StillSo, Waited, Found, HasPid, WaitedFor,
                           Missed, Finished, Busy, Known, Running
  <2>3. CASE ~Busy(c, r)
    <3>1. call'[c] = call[c]
      BY <2>3
    <3>2. call[c].pc \in Active => Asked(c) # r
      BY <2>3 DEF Busy, Active, CrioPcs, ContainerdPcs
    <3>3. Asked(c) # r => mode'[Asked(c)] = mode[Asked(c)]
      BY <2>1 DEF Asked
    <3> QED BY <2>1, <3>1, <3>2, <3>3
            DEF Sound, Placed, StillSo, Waited, Found, HasPid, WaitedFor, Missed, Finished,
                Asked, Known, Running
  <2> QED BY <2>2, <2>3
<1> QED BY <1>1, <1>2 DEF Calls

LEMMA LivesKeeps ==
    ASSUME Calls, NEW b \in Basenames, Lives(b)
    PROVE  Calls'
<1>1. PICK id \in Ids : id = ExtractContainerId(b)
  BY DEF Lives, Ids
<1>2. PICK next \in {"created", "running", "gone"} :
          /\ next = CASE container[id] = "unknown" -> "created"
                      [] container[id] = "created" -> "running"
                      [] OTHER -> "gone"
          /\ container' = [container EXCEPT ![id] = next]
          /\ call' = [c \in Callers |->
                         IF call[c].pc # "done" /\ call[c].id = id /\ next = "gone"
                         THEN [call[c] EXCEPT !.knew = FALSE, !.ran = FALSE] ELSE call[c]]
  BY <1>1 DEF Lives
<1>3. UNCHANGED <<mode, changes, cell>>
  BY DEF Lives
<1>4. TypeOK'
  <2>1. ASSUME NEW c \in Callers PROVE call'[c] \in CallType
    BY <1>2, ZenonT(60) DEF Calls, TypeOK, CallType
  <2>2. call' \in [Callers -> CallType]
    BY <1>2, <2>1
  <2> QED BY <1>2, <1>3, <2>2 DEF Calls, TypeOK
<1>5. ASSUME NEW c \in Callers PROVE Sound(c)'
  <2>1. /\ Sound(c) /\ call[c] \in CallType
        /\ container \in [Ids -> {"unknown", "created", "running", "gone"}]
    BY DEF Calls, TypeOK
  <2>2. CASE call[c].pc # "done" /\ call[c].id = id /\ next = "gone"
    <3>1. /\ ~call'[c].knew /\ ~call'[c].ran /\ call'[c].pc = call[c].pc
          /\ call'[c].id = call[c].id /\ call'[c].is_crio = call[c].is_crio
          /\ call'[c].up = call[c].up /\ call'[c].attempt = call[c].attempt
          /\ call'[c].slept = call[c].slept /\ call'[c].broken = call[c].broken
      BY <1>2, <2>1, <2>2 DEF CallType
    <3> QED BY <1>3, <2>1, <2>2, <3>1
            DEF Sound, Placed, StillSo, Waited, Found, HasPid, WaitedFor, Missed, Finished,
                Asked
  <2>3. CASE ~(call[c].pc # "done" /\ call[c].id = id /\ next = "gone")
    <3>1. call'[c] = call[c]
      BY <1>2, <2>3
    <3>2. CASE call[c].pc = "done"
      BY <1>3, <2>1, <3>1, <3>2
      DEF Sound, Placed, StillSo, Waited, Found, HasPid, WaitedFor, Missed, Finished,
          Active, CrioPcs, ContainerdPcs
    <3>3. CASE call[c].pc # "done"
      <4>1. call[c].id \in Ids /\ Known(call[c].id) => Known(call[c].id)'
        BY <1>2, <2>1, <2>3, <3>1, <3>3 DEF Known
      <4>2. call[c].id \in Ids /\ Running(call[c].id) => Running(call[c].id)'
        BY <1>2, <2>1, <2>3, <3>1, <3>3 DEF Running
      <4> HIDE <1>2, <2>3
      <4> QED BY <1>3, <2>1, <3>1, <3>3, <4>1, <4>2
              DEF Sound, Placed, StillSo, Waited, Found, HasPid, WaitedFor, Missed, Finished,
                  Asked
    <3> QED BY <3>2, <3>3
  <2> QED BY <2>2, <2>3
<1> QED BY <1>4, <1>5 DEF Calls

-----------------------------------------------------------------------------
(* The steps of a call.                                                    *)

\* A step that moves a call on without ending it keeps what the call asks
\* for and what history says of it.
LEMMA MovedOn ==
    ASSUME Calls, NEW c \in Callers, NEW pc \in Active, NEW attempt \in 0..Attempts - 1,
           NEW slept \in Nat, NEW broken \in BOOLEAN,
           UNCHANGED <<mode, changes, container>>,
           cell' \in {"empty", "init", "none", "client"},
           cell = "none" => cell' = "none",
           call' = [d \in Callers |-> call'[d]],
           \A d \in Callers \ {c} : call'[d] = call[d],
           call'[c] = [pc |-> pc, id |-> call[c].id, is_crio |-> call[c].is_crio,
                       attempt |-> attempt, slept |-> slept, broken |-> broken,
                       up |-> call[c].up, knew |-> call[c].knew, ran |-> call[c].ran,
                       meta |-> call[c].meta],
           call[c].pc \in Active,
           pc \in IF call[c].is_crio THEN CrioPcs ELSE ContainerdPcs,
           broken => call[c].broken,
           call[c].is_crio /\ pc = "attempt" => slept = IF attempt = 2 THEN 2 ELSE 0,
           pc = "crio" => slept = IF attempt = 2 THEN 6 ELSE 2 * attempt
    PROVE  Calls'
<1>1. call[c] \in CallType /\ call \in [Callers -> CallType] /\ Sound(c)
  BY DEF Calls, TypeOK
<1>2. PICK r : r = call'[c]
  OBVIOUS
<1>3. r \in CallType
  BY <1>1, <1>2 DEF CallType
<1>4. call'[c] = r
  BY <1>2
<1>5. \A d \in Callers \ {c} : call'[d] = call[d]
  OBVIOUS
<1>6. call' \in [Callers -> CallType]
  BY <1>1, <1>3, <1>4
<1>7. /\ r.pc = pc /\ r.id = call[c].id /\ r.is_crio = call[c].is_crio
      /\ r.attempt = attempt /\ r.slept = slept /\ r.broken = broken /\ r.up = call[c].up
      /\ r.knew = call[c].knew /\ r.ran = call[c].ran
  BY <1>2
<1>8. Sound(c)'
  BY <1>1, <1>4, <1>7 DEF Sound, Placed, StillSo, Waited, Found, HasPid, WaitedFor, Missed,
           Finished, Asked, Known, Running, Active, CrioPcs, ContainerdPcs
<1> QED BY <1>4, <1>5, <1>6, <1>8, OwnStep

\* A caller that starts a call, or has none, is sound whatever happens.
LEMMA BeginKeeps ==
    ASSUME Calls, NEW c \in Callers, NEW b \in Basenames, Begin(c, b)
    PROVE  Calls'
<1>1. call \in [Callers -> CallType] /\ UNCHANGED <<mode, changes, container, cell>>
      /\ cell \in {"empty", "init", "none", "client"}
  BY DEF Calls, TypeOK, Begin
<1>2. PICK id : id = ExtractContainerId(b)
  OBVIOUS
<1>3. CASE Conmon(b) \/ id = NoId
  <2>1. call' = [call EXCEPT ![c] = Idle]
    BY <1>2, <1>3 DEF Begin
  <2>2. call'[c] = Idle /\ call' \in [Callers -> CallType]
        /\ \A d \in Callers \ {c} : call'[d] = call[d]
    BY <1>1, <2>1, IdleType
  <2>3. Sound(c)'
    BY <2>2 DEF Sound, Placed, StillSo, Waited, Found, HasPid, WaitedFor, Missed, Finished,
                Active, CrioPcs, ContainerdPcs, Idle
  <2> QED BY <1>1, <2>2, <2>3, OwnStep
<1>4. CASE ~(Conmon(b) \/ id = NoId)
  <2>1. PICK up, knew, ran, is_crio \in BOOLEAN :
            /\ up = (mode[Runtime(b)] = "up") /\ knew = Known(id) /\ ran = Running(id)
            /\ is_crio = IsCrio(b)
    <3>1. (mode[Runtime(b)] = "up") \in BOOLEAN
      OBVIOUS
    <3>2. Known(id) \in BOOLEAN
      BY DEF Known
    <3>3. Running(id) \in BOOLEAN
      BY DEF Running
    <3>4. IsCrio(b) \in BOOLEAN
      BY DEF IsCrio, IsPrefix
    <3> QED BY <3>1, <3>2, <3>3, <3>4, Zenon
  <2>2. PICK r : r = [pc |-> "attempt", id |-> id, is_crio |-> is_crio, attempt |-> 0,
                      slept |-> 0, broken |-> FALSE, up |-> up, knew |-> knew, ran |-> ran,
                      meta |-> NoMeta]
    OBVIOUS
  <2>3. id \in Ids
    BY <1>2, <1>4 DEF Ids
  <2>4. r \in CallType
    BY <2>2, <2>3, MetaTypes DEF CallType, Active, CrioPcs, Attempts
  <2>5. call' = [call EXCEPT ![c] = r]
    <3>1. call' = [call EXCEPT ![c] =
                     [Idle EXCEPT !.pc = "attempt", !.id = id, !.is_crio = IsCrio(b),
                                  !.up = mode[Runtime(b)] = "up",
                                  !.knew = Known(id), !.ran = Running(id)]]
      BY <1>2, <1>4, Zenon DEF Begin
    <3>2. call' = [call EXCEPT ![c] =
                     [Idle EXCEPT !.pc = "attempt", !.id = id, !.is_crio = is_crio,
                                  !.up = up, !.knew = knew, !.ran = ran]]
      BY <2>1, <3>1, Zenon
    <3>3. r = [Idle EXCEPT !.pc = "attempt", !.id = id, !.is_crio = is_crio,
                           !.up = up, !.knew = knew, !.ran = ran]
      <4>1. /\ Idle.attempt = 0 /\ Idle.slept = 0 /\ Idle.broken = FALSE
            /\ Idle.meta = NoMeta
        BY DEF Idle
      <4>2. PICK e : e = [Idle EXCEPT !.pc = "attempt", !.id = id, !.is_crio = is_crio,
                                      !.up = up, !.knew = knew, !.ran = ran]
        OBVIOUS
      <4>3. e \in CallType
        BY <2>3, <4>2, IdleType, ZenonT(60) DEF CallType, Active, CrioPcs
      <4>4. /\ e.pc = "attempt" /\ e.id = id /\ e.is_crio = is_crio /\ e.up = up
            /\ e.knew = knew /\ e.ran = ran /\ e.attempt = Idle.attempt
            /\ e.slept = Idle.slept /\ e.broken = Idle.broken /\ e.meta = Idle.meta
        BY <4>2, IdleType DEF CallType
      <4>5. r = e
        BY <2>2, <4>1, <4>3, <4>4 DEF CallType
      <4> QED BY <4>2, <4>5
    <3> QED BY <3>2, <3>3, Zenon
  <2>6. call'[c] = r /\ call' \in [Callers -> CallType]
        /\ \A d \in Callers \ {c} : call'[d] = call[d]
    BY <1>1, <2>4, <2>5
  <2>7. /\ r.pc = "attempt" /\ r.id = id /\ r.is_crio = is_crio /\ r.attempt = 0
        /\ r.slept = 0 /\ ~r.broken /\ r.up = up /\ r.knew = knew /\ r.ran = ran
    BY <2>2
  <2>8. Asked(c)' = Runtime(b)
    BY <2>1, <2>6, <2>7 DEF Asked, Runtime
  <2>9. Sound(c)'
    BY <1>1, <2>1, <2>3, <2>6, <2>7, <2>8
    DEF Sound, Placed, StillSo, Waited, Found, HasPid, WaitedFor, Missed, Finished,
        Known, Running, CrioPcs, ContainerdPcs
  <2> QED BY <1>1, <2>6, <2>9, OwnStep
<1> QED BY <1>3, <1>4

LEMMA UseKeeps ==
    ASSUME Calls, NEW c \in Callers, Use(c)
    PROVE  Calls'
<1>1. call \in [Callers -> CallType] /\ UNCHANGED <<mode, changes, container, cell>>
      /\ cell \in {"empty", "init", "none", "client"}
  BY DEF Calls, TypeOK, Use
<1>2. call'[c] = Idle /\ call' \in [Callers -> CallType]
      /\ \A d \in Callers \ {c} : call'[d] = call[d]
  BY <1>1, IdleType DEF Use
<1>3. Sound(c)'
  BY <1>2 DEF Sound, Placed, StillSo, Waited, Found, HasPid, WaitedFor, Missed, Finished,
              Active, CrioPcs, ContainerdPcs, Idle
<1> QED BY <1>1, <1>2, <1>3, OwnStep

\* An attempt's delay is over: the call asks, and has slept that much more.
LEMMA SendKeeps ==
    ASSUME Calls, NEW c \in Callers, NEW pc \in Active,
           UNCHANGED <<mode, changes, container>>,
           cell' \in {"empty", "init", "none", "client"},
           cell = "none" => cell' = "none",
           Send(c, pc), call[c].pc = "attempt", pc # "attempt",
           pc \in IF call[c].is_crio THEN CrioPcs ELSE ContainerdPcs
    PROVE  Calls'
<1>1. call[c] \in CallType /\ call \in [Callers -> CallType] /\ Waited(c)
  BY DEF Calls, TypeOK, Sound
<1>2. PICK slept : slept = Slept(c)
  OBVIOUS
<1>3. slept = call[c].slept + IF call[c].attempt = 0 THEN 0
                              ELSE IF call[c].attempt = 1 THEN 2 ELSE 4
  <2>1. call[c].attempt \in 0..2
    BY <1>1 DEF CallType, Attempts
  <2>2. CASE call[c].attempt = 0
    BY <1>2, <2>2 DEF Slept
  <2>3. CASE call[c].attempt = 1
    <3>1. 2 ^ 1 = 2
      OBVIOUS
    <3> QED BY <1>2, <2>3, <3>1 DEF Slept
  <2>4. CASE call[c].attempt = 2
    <3>1. 2 ^ 2 = 4
      OBVIOUS
    <3> QED BY <1>2, <2>4, <3>1 DEF Slept
  <2> QED BY <2>1, <2>2, <2>3, <2>4
<1>4. slept \in Nat
  BY <1>1, <1>3 DEF CallType
<1>5. call' = [call EXCEPT ![c].pc = pc, ![c].slept = slept, ![c].broken = FALSE]
  BY <1>2, Zenon DEF Send
<1>6. call'[c] = [pc |-> pc, id |-> call[c].id, is_crio |-> call[c].is_crio,
                  attempt |-> call[c].attempt, slept |-> slept, broken |-> FALSE,
                  up |-> call[c].up, knew |-> call[c].knew, ran |-> call[c].ran,
                  meta |-> call[c].meta]
  BY <1>1, <1>5 DEF CallType
<1>7. /\ call' = [d \in Callers |-> call'[d]]
      /\ \A d \in Callers \ {c} : call'[d] = call[d]
  BY <1>1, <1>5 DEF CallType
<1>8. pc = "crio" => call[c].is_crio
  BY DEF ContainerdPcs
<1>9. call[c].attempt \in 0..Attempts - 1 /\ call[c].attempt \in 0..2
  BY <1>1 DEF CallType, Attempts
<1>10. pc = "crio" => slept = IF call[c].attempt = 2 THEN 6 ELSE 2 * call[c].attempt
  BY <1>1, <1>3, <1>8, <1>9 DEF Waited
<1> HIDE <1>2, <1>3, <1>5
<1>11. call[c].pc \in Active
  BY DEF Active, CrioPcs
<1> QED BY <1>4, <1>6, <1>7, <1>9, <1>10, <1>11, MovedOn, ZenonT(60)

\* A failure that is tried again; the last one ends the call with nothing.
LEMMA RetryKeeps ==
    ASSUME Calls, NEW c \in Callers, UNCHANGED <<mode, changes, container, cell>>,
           Retry(c), call[c].pc \in {"crio", "get"},
           call[c].up => ~call[c].knew
    PROVE  Calls'
<1>1. /\ call[c] \in CallType /\ call \in [Callers -> CallType] /\ Waited(c) /\ Placed(c)
      /\ cell \in {"empty", "init", "none", "client"}
  BY DEF Calls, TypeOK, Sound
<1>2. call[c].attempt \in 0..2 /\ Attempts = 3
  BY <1>1 DEF CallType, Attempts
<1>3. call[c].pc \in Active /\ (call[c].is_crio => call[c].pc = "crio")
  BY <1>1 DEF Placed, Active, CrioPcs, ContainerdPcs
<1>4. CASE call[c].attempt = 2
  <2>1. Return(c, NoMeta)
    BY <1>2, <1>4 DEF Retry
  <2>2. call[c].is_crio => call[c].slept = 6
    BY <1>1, <1>3, <1>4 DEF Waited
  <2> QED BY <1>1, <2>1, <2>2, MetaTypes, Returned
<1>5. CASE call[c].attempt # 2
  <2>1. PICK attempt \in {1, 2} : attempt = call[c].attempt + 1
    BY <1>2, <1>5
  <2>2. call' = [call EXCEPT ![c].pc = "attempt", ![c].attempt = attempt]
    <3>1. call[c].attempt + 1 < Attempts
      BY <1>2, <1>5
    <3> QED BY <2>1, <3>1, Zenon DEF Retry
  <2>3. call'[c] = [pc |-> "attempt", id |-> call[c].id, is_crio |-> call[c].is_crio,
                    attempt |-> attempt, slept |-> call[c].slept,
                    broken |-> call[c].broken, up |-> call[c].up, knew |-> call[c].knew,
                    ran |-> call[c].ran, meta |-> call[c].meta]
    BY <1>1, <2>2 DEF CallType
  <2>4. /\ call' = [d \in Callers |-> call'[d]]
        /\ \A d \in Callers \ {c} : call'[d] = call[d]
    BY <1>1, <2>2 DEF CallType
  <2>5. call[c].slept \in Nat /\ call[c].broken \in BOOLEAN
        /\ attempt \in 0..Attempts - 1
    BY <1>1, <1>2, <2>1 DEF CallType
  <2>6. call[c].is_crio => call[c].slept = IF attempt = 2 THEN 2 ELSE 0
    BY <1>1, <1>2, <1>3, <1>5, <2>1 DEF Waited
  <2>7. "attempt" \in Active
        /\ "attempt" \in IF call[c].is_crio THEN CrioPcs ELSE ContainerdPcs
    BY DEF Active, CrioPcs, ContainerdPcs
  <2> HIDE <2>1, <2>2
  <2> QED BY <1>1, <1>3, <2>3, <2>4, <2>5, <2>6, <2>7, MovedOn
<1> QED BY <1>4, <1>5

LEMMA AttemptCrioKeeps ==
    ASSUME Calls, NEW c \in Callers, AttemptCrio(c)
    PROVE  Calls'
<1>1. /\ StillSo(c) /\ cell \in {"empty", "init", "none", "client"}
      /\ UNCHANGED <<mode, changes, container, cell>>
      /\ call[c].pc = "attempt" /\ call[c].is_crio
  BY DEF Calls, TypeOK, Sound, AttemptCrio
<1>2. CASE mode["crio"] = "down"
  <2>1. Return(c, NoMeta)
    BY <1>2 DEF AttemptCrio
  <2>2. ~call[c].up
    BY <1>1, <1>2 DEF StillSo, Asked, Active, CrioPcs
  <2> QED BY <1>1, <2>1, <2>2, MetaTypes, Returned
<1>3. CASE mode["crio"] # "down"
  <2>1. Send(c, "crio") /\ "crio" \in Active /\ "crio" \in CrioPcs
    BY <1>3 DEF AttemptCrio, Active, CrioPcs
  <2> QED BY <1>1, <2>1, SendKeeps
<1> QED BY <1>2, <1>3

LEMMA CrioReplyKeeps ==
    ASSUME Calls, NEW c \in Callers, CrioReply(c)
    PROVE  Calls'
<1>1. /\ StillSo(c) /\ Placed(c) /\ cell \in {"empty", "init", "none", "client"}
      /\ UNCHANGED <<mode, changes, container, cell>>
      /\ call[c].pc = "crio"
  BY DEF Calls, TypeOK, Sound, CrioReply
<1>2. PICK id : id = call[c].id
  OBVIOUS
<1>3. /\ call[c].is_crio /\ id \in Ids
      /\ call[c].up => mode["crio"] = "up" /\ ~call[c].broken
      /\ call[c].knew => Known(id)
      /\ call[c].ran => Running(id)
  BY <1>1, <1>2 DEF StillSo, Placed, Asked, Active, CrioPcs, ContainerdPcs
<1>4. CASE Known(id) /\ Return(c, CrioMeta(id, Running(id)))
  <2>1. PICK pid \in BOOLEAN : pid = Running(id)
    BY Zenon DEF Running
  <2>2. PICK meta \in Metas : meta = CrioMeta(id, pid) /\ meta # NoMeta /\ meta.init_pid = pid
    BY <1>3, MetaTypes
  <2>3. Return(c, meta)
    BY <1>4, <2>1, <2>2, Zenon
  <2>4. call[c].ran => meta.init_pid
    BY <1>3, <2>1, <2>2
  <2> QED BY <1>1, <2>2, <2>3, <2>4, Returned
<1>5. CASE ~Known(id) /\ Retry(c)
  BY <1>1, <1>3, <1>5, RetryKeeps
<1>6. CASE ~(mode["crio"] = "up" /\ ~call[c].broken) /\ Return(c, NoMeta)
  <2>1. ~call[c].up
    BY <1>3, <1>6
  <2> QED BY <1>1, <1>6, <2>1, MetaTypes, Returned
<1> QED BY <1>2, <1>4, <1>5, <1>6 DEF CrioReply

LEMMA AttemptContainerdKeeps ==
    ASSUME Calls, NEW c \in Callers, AttemptContainerd(c)
    PROVE  Calls'
<1>1. /\ cell \in {"empty", "init", "none", "client"}
      /\ UNCHANGED <<mode, changes, container>>
      /\ call[c].pc = "attempt" /\ ~call[c].is_crio
  BY DEF Calls, TypeOK, AttemptContainerd
<1>2. {"connect", "get"} \subseteq Active /\ {"connect", "get"} \subseteq ContainerdPcs
  BY DEF Active, ContainerdPcs
<1>3. CASE cell = "empty" /\ cell' = "init" /\ Send(c, "connect")
  BY <1>1, <1>2, <1>3, SendKeeps
<1>4. CASE cell = "client" /\ Send(c, "get") /\ UNCHANGED cell
  BY <1>1, <1>2, <1>4, SendKeeps
<1>5. CASE cell = "none" /\ Return(c, NoMeta) /\ UNCHANGED cell
  BY <1>1, <1>5, MetaTypes, Returned
<1> QED BY <1>3, <1>4, <1>5 DEF AttemptContainerd

\* A step that goes on with the same attempt changes the position only ...
LEMMA GoOnRecord ==
    ASSUME Calls, NEW c \in Callers, NEW pc, call' = [call EXCEPT ![c].pc = pc]
    PROVE  /\ call' = [d \in Callers |-> call'[d]]
           /\ \A d \in Callers \ {c} : call'[d] = call[d]
           /\ call'[c] = [pc |-> pc, id |-> call[c].id, is_crio |-> call[c].is_crio,
                          attempt |-> call[c].attempt, slept |-> call[c].slept,
                          broken |-> call[c].broken, up |-> call[c].up,
                          knew |-> call[c].knew, ran |-> call[c].ran,
                          meta |-> call[c].meta]
<1>1. call[c] \in CallType /\ call \in [Callers -> CallType]
  BY DEF Calls, TypeOK
<1> QED BY <1>1 DEF CallType

\* ... and keeps the invariant.
LEMMA GoOn ==
    ASSUME Calls, NEW c \in Callers, NEW pc \in {"get", "task"},
           UNCHANGED <<mode, changes, container>>,
           cell' \in {"empty", "init", "none", "client"},
           cell = "none" => cell' = "none",
           call' = [d \in Callers |-> call'[d]],
           \A d \in Callers \ {c} : call'[d] = call[d],
           call'[c] = [pc |-> pc, id |-> call[c].id, is_crio |-> call[c].is_crio,
                       attempt |-> call[c].attempt, slept |-> call[c].slept,
                       broken |-> call[c].broken, up |-> call[c].up,
                       knew |-> call[c].knew, ran |-> call[c].ran,
                       meta |-> call[c].meta],
           call[c].pc \in {"connect", "get"}
    PROVE  Calls'
<1>1. call[c] \in CallType /\ Placed(c)
  BY DEF Calls, TypeOK, Sound
<1>2. /\ call[c].slept \in Nat /\ call[c].broken \in BOOLEAN
      /\ call[c].attempt \in 0..Attempts - 1
  BY <1>1 DEF CallType
<1>3. /\ ~call[c].is_crio /\ call[c].pc \in Active
      /\ pc \in Active /\ pc \in ContainerdPcs /\ pc # "crio" /\ pc # "attempt"
  BY <1>1 DEF Placed, Active, CrioPcs, ContainerdPcs
<1> QED BY <1>2, <1>3, MovedOn

LEMMA ConnectKeeps ==
    ASSUME Calls, OneConnects, NEW c \in Callers, Connect(c)
    PROVE  Calls'
<1>1. /\ StillSo(c) /\ Placed(c) /\ UNCHANGED <<mode, changes, container>>
      /\ call[c].pc = "connect" /\ cell = "init"
  BY DEF Calls, Sound, Connect, OneConnects
<1>2. call[c].up => mode["containerd"] = "up" /\ ~call[c].broken
  BY <1>1 DEF StillSo, Placed, Asked, Active, CrioPcs, ContainerdPcs
<1>3. CASE mode["containerd"] = "down" \/ call[c].broken
  <2>1. cell' = "none" /\ Return(c, NoMeta)
    BY <1>3 DEF Connect
  <2>2. ~call[c].up
    BY <1>2, <1>3
  <2> QED BY <1>1, <2>1, <2>2, MetaTypes, Returned
<1>4. CASE ~(mode["containerd"] = "down" \/ call[c].broken)
  <2>1. cell' = "client" /\ call' = [call EXCEPT ![c].pc = "get"]
    BY <1>4 DEF Connect
  <2>2. PICK pc \in {"get", "task"} : pc = "get"
    OBVIOUS
  <2>3. call' = [call EXCEPT ![c].pc = pc]
    BY <2>1, <2>2
  <2>4. cell' = "client"
    BY <2>1
  <2> HIDE <2>1
  <2> QED BY <1>1, <2>3, <2>4, GoOnRecord, GoOn
<1> QED BY <1>3, <1>4

LEMMA ContainersGetKeeps ==
    ASSUME Calls, NEW c \in Callers, ContainersGet(c)
    PROVE  Calls'
<1>1. /\ StillSo(c) /\ Placed(c) /\ cell \in {"empty", "init", "none", "client"}
      /\ UNCHANGED <<mode, changes, container, cell>>
      /\ call[c].pc = "get"
  BY DEF Calls, TypeOK, Sound, ContainersGet
<1>2. /\ call[c].up => mode["containerd"] = "up" /\ ~call[c].broken
      /\ call[c].knew => Known(call[c].id)
      /\ ~call[c].is_crio
  BY <1>1 DEF StillSo, Placed, Asked, Active, CrioPcs, ContainerdPcs
<1>3. CASE call' = [call EXCEPT ![c].pc = "task"]
  <2>1. PICK pc \in {"get", "task"} : pc = "task"
    OBVIOUS
  <2>2. call' = [call EXCEPT ![c].pc = pc]
    BY <1>3, <2>1
  <2> QED BY <1>1, <2>2, GoOnRecord, GoOn
<1>4. CASE ~Known(call[c].id) /\ Return(c, NoMeta)
  BY <1>1, <1>2, <1>4, MetaTypes, Returned
<1>5. CASE ~(mode["containerd"] = "up" /\ ~call[c].broken) /\ Retry(c)
  BY <1>1, <1>2, <1>5, RetryKeeps
<1> QED BY <1>3, <1>4, <1>5 DEF ContainersGet

LEMMA TasksGetKeeps ==
    ASSUME Calls, NEW c \in Callers, TasksGet(c)
    PROVE  Calls'
<1>1. /\ StillSo(c) /\ Placed(c) /\ cell \in {"empty", "init", "none", "client"}
      /\ UNCHANGED <<mode, changes, container, cell>>
      /\ call[c].pc = "task"
  BY DEF Calls, TypeOK, Sound, TasksGet
<1>2. PICK id : id = call[c].id
  OBVIOUS
<1>3. /\ call[c].up => mode["containerd"] = "up" /\ ~call[c].broken
      /\ call[c].ran => Running(id)
      /\ ~call[c].is_crio /\ id \in Ids
  BY <1>1, <1>2 DEF StillSo, Placed, Asked, Active, CrioPcs, ContainerdPcs
<1>4. PICK pid \in BOOLEAN :
          pid = ((mode["containerd"] = "up" /\ ~call[c].broken) /\ Running(id))
  BY Zenon
<1>5. PICK meta \in Metas :
          meta = ContainerdMeta(id, pid) /\ meta # NoMeta /\ meta.init_pid = pid
  BY <1>3, MetaTypes
<1>6. Return(c, meta)
  BY <1>2, <1>4, <1>5, Zenon DEF TasksGet
<1>7. call[c].up /\ call[c].ran => meta.init_pid
  BY <1>3, <1>4, <1>5
<1> QED BY <1>1, <1>5, <1>6, <1>7, Returned
-----------------------------------------------------------------------------
(* The cell.                                                               *)

\* Who connects after a step of c: nobody who did not, except c itself when it
\* found the cell empty.
LEMMA WhoConnects ==
    ASSUME Calls, NEW c \in Callers, Step(c)
    PROVE  /\ \A d \in Callers \ {c} : call'[d] = call[d]
           /\ \/ call'[c].pc # "connect" /\ (cell' = cell \/ call[c].pc = "connect")
              \/ cell = "empty" /\ cell' = "init"
<1>1. call[c] \in CallType /\ call \in [Callers -> CallType]
  BY DEF Calls, TypeOK
<1>2. ASSUME NEW meta, Return(c, meta)
      PROVE  call'[c].pc = "done" /\ \A d \in Callers \ {c} : call'[d] = call[d]
  BY <1>1, <1>2 DEF Return, CallType
<1>3. ASSUME NEW pc, Send(c, pc)
      PROVE  call'[c].pc = pc /\ \A d \in Callers \ {c} : call'[d] = call[d]
  <2>1. PICK slept : slept = Slept(c)
    OBVIOUS
  <2>2. call' = [call EXCEPT ![c].pc = pc, ![c].slept = slept, ![c].broken = FALSE]
    BY <1>3, <2>1, Zenon DEF Send
  <2> QED BY <1>1, <2>2 DEF CallType
<1>4. ASSUME NEW pc, call' = [call EXCEPT ![c].pc = pc]
      PROVE  call'[c].pc = pc /\ \A d \in Callers \ {c} : call'[d] = call[d]
  BY <1>1, <1>4 DEF CallType
<1>5. ASSUME Retry(c)
      PROVE  /\ call'[c].pc \in {"attempt", "done"}
             /\ \A d \in Callers \ {c} : call'[d] = call[d]
  <2>1. CASE Return(c, NoMeta)
    BY <1>2, <2>1
  <2>2. CASE call' = [call EXCEPT ![c].pc = "attempt", ![c].attempt = @ + 1]
    BY <1>1, <2>2 DEF CallType
  <2> QED BY <1>5, <2>1, <2>2 DEF Retry
<1>6. CASE AttemptCrio(c)
  BY <1>2, <1>3, <1>6 DEF AttemptCrio
<1>7. CASE CrioReply(c)
  <2>1. PICK meta : Return(c, meta) \/ Retry(c)
    BY <1>7 DEF CrioReply
  <2>2. cell' = cell
    BY <1>7 DEF CrioReply
  <2> QED BY <1>2, <1>5, <2>1, <2>2
<1>8. CASE AttemptContainerd(c)
  BY <1>2, <1>3, <1>8 DEF AttemptContainerd
<1>9. CASE Connect(c)
  BY <1>2, <1>4, <1>9 DEF Connect
<1>10. CASE ContainersGet(c)
  BY <1>2, <1>4, <1>5, <1>10 DEF ContainersGet
<1>11. CASE TasksGet(c)
  <2>1. PICK meta : Return(c, meta)
    BY <1>11 DEF TasksGet
  <2>2. cell' = cell
    BY <1>11 DEF TasksGet
  <2> QED BY <1>2, <2>1, <2>2
<1>12. CASE Use(c)
  BY <1>1, <1>12 DEF Use, Idle
<1> QED BY <1>6, <1>7, <1>8, <1>9, <1>10, <1>11, <1>12 DEF Step

LEMMA StepConnects ==
    ASSUME Calls, OneConnects, NEW c \in Callers, Step(c)
    PROVE  OneConnects'
<1>1. ASSUME NEW a \in Callers, call'[a].pc = "connect"
      PROVE  cell' = "init" /\ \A d \in Callers \ {a} : call'[d].pc # "connect"
  <2>1. CASE a = c
    <3>1. cell = "empty" /\ cell' = "init"
      BY <1>1, <2>1, WhoConnects
    <3>2. \A d \in Callers : call[d].pc # "connect"
      BY <3>1 DEF OneConnects
    <3> QED BY <2>1, <3>1, <3>2, WhoConnects
  <2>2. CASE a # c
    <3>1. call[a].pc = "connect"
      BY <1>1, <2>2, WhoConnects
    <3>2. cell = "init" /\ \A d \in Callers \ {a} : call[d].pc # "connect"
      BY <3>1 DEF OneConnects
    <3>3. cell' = cell /\ call'[c].pc # "connect"
      BY <2>2, <3>2, WhoConnects
    <3> QED BY <2>2, <3>2, <3>3, WhoConnects
  <2> QED BY <2>1, <2>2
<1> QED BY <1>1 DEF OneConnects

\* The runtimes and a call's begin leave the cell and the positions alone.
LEMMA OthersConnect ==
    ASSUME OneConnects, cell' = cell,
           \A c \in Callers : call'[c].pc = "connect" => call[c].pc = "connect"
    PROVE  OneConnects'
BY DEF OneConnects
-----------------------------------------------------------------------------
(* The theorems.                                                           *)

\* What history says of a call under way is still so, and a call that is over
\* says the truth about its runtime: for any callers and names.
THEOREM RuntimeMetaInvariant == Spec => []IInv
<1>1. Init => IInv
  <2> SUFFICES ASSUME Init PROVE IInv
    OBVIOUS
  <2>1. TypeOK
    BY IdleType DEF Init, TypeOK
  <2>2. ASSUME NEW c \in Callers PROVE Sound(c)
    <3>1. call[c] = Idle
      BY DEF Init
    <3> QED BY <3>1 DEF Sound, Placed, StillSo, Waited, Found, HasPid, WaitedFor, Missed,
                        Finished, Active, CrioPcs, ContainerdPcs, Idle
  <2>3. OneConnects
    BY DEF Init, Idle, OneConnects
  <2> QED BY <2>1, <2>2, <2>3 DEF IInv, Calls
<1>2. IInv /\ [Next]_vars => IInv'
  <2> SUFFICES ASSUME IInv, [Next]_vars PROVE IInv'
    OBVIOUS
  <2> USE DEF IInv
  <2>0. call \in [Callers -> CallType]
    BY DEF Calls, TypeOK
  <2>1. ASSUME NEW r \in {"crio", "containerd"}, NEW m \in Modes, ModeChanges(r, m)
        PROVE  IInv'
    <3>1. cell' = cell /\ \A c \in Callers : call'[c].pc = call[c].pc
      BY <2>0, <2>1 DEF ModeChanges, CallType
    <3> QED BY <2>1, <3>1, ModeChangesKeeps, OthersConnect
  <2>2. ASSUME NEW b \in Basenames, Lives(b) PROVE IInv'
    <3>1. cell' = cell /\ \A c \in Callers : call'[c].pc = call[c].pc
      BY <2>0, <2>2 DEF Lives, CallType
    <3> QED BY <2>2, <3>1, LivesKeeps, OthersConnect
  <2>3. ASSUME NEW c \in Callers, Step(c) PROVE IInv'
    <3>1. Calls'
      BY <2>3, AttemptCrioKeeps, CrioReplyKeeps, AttemptContainerdKeeps, ConnectKeeps,
         ContainersGetKeeps, TasksGetKeeps, UseKeeps DEF Step
    <3> QED BY <2>3, <3>1, StepConnects
  <2>4. ASSUME NEW c \in Callers, NEW b \in Basenames, Begin(c, b) PROVE IInv'
    <3>1. call'[c].pc # "connect" /\ \A d \in Callers \ {c} : call'[d] = call[d]
      BY <2>0, <2>4 DEF Begin, Idle
    <3>2. cell' = cell
      BY <2>4 DEF Begin
    <3> QED BY <2>4, <3>1, <3>2, BeginKeeps, OthersConnect
  <2>5. CASE UNCHANGED vars
    BY <2>5 DEF vars, Calls, OneConnects, TypeOK, Sound, Placed, StillSo, Waited, Found, HasPid, WaitedFor,
                Missed, Finished, Asked, Known, Running
  <2> QED BY <2>1, <2>2, <2>3, <2>4, <2>5 DEF Next
<1> QED BY <1>1, <1>2, PTL DEF Spec

\* runtime_meta loses no container that its runtime knew and could be asked
\* about throughout the call, except to a containerd that was never reached,
\* and a pod sandbox that ran throughout is registered with its pid.
THEOREM RuntimeMetaFindsTheKnown == Spec => []KnownIsFound
<1>1. IInv => KnownIsFound
  BY DEF IInv, Calls, Sound, Found, HasPid, KnownIsFound, MetaIsFound, SandboxHasPid
<1> QED BY <1>1, RuntimeMetaInvariant, PTL

\* runtime_meta gives up on a CRI-O container only when both delays are over,
\* as long as CRI-O could be asked throughout.
THEOREM RuntimeMetaWaitsForCrio == Spec => []CrioRaceIsWaitedFor
<1>1. IInv => CrioRaceIsWaitedFor
  BY DEF IInv, Calls, Sound, WaitedFor, CrioRaceIsWaitedFor
<1> QED BY <1>1, RuntimeMetaInvariant, PTL

=============================================================================
