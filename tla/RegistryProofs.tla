--------------------------- MODULE RegistryProofs ---------------------------
(***************************************************************************)
(* Proofs about Registry, for every hierarchy of cgroups, every stream of  *)
(* watch events (complete or not) and every number of handles.             *)
(***************************************************************************)
EXTENDS Registry, TLAPS

Inserts == {"record", "spawn", "store"}
Deletes == {"abort", "delete"}

\* An actor works on a cgroup other than the root, and holds a handle exactly
\* while it inserts or removes one.
ActorOK ==
    \A a \in Actors :
        /\ actor[a].pc \in AddPcs \cup RemovePcs => actor[a].arg \in Names
        /\ actor[a].hnd = NoHandle <=> actor[a].pc \notin Inserts \cup Deletes

\* Two actors that hold one handle: one inserts it, the other removes it.
Exclusive ==
    \A a, b \in Actors :
        a # b /\ actor[a].hnd = actor[b].hnd /\ actor[a].hnd # NoHandle
            => (actor[a].pc \in Inserts <=> actor[b].pc \in Deletes)

\* A handle is registered under its own name only.
NamedInMap == \A n \in Registered : handle[containers[n]].name = n

\* A handle in the hands of a removal has left the map.
RemovedFromMap == \A a \in Actors : actor[a].pc \in Deletes => ~InMap(actor[a].hnd)

Removers(h) == {a \in Actors : Removing(a, h)}
Inserters(h) == {a \in Actors : Inserting(a, h)}

\* Until its removal has looked for its task, a handle has not been aborted,
\* and its task has been started and stored once nobody is inserting it.
Unaborted ==
    \A h \in Handles :
        InMap(h) \/ Removers(h) # {} =>
            /\ handle[h].slot # "taken" /\ handle[h].task # "doomed"
            /\ Inserters(h) = {} => handle[h].slot = "held" /\ handle[h].task # "none"

\* While a handle is being inserted its slot is unset; if it has been removed
\* in the meantime, that removal found the slot unset.
Insertion ==
    \A a \in Actors : actor[a].pc \in Inserts =>
        LET h == actor[a].hnd IN
        /\ handle[h].slot = "unset" /\ handle[h].task # "doomed"
        /\ handle[h].task = "none" <=> actor[a].pc # "store"
        /\ InMap(h) \/ Removers(h) # {} \/ handle[h].overtaken


-----------------------------------------------------------------------------
(* Typing *)

USE DEF NoHandle

\* The values the actions store have the right type.
LEMMA UpdateTypes ==
    /\ \A n \in Names \cup {Root}, i \in Nat : NewHandle(n, i) \in Handle
    /\ \A l \in {"recv"} \cup AddPcs \cup RemovePcs \cup SweepPcs : Idle(l) \in Actor
<1>1. ASSUME NEW n \in Names \cup {Root}, NEW i \in Nat
      PROVE  NewHandle(n, i) \in Handle
  <2>1. <<>> \in Seq({"Creation", "Deletion"})
    OBVIOUS
  <2> QED
    BY <2>1 DEF NewHandle, Handle, Tasks
<1>2. ASSUME NEW l \in {"recv"} \cup AddPcs \cup RemovePcs \cup SweepPcs
      PROVE  Idle(l) \in Actor
  BY DEF Idle, Actor
<1> QED
  BY <1>1, <1>2

\* An actor that moves to another label of its task is still an actor.
LEMMA TypeGoto ==
    ASSUME TypeOK, NEW a \in Actors,
           NEW l \in {"recv"} \cup AddPcs \cup RemovePcs \cup SweepPcs, Goto(a, l)
    PROVE  /\ actor' \in [Actors -> Actor]
           /\ actor'[a].pc = l /\ actor'[a].arg = actor[a].arg
           /\ actor'[a].inc = actor[a].inc /\ actor'[a].hnd = actor[a].hnd
           /\ \A b \in Actors \ {a} : actor'[b] = actor[b]
  BY DEF TypeOK, Goto, Actor

\* An actor whose add_container or remove_container returns is idle again.
LEMMA TypeReturn ==
    ASSUME TypeOK, NEW a \in Actors, Return(a)
    PROVE  /\ actor' \in [Actors -> Actor]
           /\ actor'[a].pc \in {"recv", "adding", "checking"}
           /\ actor'[a].hnd = NoHandle
           /\ \A b \in Actors \ {a} : actor'[b] = actor[b]
<1>1. PICK l \in {"recv", "adding", "checking"} : actor' = [actor EXCEPT ![a] = Idle(l)]
  BY DEF Return
<1>2. l \in {"recv"} \cup AddPcs \cup RemovePcs \cup SweepPcs
  BY DEF SweepPcs
<1>3. Idle(l) \in Actor /\ Idle(l).pc = l /\ Idle(l).hnd = NoHandle
  BY <1>2, UpdateTypes DEF Idle
<1> QED
  BY <1>1, <1>3 DEF TypeOK

\* A directory that appears or disappears leaves the hierarchy well formed.
LEMMA TypeTree ==
    ASSUME TreeTypeOK, NEW n \in Names, Mkdir(n) \/ Rmdir(n)
    PROVE  TreeTypeOK'
BY TreeAssumption DEF TreeTypeOK, Mkdir, Rmdir

PC == {"recv"} \cup AddPcs \cup RemovePcs \cup SweepPcs

\* A change of one handle's fields keeps it a handle.
LEMMA TypeHandle ==
    ASSUME TypeOK, NEW h \in Handles
    PROVE  /\ \A e \in {"Creation", "Deletion"} :
                 [handle EXCEPT ![h].ev = Append(@, e)] \in [Handles -> Handle]
           /\ \A t \in Tasks : [handle EXCEPT ![h].task = t] \in [Handles -> Handle]
           /\ \A v \in {"unset", "held", "taken"} :
                 [handle EXCEPT ![h].slot = v] \in [Handles -> Handle]
           /\ \A v \in {"unset", "held", "taken"}, t \in Tasks :
                 [handle EXCEPT ![h].slot = v, ![h].task = t] \in [Handles -> Handle]
           /\ [handle EXCEPT ![h].overtaken = TRUE] \in [Handles -> Handle]
<1>0. handle \in [Handles -> Handle]
  BY DEF TypeOK
<1>1. ASSUME NEW e \in {"Creation", "Deletion"}
      PROVE  [handle EXCEPT ![h].ev = Append(@, e)] \in [Handles -> Handle]
  <2>1. Append(handle[h].ev, e) \in Seq({"Creation", "Deletion"})
    BY <1>0 DEF Handle
  <2> QED
    BY <1>0, <2>1 DEF Handle
<1>2. ASSUME NEW t \in Tasks
      PROVE  [handle EXCEPT ![h].task = t] \in [Handles -> Handle]
  BY <1>0 DEF Handle
<1>3. ASSUME NEW v \in {"unset", "held", "taken"}
      PROVE  [handle EXCEPT ![h].slot = v] \in [Handles -> Handle]
  BY <1>0 DEF Handle
<1>4. ASSUME NEW v \in {"unset", "held", "taken"}, NEW t \in Tasks
      PROVE  [handle EXCEPT ![h].slot = v, ![h].task = t] \in [Handles -> Handle]
  BY <1>0, ZenonT(60) DEF Handle
<1>5. [handle EXCEPT ![h].overtaken = TRUE] \in [Handles -> Handle]
  BY <1>0 DEF Handle
<1> QED
  BY <1>1, <1>2, <1>3, <1>4, <1>5

\* Moving to a label, or returning, keeps ActorOK.
LEMMA ActorGoto ==
    ASSUME TypeOK, ActorOK, NEW a \in Actors, NEW l \in PC, Goto(a, l),
           l \in AddPcs \cup RemovePcs => actor[a].arg \in Names,
           actor[a].hnd = NoHandle <=> l \notin Inserts \cup Deletes
    PROVE  ActorOK'
BY TypeGoto DEF ActorOK, PC

\* An actor that returns holds no handle.
LEMMA ActorReturn ==
    ASSUME TypeOK, ActorOK, NEW a \in Actors, Return(a)
    PROVE  ActorOK'
BY TypeReturn DEF ActorOK, AddPcs, RemovePcs, Inserts, Deletes

\* A step that only moves actors and changes handles.
LEMMA TypeFrame ==
    ASSUME TypeOK, UNCHANGED <<treeVars, chan, containers, sweep>>,
           handle' \in [Handles -> Handle], actor' \in [Actors -> Actor]
    PROVE  TypeOK'
BY DEF TypeOK, TreeTypeOK, treeVars

\* One step of add_container keeps the types.
LEMMA TypeAdd ==
    ASSUME TypeOK, ActorOK, NEW a \in Actors, AddStep(a) \/ AddMeta(a)
    PROVE  TypeOK' /\ ActorOK'
<1>0. /\ actor[a] \in Actor /\ actor \in [Actors -> Actor]
      /\ actor[a].hnd \in Handles \cup {NoHandle}
      /\ actor[a].pc \in AddPcs => actor[a].arg \in Names
      /\ actor[a].pc \in Inserts => actor[a].hnd \in Handles
      /\ actor[a].hnd = NoHandle <=> actor[a].pc \notin Inserts \cup Deletes
      /\ handle \in [Handles -> Handle]
  BY DEF TypeOK, ActorOK, Actor
<1> USE DEF AddPcs, RemovePcs, SweepPcs, Inserts, Deletes, PC
<1>1. CASE AddCheck(a)
  <2>1. UNCHANGED <<treeVars, chan, containers, handle, sweep>> /\ actor[a].pc = "check"
    BY <1>1 DEF AddCheck
  <2>2. CASE Return(a)
    BY <2>1, <2>2, <1>0, TypeReturn, ActorReturn, TypeFrame
  <2>3. CASE Goto(a, "spec")
    BY <2>1, <2>3, <1>0, TypeGoto, ActorGoto, TypeFrame
  <2> QED
    BY <1>1, <2>2, <2>3 DEF AddCheck
<1>2. CASE AddSpec(a)
  <2>1. UNCHANGED <<treeVars, chan, containers, handle, sweep>> /\ actor[a].pc = "spec"
    BY <1>2 DEF AddSpec
  <2>2. CASE Return(a)
    BY <2>1, <2>2, <1>0, TypeReturn, ActorReturn, TypeFrame
  <2>3. CASE actor' = [actor EXCEPT ![a].pc = "meta", ![a].inc = tree[actor[a].arg]]
    <3>1. tree[actor[a].arg] \in Nat
      BY <1>0, <2>1 DEF TypeOK, TreeTypeOK
    <3>2. actor' \in [Actors -> Actor]
      BY <1>0, <2>3, <3>1 DEF Actor
    <3>3. ActorOK'
      BY <1>0, <2>1, <2>3 DEF ActorOK
    <3> QED
      BY <3>2, <3>3, <2>1, <1>0, TypeFrame
  <2> QED
    BY <1>2, <2>2, <2>3 DEF AddSpec
<1>3. CASE AddMeta(a)
  <2>1. /\ UNCHANGED <<treeVars, chan, containers, handle, sweep>>
        /\ actor[a].pc = "meta" /\ Goto(a, "insert")
    BY <1>3 DEF AddMeta
  <2> QED
    BY <2>1, <1>0, TypeGoto, ActorGoto, TypeFrame
<1>4. CASE AddInsert(a)
  <2>0. actor[a].pc = "insert" /\ UNCHANGED <<treeVars, chan, sweep>>
    BY <1>4 DEF AddInsert
  <2>1. CASE Return(a) /\ UNCHANGED <<containers, handle>>
    BY <2>0, <2>1, <1>0, TypeReturn, ActorReturn, TypeFrame
  <2>2. CASE \E h \in Handles : Free(h) /\ InsertHandle(a, h)
    <3>1. PICK h \in Handles : InsertHandle(a, h)
      BY <2>2
    <3>2. NewHandle(actor[a].arg, actor[a].inc) \in Handle
      BY <1>0, UpdateTypes DEF Actor
    <3>3. containers' \in [Names -> Handles \cup {NoHandle}] /\ handle' \in [Handles -> Handle]
      BY <3>1, <3>2 DEF InsertHandle, TypeOK
    <3>4. actor' \in [Actors -> Actor]
      BY <1>0, <3>1 DEF InsertHandle, Actor
    <3>5. h # NoHandle
      BY RegistryAssumption
    <3>6. ActorOK'
      BY <1>0, <2>0, <3>1, <3>5 DEF InsertHandle, ActorOK
    <3> QED
      BY <3>3, <3>4, <3>6, <2>0 DEF TypeOK, TreeTypeOK, treeVars
  <2> QED
    BY <1>4, <2>1, <2>2, Zenon DEF AddInsert
<1>5. CASE AddRecord(a)
  <2>1. handle' \in [Handles -> Handle]
    BY <1>0, <1>5, TypeHandle DEF AddRecord
  <2>2. /\ Goto(a, "spawn") /\ actor[a].pc = "record"
        /\ UNCHANGED <<treeVars, chan, containers, sweep>>
    BY <1>5 DEF AddRecord
  <2> QED
    BY <1>0, <2>1, <2>2, TypeGoto, ActorGoto, TypeFrame
<1>6. CASE AddSpawn(a)
  <2>1. handle' \in [Handles -> Handle]
    BY <1>0, <1>6, TypeHandle DEF AddSpawn, Tasks
  <2>2. /\ Goto(a, "store") /\ actor[a].pc = "spawn"
        /\ UNCHANGED <<treeVars, chan, containers, sweep>>
    BY <1>6 DEF AddSpawn
  <2> QED
    BY <1>0, <2>1, <2>2, TypeGoto, ActorGoto, TypeFrame
<1>7. CASE AddStore(a)
  <2>1. handle' \in [Handles -> Handle]
    BY <1>0, <1>7, TypeHandle DEF AddStore
  <2>2. Return(a) /\ UNCHANGED <<treeVars, chan, containers, sweep>>
    BY <1>7 DEF AddStore
  <2> QED
    BY <1>0, <2>1, <2>2, TypeReturn, ActorReturn, TypeFrame
<1> QED
  BY <1>1, <1>2, <1>3, <1>4, <1>5, <1>6, <1>7 DEF AddStep

\* One step of remove_container keeps the types.
LEMMA TypeRemove ==
    ASSUME TypeOK, ActorOK, NEW a \in Actors, RemoveStep(a)
    PROVE  TypeOK' /\ ActorOK'
<1>0. /\ actor[a] \in Actor /\ actor \in [Actors -> Actor]
      /\ actor[a].hnd \in Handles \cup {NoHandle}
      /\ actor[a].pc \in RemovePcs => actor[a].arg \in Names
      /\ actor[a].pc \in Deletes => actor[a].hnd \in Handles
      /\ actor[a].hnd = NoHandle <=> actor[a].pc \notin Inserts \cup Deletes
      /\ handle \in [Handles -> Handle]
      /\ containers \in [Names -> Handles \cup {NoHandle}]
  BY DEF TypeOK, ActorOK, Actor
<1> USE DEF AddPcs, RemovePcs, SweepPcs, Inserts, Deletes, PC
<1>1. CASE RemoveTake(a)
  <2> DEFINE n == actor[a].arg
  <2>0. actor[a].pc = "remove" /\ UNCHANGED <<treeVars, chan, handle, sweep>>
    BY <1>1 DEF RemoveTake
  <2>1. CASE Return(a) /\ UNCHANGED containers
    BY <2>0, <2>1, <1>0, TypeReturn, ActorReturn, TypeFrame
  <2>2. CASE /\ n \in Registered
             /\ containers' = [containers EXCEPT ![n] = NoHandle]
             /\ actor' = [actor EXCEPT ![a].pc = "abort", ![a].hnd = containers[n]]
    <3>1. n \in Names /\ containers[n] \in Handles
      BY <1>0, <2>2 DEF Registered
    <3>2. actor' \in [Actors -> Actor]
      BY <1>0, <2>2, <3>1 DEF Actor
    <3>3. containers' \in [Names -> Handles \cup {NoHandle}]
      BY <1>0, <2>2, <3>1
    <3>4. containers[n] # NoHandle
      BY <3>1, RegistryAssumption
    <3>5. ActorOK'
      BY <1>0, <2>0, <2>2, <3>1, <3>4 DEF ActorOK
    <3> QED
      BY <2>0, <3>2, <3>3, <3>5 DEF TypeOK, TreeTypeOK, treeVars
  <2> QED
    BY <1>1, <2>1, <2>2 DEF RemoveTake
<1>2. CASE RemoveAbort(a)
  <2>1. handle' \in [Handles -> Handle]
    <3> DEFINE h == actor[a].hnd
    <3>1. h \in Handles /\ Aborted(handle[h].task) \in Tasks
      BY <1>0, <1>2 DEF RemoveAbort, Aborted, Handle, Tasks
    <3>2. \/ handle' = [handle EXCEPT ![h].slot = "taken", ![h].task = Aborted(handle[h].task)]
          \/ handle' = [handle EXCEPT ![h].overtaken = TRUE]
      BY <1>2 DEF RemoveAbort
    <3>3. PICK t \in Tasks : t = Aborted(handle[h].task)
      BY <3>1
    <3> HIDE DEF h
    <3>4. CASE handle' = [handle EXCEPT ![h].slot = "taken", ![h].task = t]
      BY <3>1, <3>4, TypeHandle
    <3>5. CASE handle' = [handle EXCEPT ![h].overtaken = TRUE]
      BY <3>1, <3>5, TypeHandle
    <3> QED
      BY <3>2, <3>3, <3>4, <3>5
  <2>2. /\ Goto(a, "delete") /\ actor[a].pc = "abort"
        /\ UNCHANGED <<treeVars, chan, containers, sweep>>
    BY <1>2 DEF RemoveAbort
  <2> QED
    BY <1>0, <2>1, <2>2, TypeGoto, ActorGoto, TypeFrame
<1>3. CASE RemoveRecord(a)
  <2>1. handle' \in [Handles -> Handle]
    BY <1>0, <1>3, TypeHandle DEF RemoveRecord
  <2>2. Return(a) /\ UNCHANGED <<treeVars, chan, containers, sweep>>
    BY <1>3 DEF RemoveRecord
  <2> QED
    BY <1>0, <2>1, <2>2, TypeReturn, ActorReturn, TypeFrame
<1> QED
  BY <1>1, <1>2, <1>3 DEF RemoveStep

SweepType == [started : BOOLEAN,
              stack : SUBSET (Names \cup {Root}), current : SUBSET Names,
              add : SUBSET Names, check : SUBSET Names]

\* The consumer receiving an event keeps the types.
LEMMA TypeReceive ==
    ASSUME TypeOK, ActorOK, Receive
    PROVE  TypeOK' /\ ActorOK'
<1> DEFINE e == Head(chan)
           l == IF e.type = "Added" THEN "check" ELSE "remove"
           r == [Idle(l) EXCEPT !.arg = e.name]
<1>1. e \in Event /\ chan' \in Seq(Event)
  BY DEF Receive, TypeOK
<1>2. e.name \in Names
  BY <1>1 DEF Event
<1>3. r \in Actor /\ r.arg \in Names /\ r.hnd = NoHandle /\ r.pc \in {"check", "remove"}
  BY <1>2 DEF Idle, Actor, AddPcs, RemovePcs
<1>4. /\ actor' = [actor EXCEPT !["consumer"] = r]
      /\ UNCHANGED <<treeVars, containers, handle, sweep>>
  BY DEF Receive
<1> HIDE DEF r
<1>5. actor' \in [Actors -> Actor]
  BY <1>3, <1>4 DEF TypeOK
<1>6. ActorOK'
  <2>1. \A a \in Actors : actor'[a] = IF a = "consumer" THEN r ELSE actor[a]
    BY <1>4 DEF TypeOK
  <2> QED
    BY <2>1, <1>3 DEF ActorOK, Inserts, Deletes
<1> QED
  BY <1>1, <1>4, <1>5, <1>6 DEF TypeOK, TreeTypeOK, treeVars

\* One step of the sweep keeps the types.
LEMMA TypeSweep ==
    ASSUME TypeOK, ActorOK, SweepStep
    PROVE  TypeOK' /\ ActorOK'
<1> DEFINE w == "sweeper"
<1>0. /\ w \in Actors /\ actor \in [Actors -> Actor] /\ actor[w] \in Actor
      /\ actor[w].pc \in {"tick", "walk", "adding", "checking"} => actor[w].hnd = NoHandle
      /\ sweep \in SweepType
  BY DEF TypeOK, ActorOK, Actors, Inserts, Deletes, SweepType
<1>1. ASSUME UNCHANGED <<treeVars, chan, containers, handle>>, sweep' \in SweepType,
             actor' \in [Actors -> Actor]
      PROVE  TypeOK'
  BY <1>1 DEF TypeOK, TreeTypeOK, treeVars, SweepType
<1>2. ASSUME NEW l \in SweepPcs, Goto(w, l), actor[w].pc \in SweepPcs
      PROVE  actor' \in [Actors -> Actor] /\ ActorOK'
  BY <1>0, <1>2, TypeGoto, ActorGoto DEF PC, SweepPcs, AddPcs, RemovePcs, Inserts, Deletes
<1>3. ASSUME NEW n \in Names, NEW l \in {"check", "remove"}, actor[w].pc \in SweepPcs,
             actor' = [actor EXCEPT ![w].pc = l, ![w].arg = n]
      PROVE  actor' \in [Actors -> Actor] /\ ActorOK'
  <2>1. actor' \in [Actors -> Actor]
    BY <1>0, <1>3 DEF Actor, AddPcs, RemovePcs
  <2>2. ActorOK'
    BY <1>0, <1>3 DEF ActorOK, Inserts, Deletes, SweepPcs
  <2> QED
    BY <2>1, <2>2
<1>4. CASE SweepTick
  <2>1. sweep' \in SweepType
    BY <1>0, <1>4 DEF SweepTick, SweepType
  <2> QED
    BY <2>1, <1>1, <1>2, <1>4 DEF SweepTick, SweepPcs
<1>5. CASE SweepKnown
  <2>1. sweep' \in SweepType
    <3>1. sweep.current \ Registered \in SUBSET Names /\ Registered \ sweep.current \in SUBSET Names
      BY <1>0 DEF SweepType, Registered
    <3> QED
      BY <3>1, <1>0, <1>5 DEF SweepKnown, SweepType
  <2> QED
    BY <2>1, <1>1, <1>2, <1>5 DEF SweepKnown, SweepPcs
<1>6. CASE SweepAdded
  <2>1. sweep' \in SweepType
    BY <1>0, <1>6 DEF SweepAdded, SweepType
  <2> QED
    BY <2>1, <1>1, <1>2, <1>6 DEF SweepAdded, SweepPcs
<1>7. CASE SweepDone
  <2>1. sweep' \in SweepType
    BY <1>0, <1>7 DEF SweepDone
  <2> QED
    BY <2>1, <1>1, <1>2, <1>7 DEF SweepDone, SweepPcs
<1>8. ASSUME NEW d \in Names \cup {Root}, SweepList(d)
      PROVE  TypeOK' /\ ActorOK'
  <2>1. sweep' \in SweepType
    <3>1. Children(d) \in SUBSET Names
      BY DEF Children
    <3> QED
      BY <3>1, <1>0, <1>8 DEF SweepList, SweepType
  <2>2. UNCHANGED <<treeVars, chan, containers, handle, actor>>
    BY <1>8 DEF SweepList
  <2> QED
    BY <2>1, <2>2, <1>0, <1>1 DEF ActorOK
<1>9. ASSUME NEW n \in Names, SweepAdd(n)
      PROVE  TypeOK' /\ ActorOK'
  <2>1. sweep' \in SweepType
    BY <1>0, <1>9 DEF SweepAdd, SweepType
  <2> QED
    BY <2>1, <1>1, <1>3, <1>9 DEF SweepAdd, SweepPcs
<1>10. ASSUME NEW n \in Names, SweepCheck(n)
       PROVE  TypeOK' /\ ActorOK'
  <2>1. sweep' \in SweepType /\ UNCHANGED <<treeVars, chan, containers, handle>>
    BY <1>0, <1>10 DEF SweepCheck, SweepType
  <2>2. CASE actor' = actor
    BY <2>1, <2>2, <1>0, <1>1 DEF ActorOK
  <2>3. CASE actor' = [actor EXCEPT ![w].pc = "remove", ![w].arg = n]
    BY <2>1, <2>3, <1>1, <1>3, <1>10 DEF SweepCheck, SweepPcs
  <2> QED
    BY <2>2, <2>3, <1>10 DEF SweepCheck
<1> QED
  BY <1>4, <1>5, <1>6, <1>7, <1>8, <1>9, <1>10 DEF SweepStep

\* The environment and the housekeeping tasks keep the types.
LEMMA TypeEnvironment ==
    ASSUME TypeOK, ActorOK, NEW n \in Names, Create(n) \/ Destroy(n) \/ Rescan(n)
    PROVE  TypeOK' /\ ActorOK'
<1>1. TreeTypeOK'
  BY TypeTree DEF TypeOK, TreeTypeOK, treeVars, Create, Destroy, Rescan
<1>2. chan' \in Seq(Event)
  <2>1. /\ [type |-> "Added", name |-> n] \in Event
        /\ [type |-> "Removed", name |-> n] \in Event
    BY DEF Event
  <2>2. PICK e \in Event : chan' = Append(chan, e) \/ chan' = chan
    BY <2>1 DEF Create, Destroy, Rescan, Emit
  <2> QED
    BY <2>2 DEF TypeOK
<1>3. UNCHANGED regVars
  BY DEF Create, Destroy, Rescan
<1> QED
  BY <1>1, <1>2, <1>3 DEF TypeOK, ActorOK, regVars

\* One step of a housekeeping task keeps the types.
LEMMA TypeHousekeeping ==
    ASSUME TypeOK, ActorOK, NEW h \in Handles, Housekeeping(h)
    PROVE  /\ TypeOK' /\ ActorOK'
           /\ \E t \in Tasks \ {"none", "doomed"} :
                 handle' = [handle EXCEPT ![h].task = t]
           /\ UNCHANGED <<treeVars, chan, containers, actor, sweep>>
           /\ handle[h].task \in {"ready", "working", "blank", "doomed"}
           /\ handle[h].task = "doomed" => handle' = [handle EXCEPT ![h].task = "gone"]
<1>1. /\ UNCHANGED <<treeVars, chan, containers, actor, sweep>>
      /\ handle[h].task \in {"ready", "working", "blank", "doomed"}
      /\ handle[h].task = "doomed" => handle' = [handle EXCEPT ![h].task = "gone"]
  BY DEF Housekeeping, HousekeepingBegin, HousekeepingSleep, HousekeepingReturn
<1>2. \E t \in {"ready", "working", "blank", "gone"} :
          handle' = [handle EXCEPT ![h].task = t]
  BY DEF Housekeeping, HousekeepingBegin, HousekeepingSleep, HousekeepingReturn
<1>3. PICK t \in Tasks \ {"none", "doomed"} : handle' = [handle EXCEPT ![h].task = t]
  BY <1>2 DEF Tasks
<1>4. handle' \in [Handles -> Handle]
  BY <1>3, TypeHandle
<1>5. TypeOK' /\ ActorOK'
  BY <1>1, <1>4, TypeFrame DEF TypeOK, ActorOK
<1> QED
  BY <1>1, <1>3, <1>5

\* Every value of Registry's state is well formed, and an actor holds a handle
\* exactly while it is inserting or removing one.
LEMMA TypeStep == TypeOK /\ ActorOK /\ [Next]_vars => TypeOK' /\ ActorOK'
<1> SUFFICES ASSUME TypeOK, ActorOK, [Next]_vars PROVE TypeOK' /\ ActorOK'
  OBVIOUS
<1>1. ASSUME UNCHANGED vars PROVE TypeOK' /\ ActorOK'
  BY <1>1 DEF vars, TypeOK, TreeTypeOK, ActorOK
<1> QED
  BY <1>1, TypeAdd, TypeRemove, TypeReceive, TypeSweep, TypeEnvironment, TypeHousekeeping
     DEF Next, ManagerStep

\* The initial state is well formed and no actor holds a handle in it.
LEMMA TypeInit == Init => TypeOK /\ ActorOK
<1> SUFFICES ASSUME Init PROVE TypeOK /\ ActorOK
  OBVIOUS
<1>1. TreeTypeOK
  BY TreeAssumption DEF Init, TreeInit, TreeTypeOK
<1>2. handle \in [Handles -> Handle]
  BY UpdateTypes DEF Init
<1>3. actor \in [Actors -> Actor]
  BY UpdateTypes DEF Init, SweepPcs
<1>4. ActorOK
  BY DEF Init, ActorOK, Idle, AddPcs, RemovePcs, Inserts, Deletes
<1> QED
  BY <1>1, <1>2, <1>3, <1>4 DEF Init, TypeOK

\* The registry's state keeps its type (manager.rs, the fields of Manager and
\* ContainerHandle).
THEOREM RegistryTypeCorrect == Spec => []TypeOK
<1>1. Spec => [](TypeOK /\ ActorOK)
  BY TypeInit, TypeStep, PTL DEF Spec
<1> QED
  BY <1>1, PTL

-----------------------------------------------------------------------------
(* Who owns a housekeeping task *)

Own ==
    /\ Exclusive /\ NamedInMap /\ RemovedFromMap
    /\ Unaborted /\ Insertion /\ UnownedOnlyWhenOvertaken

\* A step that changes neither the map nor what the invariant says of handles,
\* and moves no actor that holds a handle.
LEMMA OwnQuiet ==
    ASSUME TypeOK, ActorOK, Own, ActorOK', containers' = containers,
           \A h \in Handles : /\ handle'[h].name = handle[h].name
                              /\ handle'[h].slot = handle[h].slot
                              /\ handle'[h].task = handle[h].task
                              /\ handle'[h].overtaken = handle[h].overtaken,
           \A a \in Actors : /\ actor'[a].hnd = actor[a].hnd
                             /\ actor[a].hnd # NoHandle => actor'[a].pc = actor[a].pc
    PROVE  Own'
<1> USE DEF Inserts, Deletes
<1>0. /\ \A a \in Actors : actor[a].hnd \in Handles \cup {NoHandle}
      /\ \A a \in Actors : actor[a].hnd = NoHandle <=> actor[a].pc \notin Inserts \cup Deletes
      /\ \A a \in Actors : actor'[a].hnd = NoHandle <=> actor'[a].pc \notin Inserts \cup Deletes
      /\ \A n \in Names : containers[n] \in Handles \cup {NoHandle}
      /\ NoHandle \notin Handles
  BY RegistryAssumption DEF TypeOK, ActorOK, Actor
<1>1. ASSUME NEW h \in Handles
      PROVE  /\ \A a \in Actors : Inserting(a, h)' <=> Inserting(a, h)
             /\ \A a \in Actors : Removing(a, h)' <=> Removing(a, h)
             /\ InMap(h)' <=> InMap(h)
             /\ Live(h)' <=> Live(h)
  <2>1. h # NoHandle
    BY <1>0
  <2>2. ASSUME NEW a \in Actors
        PROVE  /\ actor'[a].hnd = actor[a].hnd
               /\ actor[a].hnd = h => actor'[a].pc = actor[a].pc
    BY <2>1, Zenon
  <2>3. \A a \in Actors : Inserting(a, h)' <=> Inserting(a, h)
    BY <2>2, Zenon DEF Inserting
  <2>4. \A a \in Actors : Removing(a, h)' <=> Removing(a, h)
    BY <2>2, Zenon DEF Removing
  <2>5. InMap(h)' <=> InMap(h)
    BY DEF InMap
  <2>6. Live(h)' <=> Live(h)
    BY DEF Live
  <2> QED
    BY <2>3, <2>4, <2>5, <2>6
<1>2. Exclusive'
  <2> SUFFICES ASSUME NEW a \in Actors, NEW b \in Actors, a # b,
                      actor'[a].hnd = actor'[b].hnd, actor'[a].hnd # NoHandle
               PROVE  actor'[a].pc \in Inserts <=> actor'[b].pc \in Deletes
    BY DEF Exclusive
  <2>1. /\ actor'[a].pc = actor[a].pc /\ actor'[b].pc = actor[b].pc
        /\ actor[a].hnd = actor[b].hnd /\ actor[a].hnd # NoHandle
    BY Zenon
  <2> QED
    BY <2>1, Zenon DEF Own, Exclusive
<1>3. NamedInMap'
  BY <1>0 DEF Own, NamedInMap, Registered
<1>4. RemovedFromMap'
  <2> SUFFICES ASSUME NEW a \in Actors, actor'[a].pc \in Deletes,
                      NEW h, h = actor'[a].hnd
               PROVE  ~InMap(h)'
    BY DEF RemovedFromMap, InMap
  <2>0. actor'[a].hnd # NoHandle
    BY <1>0
  <2>1. h \in Handles /\ actor[a].hnd = h /\ actor[a].pc \in Deletes
    BY <2>0, <1>0, Zenon
  <2> QED
    BY <2>1, <1>1 DEF Own, RemovedFromMap
<1>5. Unaborted'
  <2> SUFFICES ASSUME NEW h \in Handles, InMap(h)' \/ Removers(h)' # {}
               PROVE  /\ handle'[h].slot # "taken" /\ handle'[h].task # "doomed"
                      /\ Inserters(h)' = {} => /\ handle'[h].slot = "held"
                                               /\ handle'[h].task # "none"
    BY DEF Unaborted
  <2>1. Removers(h)' = Removers(h) /\ Inserters(h)' = Inserters(h) /\ (InMap(h)' <=> InMap(h))
    BY <1>1 DEF Removers, Inserters
  <2> QED
    BY <2>1 DEF Own, Unaborted
<1>6. Insertion'
  <2> SUFFICES ASSUME NEW a \in Actors, actor'[a].pc \in Inserts,
                      NEW h, h = actor'[a].hnd
               PROVE  /\ handle'[h].slot = "unset" /\ handle'[h].task # "doomed"
                      /\ handle'[h].task = "none" <=> actor'[a].pc # "store"
                      /\ InMap(h)' \/ Removers(h)' # {} \/ handle'[h].overtaken
    BY DEF Insertion, InMap, Removers, Removing
  <2>0. actor'[a].hnd # NoHandle
    BY <1>0
  <2>1. /\ h \in Handles /\ actor[a].hnd = h /\ actor[a].pc \in Inserts
        /\ actor'[a].pc = actor[a].pc
    BY <2>0, <1>0, Zenon
  <2>2. Removers(h)' = Removers(h) /\ (InMap(h)' <=> InMap(h))
    BY <2>1, <1>1 DEF Removers
  <2> QED
    BY <2>1, <2>2 DEF Own, Insertion
<1>7. UnownedOnlyWhenOvertaken'
  <2> SUFFICES ASSUME NEW h \in Handles, Live(h)'
               PROVE  \/ InMap(h)' \/ handle'[h].overtaken
                      \/ \E a \in Actors : Inserting(a, h)' \/ Removing(a, h)'
    BY DEF UnownedOnlyWhenOvertaken
  <2> QED
    BY <1>1 DEF Own, UnownedOnlyWhenOvertaken
<1> QED
  BY <1>2, <1>3, <1>4, <1>5, <1>6, <1>7 DEF Own

\* The insertion of a fresh handle.
LEMMA OwnInsert ==
    ASSUME TypeOK, ActorOK, Own, NEW a \in Actors, actor[a].pc = "insert",
           actor[a].arg \notin Registered,
           NEW h \in Handles, Free(h), InsertHandle(a, h)
    PROVE  Own'
<1> USE DEF Inserts, Deletes
<1> DEFINE n == actor[a].arg
<1>0. /\ \A b \in Actors : actor[b].hnd \in Handles \cup {NoHandle}
      /\ \A b \in Actors : actor[b].hnd = NoHandle <=> actor[b].pc \notin Inserts \cup Deletes
      /\ \A m \in Names : containers[m] \in Handles \cup {NoHandle}
      /\ NoHandle \notin Handles
      /\ n \in Names /\ containers[n] = NoHandle
  BY RegistryAssumption DEF TypeOK, ActorOK, Actor, AddPcs, Registered
<1>1. /\ containers'[n] = h
      /\ \A m \in Names \ {n} : containers'[m] = containers[m]
      /\ actor'[a].pc = "record" /\ actor'[a].hnd = h
      /\ \A b \in Actors \ {a} : actor'[b] = actor[b]
      /\ \A g \in Handles \ {h} : handle'[g] = handle[g]
      /\ handle'[h].name = n /\ handle'[h].slot = "unset" /\ handle'[h].task = "none"
      /\ handle'[h].overtaken = FALSE
  BY <1>0 DEF TypeOK, Actor, InsertHandle, NewHandle
<1>2. (\A b \in Actors : actor[b].hnd # h) /\ ~InMap(h)
  BY DEF Free
<1> HIDE DEF n
<1>3. \A g \in Handles \ {h}, b \in Actors :
          /\ Inserting(b, g)' <=> Inserting(b, g)
          /\ Removing(b, g)' <=> Removing(b, g)
          /\ InMap(g)' <=> InMap(g)
          /\ Live(g)' <=> Live(g)
  BY <1>0, <1>1 DEF Inserting, Removing, InMap, Live
<1>4. InMap(h)' /\ ~Live(h)' /\ Inserting(a, h)'
  BY <1>0, <1>1 DEF InMap, Live, Inserting
<1>5. Exclusive'
  BY <1>0, <1>1, <1>2 DEF Own, Exclusive
<1>6. NamedInMap'
  BY <1>0, <1>1, <1>2 DEF Own, NamedInMap, Registered, InMap
<1>7. RemovedFromMap'
  BY <1>0, <1>1, <1>2, <1>3 DEF Own, RemovedFromMap
<1>8. Unaborted'
  BY <1>0, <1>1, <1>3, <1>4 DEF Own, Unaborted, Removers, Inserters
<1>9. Insertion'
  BY <1>0, <1>1, <1>2, <1>3, <1>4 DEF Own, Insertion, Removers
<1>10. UnownedOnlyWhenOvertaken'
  BY <1>0, <1>1, <1>3, <1>4 DEF Own, UnownedOnlyWhenOvertaken
<1> QED
  BY <1>5, <1>6, <1>7, <1>8, <1>9, <1>10 DEF Own

\* The tail of add_container: record, spawn, store.
LEMMA OwnInsertion ==
    ASSUME TypeOK, ActorOK, Own, NEW a \in Actors,
           AddRecord(a) \/ AddSpawn(a) \/ AddStore(a), NEW h, h = actor[a].hnd
    PROVE  Own'
<1> USE DEF Inserts, Deletes
<1>0. /\ \A b \in Actors : actor[b].hnd \in Handles \cup {NoHandle}
      /\ \A b \in Actors : actor[b].hnd = NoHandle <=> actor[b].pc \notin Inserts \cup Deletes
      /\ \A m \in Names : containers[m] \in Handles \cup {NoHandle}
      /\ NoHandle \notin Handles
      /\ h \in Handles /\ containers' = containers
      /\ handle \in [Handles -> Handle]
  BY RegistryAssumption DEF TypeOK, ActorOK, Actor, AddRecord, AddSpawn, AddStore
<1>1. \A g \in Handles \ {h} : handle'[g] = handle[g]
  BY <1>0 DEF AddRecord, AddSpawn, AddStore
<1>2. \A b \in Actors \ {a} : actor'[b] = actor[b]
  BY TypeGoto, TypeReturn DEF AddRecord, AddSpawn, AddStore, AddPcs
<1>3. /\ actor[a].pc \in Inserts
      /\ handle'[h].name = handle[h].name
      /\ handle'[h].overtaken = handle[h].overtaken
  <2>1. CASE AddRecord(a)
    BY <1>0, <2>1 DEF AddRecord, Handle
  <2>2. CASE AddSpawn(a)
    BY <1>0, <2>2 DEF AddSpawn, Handle
  <2>3. CASE AddStore(a)
    BY <1>0, <2>3 DEF AddStore, Handle
  <2> QED
    BY <2>1, <2>2, <2>3
<1>4. \/ /\ actor[a].pc = "record" /\ actor'[a].pc = "spawn" /\ actor'[a].hnd = h
         /\ handle'[h].task = handle[h].task /\ handle'[h].slot = handle[h].slot
      \/ /\ actor[a].pc = "spawn" /\ actor'[a].pc = "store" /\ actor'[a].hnd = h
         /\ handle'[h].task = "ready" /\ handle'[h].slot = handle[h].slot
      \/ /\ actor[a].pc = "store" /\ actor'[a].pc \notin Inserts \cup Deletes
         /\ actor'[a].hnd = NoHandle
         /\ handle'[h].task = handle[h].task /\ handle'[h].slot = "held"
  BY <1>0, TypeGoto, TypeReturn DEF AddRecord, AddSpawn, AddStore, AddPcs, Handle
<1>5. /\ \A g \in Handles \ {h}, b \in Actors :
            /\ Inserting(b, g)' <=> Inserting(b, g)
            /\ Live(g)' <=> Live(g)
      /\ \A g \in Handles, b \in Actors : Removing(b, g)' <=> Removing(b, g)
      /\ \A g \in Handles : InMap(g)' <=> InMap(g)
  BY <1>0, <1>1, <1>2, <1>3, <1>4 DEF Inserting, Removing, InMap, Live
<1>6. \A b \in Actors \ {a} : ~Inserting(b, h)
  BY <1>0, <1>3 DEF Own, Exclusive, Inserting
<1>7. /\ handle[h].slot = "unset" /\ handle[h].task # "doomed"
      /\ handle[h].task = "none" <=> actor[a].pc # "store"
      /\ InMap(h) \/ Removers(h) # {} \/ handle[h].overtaken
  BY <1>3 DEF Own, Insertion
<1>8. Exclusive'
  BY <1>0, <1>2, <1>3, <1>4 DEF Own, Exclusive
<1>9. NamedInMap'
  BY <1>0, <1>1, <1>3 DEF Own, NamedInMap, Registered
<1>10. RemovedFromMap'
  BY <1>0, <1>2, <1>3, <1>4 DEF Own, RemovedFromMap, InMap
<1>11. Unaborted'
  <2>1. \A g \in Handles \ {h} : Removers(g)' = Removers(g) /\ Inserters(g)' = Inserters(g)
    BY <1>5 DEF Removers, Inserters
  <2>2. CASE actor'[a].hnd = NoHandle
    BY <2>1, <2>2, <1>0, <1>1, <1>4, <1>5, <1>7 DEF Own, Unaborted
  <2>3. CASE actor'[a].hnd = h
    <3>1. a \in Inserters(h)'
      <4>1. Inserting(a, h)'
        BY <2>3, <1>0, <1>4 DEF Inserting
      <4> QED
        BY <4>1 DEF Inserters
    <3> QED
      BY <2>1, <3>1, <1>0, <1>1, <1>4, <1>5, <1>7 DEF Own, Unaborted
  <2> QED
    BY <2>2, <2>3, <1>4
<1>12. Insertion'
  <2> SUFFICES ASSUME NEW b \in Actors, actor'[b].pc \in Inserts,
                      NEW g, g = actor'[b].hnd
               PROVE  /\ handle'[g].slot = "unset" /\ handle'[g].task # "doomed"
                      /\ handle'[g].task = "none" <=> actor'[b].pc # "store"
                      /\ InMap(g)' \/ Removers(g)' # {} \/ handle'[g].overtaken
    BY DEF Insertion, InMap, Removers, Removing
  <2>1. \A k \in Handles : Removers(k)' = Removers(k)
    BY <1>5 DEF Removers
  <2>2. CASE b = a
    <3>1. g = h
      BY <2>2, <1>4
    <3> QED
      BY <3>1, <2>1, <2>2, <1>0, <1>3, <1>4, <1>5, <1>7
  <2>3. CASE b # a
    <3>1. actor'[b] = actor[b] /\ g \in Handles \ {h}
      BY <2>3, <1>0, <1>2, <1>6 DEF Inserting
    <3> QED
      BY <3>1, <2>1, <1>1, <1>5 DEF Own, Insertion
  <2> QED
    BY <2>2, <2>3
<1>13. UnownedOnlyWhenOvertaken'
  <2>1. ASSUME NEW g \in Handles \ {h}, Live(g)'
        PROVE  \/ InMap(g)' \/ handle'[g].overtaken
               \/ \E b \in Actors : Inserting(b, g)' \/ Removing(b, g)'
    BY <2>1, <1>1, <1>5 DEF Own, UnownedOnlyWhenOvertaken
  <2>2. \/ InMap(h)' \/ handle'[h].overtaken \/ \E b \in Actors : Removing(b, h)'
    BY <1>0, <1>3, <1>5, <1>7 DEF Removers
  <2> QED
    BY <2>1, <2>2 DEF UnownedOnlyWhenOvertaken
<1> QED
  BY <1>8, <1>9, <1>10, <1>11, <1>12, <1>13 DEF Own

\* The removal of a handle from the map.
LEMMA OwnTake ==
    ASSUME TypeOK, ActorOK, Own, NEW a \in Actors, actor[a].pc = "remove",
           handle' = handle, NEW n, n = actor[a].arg, n \in Registered,
           NEW h, h = containers[n],
           containers' = [containers EXCEPT ![n] = NoHandle],
           actor' = [actor EXCEPT ![a].pc = "abort", ![a].hnd = h]
    PROVE  Own'
<1> USE DEF Inserts, Deletes
<1>0. /\ \A b \in Actors : actor[b].hnd \in Handles \cup {NoHandle}
      /\ \A b \in Actors : actor[b].hnd = NoHandle <=> actor[b].pc \notin Inserts \cup Deletes
      /\ \A m \in Names : containers[m] \in Handles \cup {NoHandle}
      /\ NoHandle \notin Handles
      /\ n \in Names /\ h \in Handles
  BY RegistryAssumption DEF TypeOK, ActorOK, Actor, Registered
<1>1. /\ containers'[n] = NoHandle
      /\ \A m \in Names \ {n} : containers'[m] = containers[m]
      /\ actor'[a].pc = "abort" /\ actor'[a].hnd = h /\ actor[a].hnd = NoHandle
      /\ \A b \in Actors \ {a} : actor'[b] = actor[b]
  BY <1>0, ZenonT(60) DEF TypeOK, Actor
<1>2. InMap(h) /\ ~InMap(h)'
  <2>1. \A m \in Names : containers[m] = h => m = n
    BY <1>0 DEF Own, NamedInMap, Registered
  <2> QED
    BY <2>1, <1>0, <1>1 DEF InMap
<1>3. /\ \A g \in Handles \ {h}, b \in Actors : Removing(b, g)' <=> Removing(b, g)
      /\ \A g \in Handles, b \in Actors : Inserting(b, g)' <=> Inserting(b, g)
      /\ \A g \in Handles \ {h} : InMap(g)' <=> InMap(g)
      /\ \A g \in Handles : Live(g)' <=> Live(g)
      /\ Removing(a, h)'
  <2>1. ASSUME NEW g \in Handles \ {h}, NEW b \in Actors
        PROVE  Removing(b, g)' <=> Removing(b, g)
    BY <1>0, <1>1 DEF Removing
  <2>2. ASSUME NEW g \in Handles, NEW b \in Actors
        PROVE  Inserting(b, g)' <=> Inserting(b, g)
    BY <1>0, <1>1 DEF Inserting
  <2>3. ASSUME NEW g \in Handles \ {h} PROVE InMap(g)' <=> InMap(g)
    BY <1>0, <1>1 DEF InMap
  <2>4. \A g \in Handles : Live(g)' <=> Live(g)
    BY DEF Live
  <2>5. Removing(a, h)'
    BY <1>1 DEF Removing
  <2> QED
    BY <2>1, <2>2, <2>3, <2>4, <2>5
<1>4. \A b \in Actors \ {a} : actor[b].hnd = h => actor[b].pc \in Inserts
  BY <1>0, <1>2 DEF Own, RemovedFromMap
<1>5. \A g \in Handles : Inserters(g)' = Inserters(g)
  BY <1>3 DEF Inserters
<1>6. (\A g \in Handles \ {h} : Removers(g)' = Removers(g)) /\ Removers(h)' # {}
  BY <1>3 DEF Removers
<1>7. Exclusive'
  <2> SUFFICES ASSUME NEW b \in Actors, NEW c \in Actors, b # c,
                      actor'[b].hnd = actor'[c].hnd, actor'[b].hnd # NoHandle
               PROVE  actor'[b].pc \in Inserts <=> actor'[c].pc \in Deletes
    BY DEF Exclusive
  <2>1. CASE b = a
    <3>1. actor'[c] = actor[c] /\ actor[c].hnd = h /\ actor[c].pc \in Inserts
      BY <2>1, <1>1, <1>4
    <3> QED
      BY <3>1, <2>1, <1>1
  <2>2. CASE c = a
    <3>1. actor'[b] = actor[b] /\ actor[b].hnd = h /\ actor[b].pc \in Inserts
      BY <2>2, <1>1, <1>4, ZenonT(60)
    <3> QED
      BY <3>1, <2>2, <1>1
  <2>3. CASE b # a /\ c # a
    <3>1. actor'[b] = actor[b] /\ actor'[c] = actor[c]
      BY <2>3, <1>1
    <3> QED
      BY <3>1 DEF Own, Exclusive
  <2> QED
    BY <2>1, <2>2, <2>3
<1>8. NamedInMap'
  BY <1>0, <1>1 DEF Own, NamedInMap, Registered
<1>9. RemovedFromMap'
  <2> SUFFICES ASSUME NEW b \in Actors, actor'[b].pc \in Deletes,
                      NEW g, g = actor'[b].hnd
               PROVE  ~InMap(g)'
    BY DEF RemovedFromMap, InMap
  <2>1. CASE b = a
    BY <2>1, <1>1, <1>2
  <2>2. CASE b # a
    BY <2>2, <1>0, <1>1, <1>3, <1>4 DEF Own, RemovedFromMap
  <2> QED
    BY <2>1, <2>2
<1>10. Unaborted'
  BY <1>0, <1>2, <1>3, <1>5, <1>6 DEF Own, Unaborted
<1>11. Insertion'
  <2> SUFFICES ASSUME NEW b \in Actors, actor'[b].pc \in Inserts,
                      NEW g, g = actor'[b].hnd
               PROVE  /\ handle'[g].slot = "unset" /\ handle'[g].task # "doomed"
                      /\ handle'[g].task = "none" <=> actor'[b].pc # "store"
                      /\ InMap(g)' \/ Removers(g)' # {} \/ handle'[g].overtaken
    BY DEF Insertion, InMap, Removers, Removing
  <2>1. b # a /\ actor'[b] = actor[b] /\ g \in Handles
    BY <1>0, <1>1
  <2> QED
    BY <2>1, <1>3, <1>6 DEF Own, Insertion
<1>12. UnownedOnlyWhenOvertaken'
  <2> SUFFICES ASSUME NEW g \in Handles, Live(g)'
               PROVE  \/ InMap(g)' \/ handle'[g].overtaken
                      \/ \E b \in Actors : Inserting(b, g)' \/ Removing(b, g)'
    BY DEF UnownedOnlyWhenOvertaken
  <2> QED
    BY <1>3 DEF Own, UnownedOnlyWhenOvertaken
<1> QED
  BY <1>7, <1>8, <1>9, <1>10, <1>11, <1>12 DEF Own

\* The removal looks for the task and aborts it.
LEMMA OwnAbort ==
    ASSUME TypeOK, ActorOK, Own, NEW a \in Actors, RemoveAbort(a), NEW h, h = actor[a].hnd
    PROVE  Own'
<1> USE DEF Inserts, Deletes
<1>0. /\ \A b \in Actors : actor[b].hnd \in Handles \cup {NoHandle}
      /\ \A b \in Actors : actor[b].hnd = NoHandle <=> actor[b].pc \notin Inserts \cup Deletes
      /\ \A m \in Names : containers[m] \in Handles \cup {NoHandle}
      /\ NoHandle \notin Handles
      /\ h \in Handles /\ containers' = containers /\ actor[a].pc = "abort"
      /\ handle \in [Handles -> Handle]
  BY RegistryAssumption DEF TypeOK, ActorOK, Actor, RemoveAbort
<1>1. /\ actor'[a].pc = "delete" /\ actor'[a].hnd = h
      /\ \A b \in Actors \ {a} : actor'[b] = actor[b]
  BY TypeGoto DEF RemoveAbort, RemovePcs
<1>2. /\ \A g \in Handles \ {h} : handle'[g] = handle[g]
      /\ handle'[h].name = handle[h].name
      /\ \/ /\ handle[h].slot = "held" /\ handle'[h].slot = "taken"
            /\ handle'[h].task = Aborted(handle[h].task)
         \/ /\ handle[h].slot # "held" /\ handle'[h].slot = handle[h].slot
            /\ handle'[h].task = handle[h].task
            /\ handle'[h].overtaken = TRUE
  <2>1. CASE handle[h].slot = "held"
    BY <1>0, <2>1 DEF RemoveAbort, Handle
  <2>2. CASE handle[h].slot # "held"
    BY <1>0, <2>2 DEF RemoveAbort, Handle
  <2> QED
    BY <2>1, <2>2
<1>3. /\ \A g \in Handles \ {h}, b \in Actors : Removing(b, g)' <=> Removing(b, g)
      /\ \A g \in Handles, b \in Actors : Inserting(b, g)' <=> Inserting(b, g)
      /\ \A g \in Handles : InMap(g)' <=> InMap(g)
      /\ \A g \in Handles \ {h} : Live(g)' <=> Live(g)
  BY <1>0, <1>1, <1>2 DEF Inserting, Removing, InMap, Live
<1>4. ~InMap(h) /\ \A b \in Actors : ~Removing(b, h)'
  BY <1>0, <1>1 DEF Own, RemovedFromMap, Exclusive, Removing
<1>5. \A g \in Handles : Inserters(g)' = Inserters(g)
  BY <1>3 DEF Inserters
<1>6. (\A g \in Handles \ {h} : Removers(g)' = Removers(g)) /\ Removers(h)' = {}
  BY <1>3, <1>4 DEF Removers
<1>7. Exclusive'
  BY <1>0, <1>1 DEF Own, Exclusive
<1>8. NamedInMap'
  BY <1>0, <1>2 DEF Own, NamedInMap, Registered
<1>9. RemovedFromMap'
  <2> SUFFICES ASSUME NEW b \in Actors, actor'[b].pc \in Deletes,
                      NEW g, g = actor'[b].hnd
               PROVE  ~InMap(g)'
    BY DEF RemovedFromMap, InMap
  <2>1. g \in Handles /\ actor[b].pc \in Deletes /\ actor[b].hnd = g
    BY <1>0, <1>1
  <2> QED
    BY <2>1, <1>3 DEF Own, RemovedFromMap
<1>10. Unaborted'
  BY <1>0, <1>2, <1>3, <1>4, <1>5, <1>6 DEF Own, Unaborted
<1>11. Insertion'
  <2> SUFFICES ASSUME NEW b \in Actors, actor'[b].pc \in Inserts,
                      NEW g, g = actor'[b].hnd
               PROVE  /\ handle'[g].slot = "unset" /\ handle'[g].task # "doomed"
                      /\ handle'[g].task = "none" <=> actor'[b].pc # "store"
                      /\ InMap(g)' \/ Removers(g)' # {} \/ handle'[g].overtaken
    BY DEF Insertion, InMap, Removers, Removing
  <2>1. b # a /\ actor'[b] = actor[b] /\ g \in Handles
    BY <1>0, <1>1
  <2>2. /\ handle[g].slot = "unset" /\ handle[g].task # "doomed"
        /\ handle[g].task = "none" <=> actor[b].pc # "store"
        /\ InMap(g) \/ Removers(g) # {} \/ handle[g].overtaken
    BY <2>1 DEF Own, Insertion
  <2> QED
    BY <2>1, <2>2, <1>2, <1>3, <1>6
<1>12. UnownedOnlyWhenOvertaken'
  <2> SUFFICES ASSUME NEW g \in Handles, Live(g)'
               PROVE  \/ InMap(g)' \/ handle'[g].overtaken
                      \/ \E b \in Actors : Inserting(b, g)' \/ Removing(b, g)'
    BY DEF UnownedOnlyWhenOvertaken
  <2>1. CASE g # h
    BY <2>1, <1>2, <1>3 DEF Own, UnownedOnlyWhenOvertaken
  <2>2. CASE g = h
    BY <2>2, <1>0, <1>2 DEF Live, Aborted
  <2> QED
    BY <2>1, <2>2
<1> QED
  BY <1>7, <1>8, <1>9, <1>10, <1>11, <1>12 DEF Own

\* The removal records the deletion and lets go of the handle.
LEMMA OwnRecord ==
    ASSUME TypeOK, ActorOK, Own, NEW a \in Actors, RemoveRecord(a), NEW h, h = actor[a].hnd
    PROVE  Own'
<1> USE DEF Inserts, Deletes
<1>0. /\ \A b \in Actors : actor[b].hnd \in Handles \cup {NoHandle}
      /\ \A b \in Actors : actor[b].hnd = NoHandle <=> actor[b].pc \notin Inserts \cup Deletes
      /\ \A m \in Names : containers[m] \in Handles \cup {NoHandle}
      /\ NoHandle \notin Handles
      /\ h \in Handles /\ containers' = containers /\ actor[a].pc = "delete"
      /\ handle \in [Handles -> Handle]
  BY RegistryAssumption DEF TypeOK, ActorOK, Actor, RemoveRecord
<1>1. /\ actor'[a].pc \notin Inserts \cup Deletes /\ actor'[a].hnd = NoHandle
      /\ \A b \in Actors \ {a} : actor'[b] = actor[b]
  BY TypeReturn DEF RemoveRecord
<1>2. \A g \in Handles : /\ handle'[g].name = handle[g].name
                          /\ handle'[g].slot = handle[g].slot
                          /\ handle'[g].task = handle[g].task
                          /\ handle'[g].overtaken = handle[g].overtaken
  BY <1>0 DEF RemoveRecord, Handle
<1>3. /\ \A g \in Handles, b \in Actors : Removing(b, g)' <=> Removing(b, g)
      /\ \A g \in Handles, b \in Actors : Inserting(b, g)' <=> Inserting(b, g)
      /\ \A g \in Handles : InMap(g)' <=> InMap(g)
      /\ \A g \in Handles : Live(g)' <=> Live(g)
  BY <1>0, <1>1, <1>2 DEF Inserting, Removing, InMap, Live
<1>4. \A g \in Handles : Inserters(g)' = Inserters(g) /\ Removers(g)' = Removers(g)
  BY <1>3 DEF Inserters, Removers
<1>5. Exclusive'
  BY <1>0, <1>1 DEF Own, Exclusive
<1>6. NamedInMap'
  BY <1>0, <1>2 DEF Own, NamedInMap, Registered
<1>7. RemovedFromMap'
  BY <1>0, <1>1 DEF Own, RemovedFromMap, InMap
<1>8. Unaborted'
  BY <1>2, <1>3, <1>4 DEF Own, Unaborted
<1>9. Insertion'
  <2> SUFFICES ASSUME NEW b \in Actors, actor'[b].pc \in Inserts,
                      NEW g, g = actor'[b].hnd
               PROVE  /\ handle'[g].slot = "unset" /\ handle'[g].task # "doomed"
                      /\ handle'[g].task = "none" <=> actor'[b].pc # "store"
                      /\ InMap(g)' \/ Removers(g)' # {} \/ handle'[g].overtaken
    BY DEF Insertion, InMap, Removers, Removing
  <2>1. actor'[b] = actor[b] /\ g \in Handles
    BY <1>0, <1>1
  <2> QED
    BY <2>1, <1>2, <1>3, <1>4 DEF Own, Insertion
<1>10. UnownedOnlyWhenOvertaken'
  BY <1>2, <1>3 DEF Own, UnownedOnlyWhenOvertaken
<1> QED
  BY <1>5, <1>6, <1>7, <1>8, <1>9, <1>10 DEF Own

\* A housekeeping task goes through its loop.
LEMMA OwnHousekeeping ==
    ASSUME TypeOK, ActorOK, Own, NEW h \in Handles, Housekeeping(h)
    PROVE  Own'
<1> USE DEF Inserts, Deletes
<1>0. /\ \A b \in Actors : actor[b].hnd \in Handles \cup {NoHandle}
      /\ \A b \in Actors : actor[b].hnd = NoHandle <=> actor[b].pc \notin Inserts \cup Deletes
      /\ \A m \in Names : containers[m] \in Handles \cup {NoHandle}
      /\ NoHandle \notin Handles
      /\ containers' = containers /\ actor' = actor
      /\ handle \in [Handles -> Handle]
  BY RegistryAssumption, TypeHousekeeping DEF TypeOK, ActorOK, Actor
<1>1. /\ \A g \in Handles \ {h} : handle'[g] = handle[g]
      /\ handle'[h].name = handle[h].name
      /\ handle'[h].slot = handle[h].slot
      /\ handle'[h].overtaken = handle[h].overtaken
      /\ handle'[h].task \notin {"none", "doomed"}
      /\ handle[h].task # "none"
      /\ handle[h].task = "doomed" => ~Live(h)'
      /\ handle[h].task # "doomed" => Live(h)
  <2>1. /\ handle[h].task \in {"ready", "working", "blank", "doomed"}
        /\ handle[h].task = "doomed" => handle' = [handle EXCEPT ![h].task = "gone"]
    BY TypeHousekeeping
  <2>2. PICK t \in Tasks \ {"none", "doomed"} : handle' = [handle EXCEPT ![h].task = t]
    BY TypeHousekeeping
  <2>3. /\ \A g \in Handles \ {h} : handle'[g] = handle[g]
        /\ handle'[h].name = handle[h].name
        /\ handle'[h].slot = handle[h].slot
        /\ handle'[h].overtaken = handle[h].overtaken
        /\ handle'[h].task = t
    BY <1>0, <2>2 DEF Handle
  <2>4. handle[h].task = "doomed" => handle'[h].task = "gone"
    BY <1>0, <2>1 DEF Handle
  <2> QED
    BY <2>1, <2>3, <2>4 DEF Live
<1>2. /\ \A g \in Handles, b \in Actors : Removing(b, g)' <=> Removing(b, g)
      /\ \A g \in Handles, b \in Actors : Inserting(b, g)' <=> Inserting(b, g)
      /\ \A g \in Handles : InMap(g)' <=> InMap(g)
      /\ \A g \in Handles : Live(g)' => Live(g)
  BY <1>0, <1>1 DEF Inserting, Removing, InMap, Live
<1>3. \A g \in Handles : Inserters(g)' = Inserters(g) /\ Removers(g)' = Removers(g)
  BY <1>2 DEF Inserters, Removers
<1>4. Exclusive'
  BY <1>0 DEF Own, Exclusive
<1>5. NamedInMap'
  BY <1>0, <1>1 DEF Own, NamedInMap, Registered
<1>6. RemovedFromMap'
  BY <1>0 DEF Own, RemovedFromMap, InMap
<1>7. Unaborted'
  BY <1>1, <1>2, <1>3 DEF Own, Unaborted
<1>8. Insertion'
  <2> SUFFICES ASSUME NEW b \in Actors, actor[b].pc \in Inserts,
                      NEW g, g = actor[b].hnd
               PROVE  /\ handle'[g].slot = "unset" /\ handle'[g].task # "doomed"
                      /\ handle'[g].task = "none" <=> actor[b].pc # "store"
                      /\ InMap(g)' \/ Removers(g)' # {} \/ handle'[g].overtaken
    BY <1>0 DEF Insertion, InMap, Removers, Removing
  <2>1. g \in Handles
    BY <1>0
  <2>2. /\ handle[g].slot = "unset" /\ handle[g].task # "doomed"
        /\ handle[g].task = "none" <=> actor[b].pc # "store"
        /\ InMap(g) \/ Removers(g) # {} \/ handle[g].overtaken
    BY <2>1 DEF Own, Insertion
  <2> QED
    BY <2>1, <2>2, <1>1, <1>2, <1>3
<1>9. UnownedOnlyWhenOvertaken'
  BY <1>1, <1>2 DEF Own, UnownedOnlyWhenOvertaken
<1> QED
  BY <1>4, <1>5, <1>6, <1>7, <1>8, <1>9 DEF Own

\* Every step keeps the ownership invariant.
LEMMA OwnStep == TypeOK /\ ActorOK /\ Own /\ [Next]_vars => Own'
<1> SUFFICES ASSUME TypeOK, ActorOK, Own, [Next]_vars PROVE Own'
  OBVIOUS
<1> USE DEF Inserts, Deletes
<1>0. ActorOK' /\ TypeOK'
  BY TypeStep
<1>1. /\ \A a \in Actors : actor[a].hnd \in Handles \cup {NoHandle}
      /\ \A a \in Actors : actor[a].hnd = NoHandle <=> actor[a].pc \notin Inserts \cup Deletes
  BY DEF TypeOK, ActorOK, Actor
<1>2. ASSUME UNCHANGED <<containers, handle, actor>> PROVE Own'
  BY <1>0, <1>2, OwnQuiet
<1>3. ASSUME NEW a \in Actors, actor[a].hnd = NoHandle, actor'[a].hnd = NoHandle,
             \A b \in Actors \ {a} : actor'[b] = actor[b],
             UNCHANGED <<containers, handle>>
      PROVE  Own'
  BY <1>0, <1>3, OwnQuiet
<1>4. ASSUME NEW a \in Actors, AddStep(a) \/ AddMeta(a) PROVE Own'
  <2>1. CASE AddCheck(a)
    BY <2>1, <1>1, <1>3, TypeGoto, TypeReturn DEF AddCheck, AddPcs
  <2>2. CASE AddSpec(a)
    <3>1. CASE Return(a)
      BY <3>1, <2>2, <1>1, <1>3, TypeReturn DEF AddSpec
    <3>2. CASE actor' = [actor EXCEPT ![a].pc = "meta", ![a].inc = tree[actor[a].arg]]
      <4>1. /\ actor'[a].hnd = actor[a].hnd
            /\ \A b \in Actors \ {a} : actor'[b] = actor[b]
        BY <3>2 DEF TypeOK, Actor
      <4> QED
        BY <4>1, <2>2, <1>1, <1>3 DEF AddSpec
    <3> QED
      BY <3>1, <3>2, <2>2 DEF AddSpec
  <2>3. CASE AddMeta(a)
    BY <2>3, <1>1, <1>3, TypeGoto DEF AddMeta, AddPcs
  <2>4. CASE AddInsert(a)
    <3>1. CASE Return(a) /\ UNCHANGED <<containers, handle>>
      BY <3>1, <2>4, <1>1, <1>3, TypeReturn DEF AddInsert
    <3>2. CASE /\ actor[a].arg \notin Registered
               /\ \E h \in Handles : Free(h)
               /\ InsertHandle(a, CHOOSE h \in Handles : Free(h))
      <4>1. PICK h \in Handles : Free(h) /\ InsertHandle(a, h)
        BY <3>2, Zenon
      <4> QED
        BY <4>1, <3>2, <2>4, OwnInsert DEF AddInsert
    <3> QED
      BY <3>1, <3>2, <2>4, Zenon DEF AddInsert
  <2>5. CASE AddRecord(a) \/ AddSpawn(a) \/ AddStore(a)
    BY <2>5, OwnInsertion
  <2> QED
    BY <1>4, <2>1, <2>2, <2>3, <2>4, <2>5 DEF AddStep
<1>5. ASSUME NEW a \in Actors, RemoveStep(a) PROVE Own'
  <2>1. CASE RemoveTake(a)
    <3>1. CASE Return(a) /\ UNCHANGED containers
      BY <3>1, <2>1, <1>1, <1>3, TypeReturn DEF RemoveTake
    <3>2. CASE actor[a].arg \in Registered
      BY <3>2, <2>1, OwnTake DEF RemoveTake
    <3> QED
      BY <3>1, <3>2, <2>1 DEF RemoveTake
  <2>2. CASE RemoveAbort(a)
    BY <2>2, OwnAbort
  <2>3. CASE RemoveRecord(a)
    BY <2>3, OwnRecord
  <2> QED
    BY <1>5, <2>1, <2>2, <2>3 DEF RemoveStep
<1>6. CASE Receive
  <2>1. /\ actor["consumer"].hnd = NoHandle /\ "consumer" \in Actors
        /\ UNCHANGED <<containers, handle>>
    BY <1>1, <1>6 DEF Receive, Actors
  <2>2. actor'["consumer"].hnd = NoHandle
    BY <1>6, <2>1 DEF Receive, Idle, TypeOK
  <2>3. \A b \in Actors \ {"consumer"} : actor'[b] = actor[b]
    BY <1>6 DEF Receive, TypeOK
  <2> QED
    BY <2>1, <2>2, <2>3, <1>3
<1>7. CASE SweepStep
  <2>1. /\ "sweeper" \in Actors /\ UNCHANGED <<containers, handle>>
        /\ actor["sweeper"].pc \in SweepPcs
    BY <1>7 DEF SweepStep, SweepTick, SweepList, SweepKnown, SweepAdd, SweepAdded,
                SweepCheck, SweepDone, Actors, SweepPcs
  <2>2. actor["sweeper"].hnd = NoHandle
    BY <2>1, <1>1 DEF SweepPcs
  <2>3. /\ actor'["sweeper"].hnd = actor["sweeper"].hnd
        /\ \A b \in Actors \ {"sweeper"} : actor'[b] = actor[b]
    <3>1. \/ UNCHANGED actor
          \/ \E l \in SweepPcs : Goto("sweeper", l)
          \/ \E l \in AddPcs \cup RemovePcs, n \in Names :
                actor' = [actor EXCEPT !["sweeper"].pc = l, !["sweeper"].arg = n]
      BY <1>7 DEF SweepStep, SweepTick, SweepList, SweepKnown, SweepAdd, SweepAdded,
                  SweepCheck, SweepDone, SweepPcs, AddPcs, RemovePcs
    <3> QED
      BY <3>1, <2>1, ZenonT(60) DEF Goto, TypeOK, Actor
  <2> QED
    BY <2>1, <2>2, <2>3, <1>3
<1>8. ASSUME NEW n \in Names, Create(n) \/ Destroy(n) \/ Rescan(n) PROVE Own'
  BY <1>8, <1>2 DEF Create, Destroy, Rescan, regVars
<1>9. CASE UNCHANGED vars
  BY <1>9, <1>2 DEF vars
<1> QED
  BY <1>4, <1>5, <1>6, <1>7, <1>8, <1>9, OwnHousekeeping DEF Next, ManagerStep

\* No handle is registered or held by an actor in the initial state.
LEMMA OwnInit == Init => Own
<1> SUFFICES ASSUME Init PROVE Own
  OBVIOUS
<1>1. /\ \A a \in Actors : actor[a].hnd = NoHandle /\ actor[a].pc \notin Inserts \cup Deletes
      /\ Registered = {} /\ \A h \in Handles : handle[h].task = "none"
      /\ \A h \in Handles : h # NoHandle /\ ~InMap(h) /\ ~Live(h) /\ Removers(h) = {}
  BY RegistryAssumption
     DEF Init, Idle, NewHandle, Inserts, Deletes, Registered, InMap, Live, Removers, Removing
<1> QED
  BY <1>1 DEF Own, Exclusive, NamedInMap, RemovedFromMap, Unaborted, Insertion,
              UnownedOnlyWhenOvertaken

\* The induction invariant.
THEOREM RegistryInvariant == Spec => [](TypeOK /\ ActorOK /\ Own)
BY TypeInit, OwnInit, TypeStep, OwnStep, PTL DEF Spec

\* A registered container is monitored by a task nobody has aborted, however
\* the consumer and the sweep interleave (add_container, remove_container).
THEOREM RegistryMonitors == Spec => []RegisteredIsMonitored
<1>1. TypeOK /\ ActorOK /\ Own => RegisteredIsMonitored
  <2> SUFFICES ASSUME TypeOK, Own, NEW n \in Registered, NEW h, h = containers[n]
               PROVE  /\ handle[h].name = n
                      /\ handle[h].task # "doomed" /\ handle[h].slot # "taken"
                      /\ \/ \E a \in Actors : Inserting(a, h)
                         \/ handle[h].task # "none" /\ handle[h].slot = "held"
    BY DEF RegisteredIsMonitored
  <2>1. h \in Handles /\ InMap(h) /\ n \in Names
    BY DEF TypeOK, Registered, InMap
  <2>2. handle[h].name = n
    BY DEF Own, NamedInMap
  <2>3. /\ handle[h].slot # "taken" /\ handle[h].task # "doomed"
        /\ Inserters(h) = {} => handle[h].slot = "held" /\ handle[h].task # "none"
    BY <2>1 DEF Own, Unaborted
  <2>4. Inserters(h) # {} => \E a \in Actors : Inserting(a, h)
    BY DEF Inserters
  <2> QED
    BY <2>2, <2>3, <2>4
<1> QED
  BY <1>1, RegistryInvariant, PTL

\* The only housekeeping tasks nobody owns are those whose removal overtook
\* the end of add_container (remove_container finds the slot empty).
THEOREM RegistryOwnsTasks == Spec => []UnownedOnlyWhenOvertaken
BY RegistryInvariant, PTL DEF Own

\* A registered handle is never replaced without having been removed: the
\* second look-up under the write lock is enough (add_container).
THEOREM RegistryNeverReplaces == Spec => HandleNeverReplaced
<1>1. TypeOK /\ ActorOK /\ [Next]_vars
        => [\A n \in Registered : containers'[n] \in {containers[n], NoHandle}]_vars
  <2> SUFFICES ASSUME TypeOK, ActorOK, Next, NEW n \in Registered
               PROVE  containers'[n] \in {containers[n], NoHandle}
    OBVIOUS
  <2>0. n \in Names /\ containers \in [Names -> Handles \cup {NoHandle}]
    BY DEF TypeOK, Registered
  <2>1. CASE containers' = containers
    BY <2>1
  <2>2. ASSUME NEW a \in Actors, AddInsert(a), containers' # containers
        PROVE  containers'[n] \in {containers[n], NoHandle}
    <3>1. actor[a].arg \notin Registered
      BY <2>2 DEF AddInsert
    <3>2. \E h : containers' = [containers EXCEPT ![actor[a].arg] = h]
      BY <2>2, Zenon DEF AddInsert, InsertHandle
    <3> QED
      BY <3>1, <3>2, <2>0
  <2>3. ASSUME NEW a \in Actors, RemoveTake(a)
        PROVE  containers'[n] \in {containers[n], NoHandle}
    BY <2>3, <2>0 DEF RemoveTake
  <2>4. \/ containers' = containers
        \/ \E a \in Actors : AddInsert(a) \/ RemoveTake(a)
    BY TypeHousekeeping
       DEF Next, ManagerStep, Create, Destroy, Rescan, regVars, AddStep, AddMeta, RemoveStep, Receive,
           AddCheck, AddSpec, AddRecord, AddSpawn, AddStore, RemoveAbort, RemoveRecord,
           SweepStep, SweepTick, SweepList, SweepKnown, SweepAdd, SweepAdded, SweepCheck, SweepDone
  <2> QED
    BY <2>1, <2>2, <2>3, <2>4
<1> QED
  BY <1>1, RegistryInvariant, PTL DEF Spec, HandleNeverReplaced
-----------------------------------------------------------------------------
(* What is recorded of a removal *)

\* A handle in the hands of a removal, or in the map, or never used has no
\* deletion, and any other one has one.
Pending(h) == InMap(h) \/ \E a \in Actors : Deleting(a, h)

\* A registered handle and one being removed have the name of a cgroup: the
\* exception OneDeletionPerRemoval makes of unused handles is not theirs.
PendingNamed == \A h \in Handles : Pending(h) => handle[h].name # Root

Recorded == OneDeletionPerRemoval /\ PendingNamed

\* A step that leaves events, names and the stage of every handle alone.
LEMMA RecordedQuiet ==
    ASSUME Recorded,
           \A h \in Handles : /\ handle'[h].name = handle[h].name
                              /\ Deletions(h)' = Deletions(h)
                              /\ Pending(h)' <=> Pending(h)
    PROVE  Recorded'
<1>1. PendingNamed'
  BY DEF Recorded, PendingNamed
<1>2. ASSUME NEW h \in Handles
      PROVE  IF handle'[h].name = Root \/ Pending(h)'
             THEN Deletions(h)' = {} ELSE \E i \in Deletions(h)' : Deletions(h)' = {i}
  <2>1. IF handle[h].name = Root \/ Pending(h)
        THEN Deletions(h) = {} ELSE \E i \in Deletions(h) : Deletions(h) = {i}
    BY DEF Recorded, OneDeletionPerRemoval, Pending
  <2> QED
    BY <2>1
<1> QED
  BY <1>1, <1>2 DEF Recorded, OneDeletionPerRemoval, Pending

\* An event appended to a handle: a deletion is one more, a creation none.
LEMMA AppendEvent ==
    ASSUME handle \in [Handles -> Handle], NEW h \in Handles,
           NEW e \in {"Creation", "Deletion"},
           handle' = [handle EXCEPT ![h].ev = Append(@, e)]
    PROVE  /\ \A g \in Handles : handle'[g].name = handle[g].name
           /\ \A g \in Handles \ {h} : Deletions(g)' = Deletions(g)
           /\ e = "Creation" => Deletions(h)' = Deletions(h)
           /\ e = "Deletion" => Deletions(h)' = Deletions(h) \cup {Len(handle[h].ev) + 1}
<1> DEFINE s == handle[h].ev
<1>1. s \in Seq({"Creation", "Deletion"}) /\ handle'[h].ev = Append(s, e)
  BY DEF Handle
<1>2. /\ \A g \in Handles : handle'[g].name = handle[g].name
      /\ \A g \in Handles \ {h} : handle'[g] = handle[g]
  BY DEF Handle
<1>3. /\ Len(s) \in Nat /\ DOMAIN s = 1..Len(s)
      /\ DOMAIN handle'[h].ev = 1..(Len(s) + 1)
      /\ \A i \in 1..Len(s) : handle'[h].ev[i] = s[i]
      /\ handle'[h].ev[Len(s) + 1] = e
  BY <1>1
<1> HIDE DEF s
<1>4. Deletions(h)' = {i \in 1..(Len(s) + 1) : handle'[h].ev[i] = "Deletion"}
  BY <1>3 DEF Deletions
<1>5. Deletions(h) = {i \in 1..Len(s) : s[i] = "Deletion"}
  BY <1>3 DEF Deletions, s
<1>6. e = "Creation" => Deletions(h)' = Deletions(h)
  BY <1>3, <1>4, <1>5
<1>7. e = "Deletion" => Deletions(h)' = Deletions(h) \cup {Len(s) + 1}
  BY <1>3, <1>4, <1>5
<1> QED
  BY <1>2, <1>6, <1>7 DEF Deletions, s

\* The map and the removals as they bear on one step of actor a: the others
\* hold what they held.
LEMMA PendingStep ==
    ASSUME TypeOK, NEW a \in Actors, containers' = containers,
           \A b \in Actors \ {a} : actor'[b] = actor[b],
           \A h \in Handles : Deleting(a, h)' <=> Deleting(a, h)
    PROVE  \A h \in Handles : Pending(h)' <=> Pending(h)
<1>1. \A h \in Handles, b \in Actors : Deleting(b, h)' <=> Deleting(b, h)
  BY DEF Deleting
<1>2. \A h \in Handles : InMap(h)' <=> InMap(h)
  BY DEF InMap
<1> QED
  BY <1>1, <1>2 DEF Pending

\* A new handle comes into the map without events.
LEMMA RecordedInsert ==
    ASSUME TypeOK, ActorOK, Own, Recorded, NEW a \in Actors, actor[a].pc = "insert",
           actor[a].arg \notin Registered,
           NEW h \in Handles, Free(h), InsertHandle(a, h)
    PROVE  Recorded'
<1> DEFINE n == actor[a].arg
<1>0. /\ \A m \in Names : containers[m] \in Handles \cup {NoHandle}
      /\ NoHandle \notin Handles
      /\ n \in Names /\ containers[n] = NoHandle /\ n # Root
  BY RegistryAssumption, TreeAssumption DEF TypeOK, ActorOK, AddPcs, Registered
<1>1. /\ containers'[n] = h
      /\ \A m \in Names \ {n} : containers'[m] = containers[m]
      /\ actor'[a].pc = "record" /\ actor'[a].hnd = h
      /\ \A b \in Actors \ {a} : actor'[b] = actor[b]
      /\ \A g \in Handles \ {h} : handle'[g] = handle[g]
      /\ handle'[h].name = n /\ handle'[h].ev = <<>>
  BY <1>0 DEF TypeOK, Actor, InsertHandle, NewHandle
<1> HIDE DEF n
<1>2. \A g \in Handles \ {h} : /\ InMap(g)' <=> InMap(g)
                               /\ \A b \in Actors : Deleting(b, g)' <=> Deleting(b, g)
  BY <1>0, <1>1 DEF InMap, Deleting
<1>3. InMap(h)' /\ Deletions(h)' = {}
  <2>1. DOMAIN handle'[h].ev = {}
    BY <1>1
  <2> QED
    BY <2>1, <1>0, <1>1 DEF InMap, Deletions
<1>4. \A g \in Handles \ {h} : /\ Pending(g)' <=> Pending(g)
                               /\ handle'[g].name = handle[g].name
                               /\ Deletions(g)' = Deletions(g)
  BY <1>1, <1>2 DEF Pending, Deletions
<1>5. PendingNamed'
  BY <1>0, <1>1, <1>4 DEF Recorded, PendingNamed
<1>6. ASSUME NEW g \in Handles
      PROVE  IF handle'[g].name = Root \/ Pending(g)'
             THEN Deletions(g)' = {} ELSE \E i \in Deletions(g)' : Deletions(g)' = {i}
  <2>1. CASE g = h
    BY <2>1, <1>3 DEF Pending
  <2>2. CASE g # h
    <3>1. IF handle[g].name = Root \/ Pending(g)
          THEN Deletions(g) = {} ELSE \E i \in Deletions(g) : Deletions(g) = {i}
      BY DEF Recorded, OneDeletionPerRemoval, Pending
    <3> QED
      BY <2>2, <3>1, <1>4
  <2> QED
    BY <2>1, <2>2
<1> QED
  BY <1>5, <1>6 DEF Recorded, OneDeletionPerRemoval, Pending

\* A handle leaves the map for the hands of its removal.
LEMMA RecordedTake ==
    ASSUME TypeOK, ActorOK, Own, Recorded, NEW a \in Actors, RemoveTake(a),
           actor[a].arg \in Registered,
           NEW n, n = actor[a].arg, NEW h, h = containers[n]
    PROVE  Recorded'
<1> USE DEF Inserts, Deletes
<1>0. /\ n \in Names /\ h \in Handles /\ h # NoHandle
      /\ containers \in [Names -> Handles \cup {NoHandle}]
      /\ actor[a].pc = "remove" /\ handle' = handle
      /\ actor[a].hnd = NoHandle
  BY DEF TypeOK, ActorOK, Registered, RemoveTake
<1>1. /\ containers' = [containers EXCEPT ![n] = NoHandle]
      /\ actor'[a].pc = "abort" /\ actor'[a].hnd = h
      /\ \A b \in Actors \ {a} : actor'[b] = actor[b]
  BY <1>0 DEF TypeOK, Actor, RemoveTake, Return
<1>2. InMap(h) /\ Deleting(a, h)'
  BY <1>0, <1>1 DEF InMap, Deleting
<1>3. \A g \in Handles \ {h} : /\ InMap(g)' <=> InMap(g)
                               /\ \A b \in Actors : Deleting(b, g)' <=> Deleting(b, g)
  BY <1>0, <1>1, RegistryAssumption DEF InMap, Deleting
<1>4. \A g \in Handles : Pending(g)' <=> Pending(g)
  BY <1>2, <1>3 DEF Pending
<1> QED
  BY <1>0, <1>4, RecordedQuiet DEF Deletions

\* A removal ends: the deletion of its handle is recorded, the only one.
LEMMA RecordedRecord ==
    ASSUME TypeOK, ActorOK, Own, Recorded, NEW a \in Actors, RemoveRecord(a),
           NEW h, h = actor[a].hnd
    PROVE  Recorded'
<1> USE DEF Inserts, Deletes
<1>0. /\ h \in Handles /\ actor[a].pc = "delete" /\ containers' = containers
      /\ handle \in [Handles -> Handle]
      /\ handle' = [handle EXCEPT ![h].ev = Append(@, "Deletion")]
  BY DEF TypeOK, ActorOK, Actor, RemoveRecord
<1>1. /\ actor'[a].hnd = NoHandle
      /\ \A b \in Actors \ {a} : actor'[b] = actor[b]
  BY TypeReturn DEF RemoveRecord
<1>2. /\ ~InMap(h) /\ Deleting(a, h)
      /\ \A b \in Actors \ {a} : ~Deleting(b, h)
  <2>1. ~InMap(h) /\ Deleting(a, h)
    BY <1>0 DEF Own, RemovedFromMap, Deleting
  <2>2. ASSUME NEW b \in Actors \ {a}, Deleting(b, h) PROVE FALSE
    BY <2>2, <1>0, RegistryAssumption DEF Own, Exclusive, Deleting
  <2> QED
    BY <2>1, <2>2
<1>3. ~Pending(h)'
  <2>1. \A b \in Actors : ~Deleting(b, h)'
    BY <1>0, <1>1, <1>2, RegistryAssumption DEF Deleting
  <2> QED
    BY <2>1, <1>0, <1>2 DEF Pending, InMap
<1>4. \A g \in Handles \ {h} : Pending(g)' <=> Pending(g)
  <2>1. \A g \in Handles \ {h}, b \in Actors : Deleting(b, g)' <=> Deleting(b, g)
    BY <1>0, <1>1, RegistryAssumption DEF Deleting
  <2> QED
    BY <2>1, <1>0 DEF Pending, InMap
<1>5. /\ \A g \in Handles : handle'[g].name = handle[g].name
      /\ \A g \in Handles \ {h} : Deletions(g)' = Deletions(g)
      /\ Deletions(h)' = Deletions(h) \cup {Len(handle[h].ev) + 1}
  BY <1>0, AppendEvent
<1>6. Deletions(h) = {} /\ handle[h].name # Root
  BY <1>0, <1>2 DEF Recorded, OneDeletionPerRemoval, PendingNamed, Pending
<1>7. PendingNamed'
  BY <1>3, <1>4, <1>5 DEF Recorded, PendingNamed
<1>8. ASSUME NEW g \in Handles
      PROVE  IF handle'[g].name = Root \/ Pending(g)'
             THEN Deletions(g)' = {} ELSE \E i \in Deletions(g)' : Deletions(g)' = {i}
  <2>1. CASE g = h
    <3>1. Deletions(h)' = {Len(handle[h].ev) + 1}
      BY <1>5, <1>6
    <3>2. handle'[g].name # Root /\ ~Pending(g)'
      BY <2>1, <1>0, <1>3, <1>5, <1>6
    <3> QED
      BY <2>1, <3>1, <3>2, Zenon
  <2>2. CASE g # h
    <3>1. IF handle[g].name = Root \/ Pending(g)
          THEN Deletions(g) = {} ELSE \E i \in Deletions(g) : Deletions(g) = {i}
      BY DEF Recorded, OneDeletionPerRemoval, Pending
    <3> QED
      BY <2>2, <3>1, <1>4, <1>5
  <2> QED
    BY <2>1, <2>2
<1> QED
  BY <1>7, <1>8 DEF Recorded, OneDeletionPerRemoval, Pending

\* Every step keeps the deletions right.
LEMMA RecordedStep == TypeOK /\ ActorOK /\ Own /\ Recorded /\ [Next]_vars => Recorded'
<1> SUFFICES ASSUME TypeOK, ActorOK, Own, Recorded, [Next]_vars PROVE Recorded'
  OBVIOUS
<1> USE DEF Inserts, Deletes
<1>1. /\ \A a \in Actors : actor[a].hnd \in Handles \cup {NoHandle}
      /\ \A a \in Actors : actor[a].hnd = NoHandle <=> actor[a].pc \notin Inserts \cup Deletes
      /\ NoHandle \notin Handles
      /\ handle \in [Handles -> Handle]
  BY RegistryAssumption DEF TypeOK, ActorOK, Actor
<1>2. ASSUME \A h \in Handles : Deletions(h)' = Deletions(h) /\ handle'[h].name = handle[h].name,
             NEW a \in Actors, containers' = containers,
             \A b \in Actors \ {a} : actor'[b] = actor[b],
             actor'[a].hnd \in {actor[a].hnd, NoHandle},
             actor[a].pc \in Deletes <=> actor'[a].pc \in Deletes,
             actor[a].pc \in Deletes => actor'[a].hnd = actor[a].hnd
      PROVE  Recorded'
  <2>1. \A h \in Handles : Deleting(a, h)' <=> Deleting(a, h)
    BY <1>1, <1>2 DEF Deleting
  <2> QED
    BY <2>1, <1>2, PendingStep, RecordedQuiet
<1>3. ASSUME NEW a \in Actors, handle' = handle, containers' = containers, Return(a),
             actor[a].pc \notin Deletes
      PROVE  Recorded'
  BY <1>2, <1>3, TypeReturn DEF Deletions
<1>4. ASSUME NEW a \in Actors,
             \A h \in Handles : Deletions(h)' = Deletions(h) /\ handle'[h].name = handle[h].name,
             containers' = containers,
             NEW l \in AddPcs \cup RemovePcs \cup SweepPcs, Goto(a, l),
             actor[a].pc \in Deletes <=> l \in Deletes
      PROVE  Recorded'
  BY <1>2, <1>4, TypeGoto, ZenonT(60)
<1>5. ASSUME NEW a \in Actors, AddStep(a) \/ AddMeta(a) PROVE Recorded'
  <2>1. CASE AddCheck(a)
    BY <2>1, <1>3, <1>4 DEF AddCheck, AddPcs, Deletions
  <2>2. CASE AddSpec(a)
    <3>1. CASE Return(a)
      BY <3>1, <2>2, <1>3 DEF AddSpec
    <3>2. CASE actor' = [actor EXCEPT ![a].pc = "meta", ![a].inc = tree[actor[a].arg]]
      <4>1. /\ actor'[a].hnd = actor[a].hnd /\ actor'[a].pc = "meta"
            /\ \A b \in Actors \ {a} : actor'[b] = actor[b]
        BY <3>2 DEF TypeOK, Actor
      <4> QED
        BY <4>1, <2>2, <1>2 DEF AddSpec, Deletions
    <3> QED
      BY <3>1, <3>2, <2>2 DEF AddSpec
  <2>3. CASE AddMeta(a)
    BY <2>3, <1>4 DEF AddMeta, AddPcs, Deletions
  <2>4. CASE AddInsert(a)
    <3>1. CASE Return(a) /\ UNCHANGED <<containers, handle>>
      BY <3>1, <2>4, <1>3 DEF AddInsert
    <3>2. CASE /\ actor[a].arg \notin Registered
               /\ \E h \in Handles : Free(h)
               /\ InsertHandle(a, CHOOSE h \in Handles : Free(h))
      <4>1. PICK h \in Handles : Free(h) /\ InsertHandle(a, h)
        BY <3>2, Zenon
      <4> QED
        BY <4>1, <3>2, <2>4, RecordedInsert DEF AddInsert
    <3> QED
      BY <3>1, <3>2, <2>4, Zenon DEF AddInsert
  <2>5. CASE AddRecord(a)
    <3>0. /\ actor[a].pc = "record" /\ containers' = containers /\ Goto(a, "spawn")
          /\ actor[a].hnd \in Handles
      BY <2>5, <1>1 DEF AddRecord
    <3>1. PICK h \in Handles : h = actor[a].hnd
      BY <3>0
    <3>2. handle' = handle \/ handle' = [handle EXCEPT ![h].ev = Append(@, "Creation")]
      BY <2>5, <3>1 DEF AddRecord
    <3>3. \A g \in Handles : Deletions(g)' = Deletions(g) /\ handle'[g].name = handle[g].name
      <4>1. CASE handle' = handle
        BY <4>1 DEF Deletions
      <4>2. CASE handle' = [handle EXCEPT ![h].ev = Append(@, "Creation")]
        BY <4>2, <1>1, AppendEvent
      <4> QED
        BY <3>2, <4>1, <4>2
    <3> QED
      BY <3>0, <3>3, <1>4 DEF AddPcs
  <2>6. CASE AddSpawn(a) \/ AddStore(a)
    <3>1. \A g \in Handles : /\ handle'[g].ev = handle[g].ev
                              /\ handle'[g].name = handle[g].name
      BY <2>6, <1>1 DEF AddSpawn, AddStore, Handle
    <3>2. /\ containers' = containers /\ actor[a].pc \notin Deletes
          /\ Return(a) \/ Goto(a, "store")
      BY <2>6 DEF AddSpawn, AddStore
    <3>3. actor'[a].hnd \in {actor[a].hnd, NoHandle} /\ actor'[a].pc \notin Deletes
          /\ \A b \in Actors \ {a} : actor'[b] = actor[b]
      BY <3>2, TypeReturn, TypeGoto DEF AddPcs
    <3> QED
      BY <3>1, <3>2, <3>3, <1>2 DEF Deletions
  <2> QED
    BY <1>5, <2>1, <2>2, <2>3, <2>4, <2>5, <2>6 DEF AddStep
<1>6. ASSUME NEW a \in Actors, RemoveStep(a) PROVE Recorded'
  <2>1. CASE RemoveTake(a)
    <3>1. CASE Return(a) /\ UNCHANGED containers
      BY <3>1, <2>1, <1>3 DEF RemoveTake
    <3>2. CASE actor[a].arg \in Registered
      BY <3>2, <2>1, RecordedTake
    <3> QED
      BY <3>1, <3>2, <2>1 DEF RemoveTake
  <2>2. CASE RemoveAbort(a)
    <3>1. \A g \in Handles : /\ handle'[g].ev = handle[g].ev
                              /\ handle'[g].name = handle[g].name
      BY <2>2, <1>1 DEF RemoveAbort, Handle
    <3> QED
      BY <3>1, <2>2, <1>4 DEF RemoveAbort, RemovePcs, Deletions
  <2>3. CASE RemoveRecord(a)
    BY <2>3, RecordedRecord
  <2> QED
    BY <1>6, <2>1, <2>2, <2>3 DEF RemoveStep
<1>7. CASE Receive
  <2>1. /\ "consumer" \in Actors /\ UNCHANGED <<containers, handle>>
        /\ actor["consumer"].pc = "recv"
    BY <1>7 DEF Receive, Actors
  <2>2. actor'["consumer"].hnd = NoHandle /\ actor'["consumer"].pc \in {"check", "remove"}
    BY <1>7, <2>1 DEF Receive, Idle, TypeOK
  <2>3. \A b \in Actors \ {"consumer"} : actor'[b] = actor[b]
    BY <1>7 DEF Receive, TypeOK
  <2> QED
    BY <2>1, <2>2, <2>3, <1>2 DEF Deletions
<1>8. CASE SweepStep
  <2>1. /\ "sweeper" \in Actors /\ UNCHANGED <<containers, handle>>
        /\ actor["sweeper"].pc \in SweepPcs
    BY <1>8 DEF SweepStep, SweepTick, SweepList, SweepKnown, SweepAdd, SweepAdded,
                SweepCheck, SweepDone, Actors, SweepPcs
  <2>2. /\ actor'["sweeper"].hnd = actor["sweeper"].hnd
        /\ actor'["sweeper"].pc \in SweepPcs \cup {"check", "remove"}
        /\ \A b \in Actors \ {"sweeper"} : actor'[b] = actor[b]
    <3>1. \/ UNCHANGED actor
          \/ \E l \in SweepPcs : Goto("sweeper", l)
          \/ \E l \in {"check", "remove"}, n \in Names :
                actor' = [actor EXCEPT !["sweeper"].pc = l, !["sweeper"].arg = n]
      BY <1>8 DEF SweepStep, SweepTick, SweepList, SweepKnown, SweepAdd, SweepAdded,
                  SweepCheck, SweepDone, SweepPcs
    <3> QED
      BY <3>1, <2>1 DEF Goto, TypeOK, Actor
  <2> QED
    BY <2>1, <2>2, <1>2 DEF Deletions, SweepPcs
<1>9. ASSUME UNCHANGED <<containers, handle, actor>> PROVE Recorded'
  BY <1>9, RecordedQuiet DEF Pending, InMap, Deleting, Deletions
<1>10. ASSUME NEW n \in Names, Create(n) \/ Destroy(n) \/ Rescan(n) PROVE Recorded'
  BY <1>10, <1>9 DEF Create, Destroy, Rescan, regVars
<1>11. ASSUME NEW h \in Handles, Housekeeping(h) PROVE Recorded'
  <2>1. /\ containers' = containers /\ actor' = actor
        /\ \A g \in Handles : handle'[g].ev = handle[g].ev /\ handle'[g].name = handle[g].name
    <3>1. PICK t \in Tasks : handle' = [handle EXCEPT ![h].task = t]
      BY <1>11, TypeHousekeeping
    <3>2. containers' = containers /\ actor' = actor
      BY <1>11, TypeHousekeeping
    <3> QED
      BY <1>1, <3>1, <3>2 DEF Handle
  <2> QED
    BY <2>1, RecordedQuiet DEF Pending, InMap, Deleting, Deletions
<1>12. CASE UNCHANGED vars
  BY <1>12, <1>9 DEF vars
<1> QED
  BY <1>5, <1>6, <1>7, <1>8, <1>10, <1>11, <1>12 DEF Next, ManagerStep

\* Initially no handle has been used.
LEMMA RecordedInit == Init => Recorded
<1> SUFFICES ASSUME Init PROVE Recorded
  OBVIOUS
<1>1. \A h \in Handles : handle[h].name = Root /\ handle[h].ev = <<>>
  BY DEF Init, NewHandle
<1>2. \A h \in Handles : ~Pending(h)
  BY RegistryAssumption DEF Init, Pending, InMap, Deleting, Idle
<1>3. \A h \in Handles : Deletions(h) = {}
  BY <1>1 DEF Deletions
<1> QED
  BY <1>1, <1>2, <1>3 DEF Recorded, OneDeletionPerRemoval, PendingNamed

\* Every removal records exactly one deletion, for any number of removals that
\* the consumer and the sweep begin for the same name (remove_container).
THEOREM RegistryRecordsRemovals == Spec => []OneDeletionPerRemoval
<1>1. Init => TypeOK /\ ActorOK /\ Own /\ Recorded
  BY TypeInit, OwnInit, RecordedInit
<1>2. TypeOK /\ ActorOK /\ Own /\ Recorded /\ [Next]_vars
        => (TypeOK /\ ActorOK /\ Own /\ Recorded)'
  BY TypeStep, OwnStep, RecordedStep
<1>3. Recorded => OneDeletionPerRemoval
  BY DEF Recorded
<1> QED
  BY <1>1, <1>2, <1>3, PTL DEF Spec
=============================================================================
