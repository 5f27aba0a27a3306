------------------------------ MODULE Registry ------------------------------
(***************************************************************************)
(* The container registry of cadvisor-manager/src/manager.rs: the map of   *)
(* monitored containers, the two tasks that change it (the consumer of     *)
(* watch events, and the periodic sweep, whose first pass is the initial   *)
(* walk of Manager::start) and the life of the housekeeping tasks.         *)
(*                                                                         *)
(* add_container and remove_container run on a multi-threaded runtime: a   *)
(* step of the model is what happens between two points at which another   *)
(* thread can be observed, that is one lock section, one file-system read  *)
(* or one await.  The watch is abstracted to the stream of Added/Removed   *)
(* events it produces.                                                     *)
(*                                                                         *)
(* The root cgroup's own container is left out: walk_tree lists "/" first, *)
(* so the initial walk registers it, "/" always exists, no event names it  *)
(* and the sweep never removes it (name != "/").                           *)
(***************************************************************************)
EXTENDS CgroupTree, Sequences

CONSTANTS
    Mounts,      \* cgroups named *.mount, which are never monitored
    Handles,     \* identities for ContainerHandle allocations
    MaxChan,     \* bound on the undelivered watch events
    LostEvents   \* whether the watch may miss changes

ASSUME RegistryAssumption ==
    /\ Mounts \subseteq Names
    /\ Handles \subseteq Nat \ {0}
    /\ MaxChan \in Nat
    /\ LostEvents \in BOOLEAN

VARIABLES
    chan,        \* events between the watcher thread and the consumer
    containers,  \* Manager::containers: cgroup name -> handle
    handle,      \* every ContainerHandle, with its housekeeping task
    actor,       \* the consumer and the sweep: position and local variables
    sweep        \* local variables of Manager::start and of the sweep

regVars == <<containers, handle, actor, sweep>>
vars == <<tree, changes, chan, containers, handle, actor, sweep>>

NoHandle == 0

Actors == {"consumer", "sweeper"}
AddPcs == {"check", "spec", "meta", "insert", "record", "spawn", "store"}
RemovePcs == {"remove", "abort", "delete"}
SweepPcs == {"tick", "walk", "adding", "checking"}

\* The housekeeping task of a handle: not spawned, between two iterations,
\* inside one (with its cgroup there or already gone when it began), aborted
\* inside one, ended.
Tasks == {"none", "ready", "working", "blank", "doomed", "gone"}
Live(h) == handle[h].task \in {"ready", "working", "blank"}

Handle ==
    [name : Names \cup {Root},                \* its cgroup,
     inc : Nat,                               \* the incarnation its spec was read from
     slot : {"unset", "held", "taken"},       \* ContainerHandle::task
     task : Tasks,
     ev : Seq({"Creation", "Deletion"}),      \* history: events recorded for it
     overtaken : BOOLEAN]                     \* history: removed with its slot unset

Actor == [pc : {"recv"} \cup AddPcs \cup RemovePcs \cup SweepPcs,
          arg : Names \cup {Root},            \* the container worked on
          inc : Nat,                          \* the incarnation whose spec was read
          hnd : Handles \cup {NoHandle}]      \* the handle being inserted or removed

Event == [type : {"Added", "Removed"}, name : Names]

Registered == {n \in Names : containers[n] # NoHandle}
InMap(h) == \E n \in Names : containers[n] = h

NewHandle(n, i) ==
    [name |-> n, inc |-> i, slot |-> "unset", task |-> "none",
     ev |-> <<>>, overtaken |-> FALSE]

Idle(label) == [pc |-> label, arg |-> Root, inc |-> 0, hnd |-> NoHandle]

Init ==
    /\ TreeInit
    /\ chan = <<>>
    /\ containers = [n \in Names |-> NoHandle]
    /\ handle = [h \in Handles |-> NewHandle(Root, 0)]
    /\ actor = [a \in Actors |-> Idle(IF a = "consumer" THEN "recv" ELSE "tick")]
    /\ sweep = [started |-> FALSE, stack |-> {}, current |-> {}, add |-> {}, check |-> {}]
-----------------------------------------------------------------------------
(* The environment: the tree changes, and the watch reports it once, more  *)
(* than once or not at all.                                                *)

\* Nothing is reported before the watcher runs.
Emit(e) ==
    \/ sweep.started /\ Len(chan) < MaxChan /\ chan' = Append(chan, e)
    \/ (LostEvents \/ ~sweep.started) /\ UNCHANGED chan

Create(n) ==
    /\ Mkdir(n)
    /\ Emit([type |-> "Added", name |-> n])
    /\ UNCHANGED regVars

Destroy(n) ==
    /\ Rmdir(n)
    /\ Emit([type |-> "Removed", name |-> n])
    /\ UNCHANGED regVars

\* A scan of the watcher finds a cgroup whose creation is reported as well
\* (watch_dir, see CgroupWatch).
Rescan(n) ==
    /\ sweep.started /\ Len(chan) < MaxChan
    /\ Exists(n)
    /\ chan' = Append(chan, [type |-> "Added", name |-> n])
    /\ UNCHANGED <<treeVars, regVars>>
-----------------------------------------------------------------------------
(* add_container(name, record_creation), on behalf of actor a.             *)

Goto(a, label) == actor' = [actor EXCEPT ![a].pc = label]

\* add_container or remove_container returns to its caller.
Return(a) ==
    actor' = [actor EXCEPT ![a] =
                 Idle(IF a = "consumer" THEN "recv"
                      ELSE IF actor[a].pc \in AddPcs THEN "adding" ELSE "checking")]

AddCheck(a) ==
    /\ actor[a].pc = "check"
    /\ IF actor[a].arg \in Mounts \cup Registered THEN Return(a) ELSE Goto(a, "spec")
    /\ UNCHANGED <<treeVars, chan, containers, handle, sweep>>

\* Faulty variant of AddSpec: a directory that is gone is not an error.
AddSpecUnchecked(a) ==
    /\ actor[a].pc = "spec"
    /\ actor' = [actor EXCEPT ![a].pc = "meta",
                     ![a].inc = IF Exists(actor[a].arg) THEN tree[actor[a].arg] ELSE -1]
    /\ UNCHANGED <<treeVars, chan, containers, handle, sweep>>

\* build_spec fails when the directory is gone.
AddSpec(a) ==
    /\ actor[a].pc = "spec"
    /\ IF Exists(actor[a].arg)
       THEN actor' = [actor EXCEPT ![a].pc = "meta", ![a].inc = tree[actor[a].arg]]
       ELSE Return(a)
    /\ UNCHANGED <<treeVars, chan, containers, handle, sweep>>

\* runtime_meta(basename).await: anything may happen before it returns.
AddMeta(a) ==
    /\ actor[a].pc = "meta"
    /\ Goto(a, "insert")
    /\ UNCHANGED <<treeVars, chan, containers, handle, sweep>>

\* An identity nothing refers to any more: its Arc has been dropped.
Free(h) ==
    /\ ~InMap(h)
    /\ \A a \in Actors : actor[a].hnd # h
    /\ handle[h].task \in {"none", "gone"}

InsertHandle(a, h) ==
    /\ containers' = [containers EXCEPT ![actor[a].arg] = h]
    /\ handle' = [handle EXCEPT ![h] = NewHandle(actor[a].arg, actor[a].inc)]
    /\ actor' = [actor EXCEPT ![a].pc = "record", ![a].hnd = h]

\* Faulty variant of AddInsert: the map is not looked up again under the lock.
AddInsertUnchecked(a) ==
    /\ actor[a].pc = "insert"
    /\ \E h \in Handles : Free(h)
    /\ InsertHandle(a, CHOOSE h \in Handles : Free(h))
    /\ UNCHANGED <<treeVars, chan, sweep>>

\* The handle is built and, under the write lock, inserted unless the name
\* has been registered in the meantime.
AddInsert(a) ==
    /\ actor[a].pc = "insert"
    /\ \/ /\ actor[a].arg \in Registered
          /\ Return(a)
          /\ UNCHANGED <<containers, handle>>
       \/ /\ actor[a].arg \notin Registered
          /\ \E h \in Handles : Free(h)
          /\ InsertHandle(a, CHOOSE h \in Handles : Free(h))
    /\ UNCHANGED <<treeVars, chan, sweep>>

\* Containers found by the initial walk get no creation event.
AddRecord(a) ==
    /\ actor[a].pc = "record"
    /\ handle' = IF sweep.started
                 THEN [handle EXCEPT ![actor[a].hnd].ev = Append(@, "Creation")]
                 ELSE handle
    /\ Goto(a, "spawn")
    /\ UNCHANGED <<treeVars, chan, containers, sweep>>

AddSpawn(a) ==
    /\ actor[a].pc = "spawn"
    /\ handle' = [handle EXCEPT ![actor[a].hnd].task = "ready"]
    /\ Goto(a, "store")
    /\ UNCHANGED <<treeVars, chan, containers, sweep>>

\* Faulty variant of AddStore: the JoinHandle is dropped.
AddStoreDropped(a) ==
    /\ actor[a].pc = "store"
    /\ Return(a)
    /\ UNCHANGED <<treeVars, chan, containers, handle, sweep>>

AddStore(a) ==
    /\ actor[a].pc = "store"
    /\ handle' = [handle EXCEPT ![actor[a].hnd].slot = "held"]
    /\ Return(a)
    /\ UNCHANGED <<treeVars, chan, containers, sweep>>
-----------------------------------------------------------------------------
(* remove_container(name), on behalf of actor a.                           *)

\* Faulty variant of RemoveTake: the handle is looked up and left in the map.
RemoveTakeGet(a) ==
    /\ actor[a].pc = "remove"
    /\ LET n == actor[a].arg IN
         \/ /\ n \in Registered
            /\ actor' = [actor EXCEPT ![a].pc = "abort", ![a].hnd = containers[n]]
         \/ n \notin Registered /\ Return(a)
    /\ UNCHANGED <<treeVars, chan, containers, handle, sweep>>

RemoveTake(a) ==
    /\ actor[a].pc = "remove"
    /\ LET n == actor[a].arg IN
         \/ /\ n \in Registered
            /\ containers' = [containers EXCEPT ![n] = NoHandle]
            /\ actor' = [actor EXCEPT ![a].pc = "abort", ![a].hnd = containers[n]]
         \/ n \notin Registered /\ Return(a) /\ UNCHANGED containers
    /\ UNCHANGED <<treeVars, chan, handle, sweep>>

\* What abort() makes of a task: the sleep is its only await, so one that is
\* inside an iteration finishes it.
Aborted(task) ==
    IF task \in {"working", "blank"} THEN "doomed"
    ELSE IF task = "ready" THEN "gone" ELSE task

\* Faulty variant of RemoveAbort: the task is taken but not aborted.
RemoveForgetAbort(a) ==
    /\ actor[a].pc = "abort"
    /\ LET h == actor[a].hnd IN
         handle' = IF handle[h].slot = "held"
                   THEN [handle EXCEPT ![h].slot = "taken"]
                   ELSE [handle EXCEPT ![h].overtaken = TRUE]
    /\ Goto(a, "delete")
    /\ UNCHANGED <<treeVars, chan, containers, sweep>>

\* handle.task.lock().take() and, if a task was there, abort().
RemoveAbort(a) ==
    /\ actor[a].pc = "abort"
    /\ LET h == actor[a].hnd IN
         handle' = IF handle[h].slot = "held"
                   THEN [handle EXCEPT ![h].slot = "taken", ![h].task = Aborted(handle[h].task)]
                   ELSE [handle EXCEPT ![h].overtaken = TRUE]
    /\ Goto(a, "delete")
    /\ UNCHANGED <<treeVars, chan, containers, sweep>>

RemoveRecord(a) ==
    /\ actor[a].pc = "delete"
    /\ handle' = [handle EXCEPT ![actor[a].hnd].ev = Append(@, "Deletion")]
    /\ Return(a)
    /\ UNCHANGED <<treeVars, chan, containers, sweep>>
-----------------------------------------------------------------------------
(* The consumer task of Manager::start.                                    *)

Receive ==
    /\ sweep.started
    /\ actor["consumer"].pc = "recv"
    /\ chan # <<>>
    /\ chan' = Tail(chan)
    /\ LET e == Head(chan) IN
         actor' = [actor EXCEPT !["consumer"] =
                     [Idle(IF e.type = "Added" THEN "check" ELSE "remove")
                        EXCEPT !.arg = e.name]]
    /\ UNCHANGED <<treeVars, containers, handle, sweep>>
-----------------------------------------------------------------------------
(* The sweep: the initial walk while ~started, then the periodic sweep.    *)

\* walk_tree starts at the root.
SweepTick ==
    /\ actor["sweeper"].pc = "tick"
    /\ sweep' = [sweep EXCEPT !.stack = {Root}, !.current = {}]
    /\ Goto("sweeper", "walk")
    /\ UNCHANGED <<treeVars, chan, containers, handle>>

\* One list_children of walk_tree.  A directory that is gone by now has no
\* children to list.
SweepList(d) ==
    /\ actor["sweeper"].pc = "walk"
    /\ d \in sweep.stack
    /\ sweep' = [sweep EXCEPT !.stack = (@ \ {d}) \cup Children(d),
                              !.current = @ \cup Children(d)]
    /\ UNCHANGED <<treeVars, chan, containers, handle, actor>>

\* The walk is complete; the registered names are read once.
SweepKnown ==
    /\ actor["sweeper"].pc = "walk"
    /\ sweep.stack = {}
    /\ sweep' = [sweep EXCEPT !.add = sweep.current \ Registered,
                              !.check = Registered \ sweep.current]
    /\ Goto("sweeper", "adding")
    /\ UNCHANGED <<treeVars, chan, containers, handle>>

SweepAdd(n) ==
    /\ actor["sweeper"].pc = "adding"
    /\ n \in sweep.add
    /\ sweep' = [sweep EXCEPT !.add = @ \ {n}]
    /\ actor' = [actor EXCEPT !["sweeper"].pc = "check", !["sweeper"].arg = n]
    /\ UNCHANGED <<treeVars, chan, containers, handle>>

\* Manager::start only adds; it then spawns the watcher and the tasks.
SweepAdded ==
    /\ actor["sweeper"].pc = "adding"
    /\ sweep.add = {}
    /\ sweep' = [sweep EXCEPT !.started = TRUE]
    /\ Goto("sweeper", IF sweep.started THEN "checking" ELSE "tick")
    /\ UNCHANGED <<treeVars, chan, containers, handle>>

\* Faulty variant of SweepCheck: the sweep adds and never removes.
SweepCheckKeeps(n) ==
    /\ actor["sweeper"].pc = "checking"
    /\ n \in sweep.check
    /\ sweep' = [sweep EXCEPT !.check = @ \ {n}]
    /\ UNCHANGED <<treeVars, chan, containers, handle, actor>>

\* A known name the walk did not find is removed unless its directory exists.
SweepCheck(n) ==
    /\ actor["sweeper"].pc = "checking"
    /\ n \in sweep.check
    /\ sweep' = [sweep EXCEPT !.check = @ \ {n}]
    /\ actor' = IF Exists(n) THEN actor
                ELSE [actor EXCEPT !["sweeper"].pc = "remove", !["sweeper"].arg = n]
    /\ UNCHANGED <<treeVars, chan, containers, handle>>

SweepDone ==
    /\ actor["sweeper"].pc = "checking"
    /\ sweep.check = {}
    /\ Goto("sweeper", "tick")
    /\ UNCHANGED <<treeVars, chan, containers, handle, sweep>>
-----------------------------------------------------------------------------
(* The housekeeping task of handle h: an iteration reads the cgroup files  *)
(* one by one, then sleeps.                                                *)

HousekeepingBegin(h) ==
    /\ handle[h].task = "ready"
    /\ handle' = [handle EXCEPT ![h].task =
                    IF Exists(handle[h].name) THEN "working" ELSE "blank"]
    /\ UNCHANGED <<treeVars, chan, containers, actor, sweep>>

\* A sample was read.  The files of a directory that is gone read as absent,
\* which is a sample too (read_opt), so a vanished cgroup does not end the task.
HousekeepingSleep(h) ==
    /\ handle[h].task \in {"working", "blank", "doomed"}
    /\ handle' = [handle EXCEPT ![h].task = IF @ = "doomed" THEN "gone" ELSE "ready"]
    /\ UNCHANGED <<treeVars, chan, containers, actor, sweep>>

\* Only a file already open when its cgroup is removed fails to read
\* (ENODEV); the task then finds the directory gone and returns.
HousekeepingReturn(h) ==
    /\ handle[h].task = "working"
    /\ ~Exists(handle[h].name)
    /\ handle' = [handle EXCEPT ![h].task = "gone"]
    /\ UNCHANGED <<treeVars, chan, containers, actor, sweep>>
-----------------------------------------------------------------------------
AddStep(a) ==
    \/ AddCheck(a) \/ AddSpec(a) \/ AddInsert(a)
    \/ AddRecord(a) \/ AddSpawn(a) \/ AddStore(a)
RemoveStep(a) == RemoveTake(a) \/ RemoveAbort(a) \/ RemoveRecord(a)
SweepStep ==
    \/ SweepTick \/ SweepKnown \/ SweepAdded \/ SweepDone
    \/ \E d \in Names \cup {Root} : SweepList(d)
    \/ \E n \in Names : SweepAdd(n) \/ SweepCheck(n)
Housekeeping(h) ==
    HousekeepingBegin(h) \/ HousekeepingSleep(h) \/ HousekeepingReturn(h)

\* What the manager does of its own accord.
ManagerStep ==
    \/ \E a \in Actors : AddStep(a) \/ AddMeta(a) \/ RemoveStep(a)
    \/ Receive
    \/ SweepStep
    \/ \E h \in Handles : Housekeeping(h)

Next ==
    \/ \E n \in Names : Create(n) \/ Destroy(n) \/ Rescan(n)
    \/ ManagerStep

Spec == Init /\ [][Next]_vars

\* Every task the runtime holds is polled again and again, ticks keep coming.
SchedulerFairness ==
    /\ \A a \in Actors : WF_vars(AddStep(a) \/ RemoveStep(a))
    /\ WF_vars(Receive)
    /\ WF_vars(SweepStep)
    /\ \A h \in Handles : WF_vars(Housekeeping(h))

\* The container runtime answers, or refuses, every inspect call.
RuntimeAnswers == \A a \in Actors : WF_vars(AddMeta(a))

FairSpec == Spec /\ SchedulerFairness /\ RuntimeAnswers
-----------------------------------------------------------------------------
(* Properties *)

\* Every variable keeps its type; in particular a handle is only ever built for
\* an incarnation that existed (add_container gives up when build_spec fails).
TypeOK ==
    /\ TreeTypeOK
    /\ chan \in Seq(Event)
    /\ containers \in [Names -> Handles \cup {NoHandle}]
    /\ handle \in [Handles -> Handle]
    /\ actor \in [Actors -> Actor]
    /\ sweep \in [started : BOOLEAN,
                  stack : SUBSET (Names \cup {Root}), current : SUBSET Names,
                  add : SUBSET Names, check : SUBSET Names]

\* Actor a is between the insertion of handle h and the end of add_container.
Inserting(a, h) == actor[a].hnd = h /\ actor[a].pc \in {"record", "spawn", "store"}
\* Actor a has taken h out of the map and has not yet looked for its task.
Removing(a, h) == actor[a].hnd = h /\ actor[a].pc = "abort"
\* ... or has not yet recorded the deletion.
Deleting(a, h) == actor[a].hnd = h /\ actor[a].pc \in {"abort", "delete"}

\* A registered handle is never replaced by another one without having been
\* removed first, although both tasks of Manager::start may be adding the same
\* name (add_container looks the name up again under the write lock).
HandleNeverReplaced ==
    [][\A n \in Registered : containers'[n] \in {containers[n], NoHandle}]_vars

\* A registered container has a housekeeping task unless its add_container is
\* still running, and nobody has aborted that task: the removal that takes a
\* handle out of the map is the only one that aborts its task, also when the
\* name is registered again at once (add_container, remove_container).
RegisteredIsMonitored ==
    \A n \in Registered :
        LET h == containers[n] IN
        /\ handle[h].name = n
        /\ handle[h].task # "doomed" /\ handle[h].slot # "taken"
        /\ \/ \E a \in Actors : Inserting(a, h)
           \/ handle[h].task # "none" /\ handle[h].slot = "held"

\* A task that still runs belongs to a registered container, or the add or the
\* remove of that container is under way; the one exception is a removal that
\* overtook the add and found no task to abort (remove_container between the
\* insertion and the last line of add_container).
UnownedOnlyWhenOvertaken ==
    \A h \in Handles :
        Live(h) => \/ InMap(h)
                   \/ \E a \in Actors : Inserting(a, h) \/ Removing(a, h)
                   \/ handle[h].overtaken

\* The deletions among the events of h.
Deletions(h) == {i \in DOMAIN handle[h].ev : handle[h].ev[i] = "Deletion"}

\* Every removal records exactly one deletion for the handle it removed, and
\* no handle in the map has one: the sweep and the consumer removing the same
\* name do not report it twice (remove_container).
OneDeletionPerRemoval ==
    \A h \in Handles :
        IF handle[h].name = Root \/ InMap(h) \/ (\E a \in Actors : Deleting(a, h))
        THEN Deletions(h) = {} ELSE \E i \in Deletions(h) : Deletions(h) = {i}

\* Once the hierarchy stops changing the registry holds exactly the cgroups
\* that exist and are not mount units, and keeps holding them, whatever the
\* watch missed and however the two tasks interleaved (the global sweep of
\* Manager::start as a safety net).
Converges == <>[](Registered = {n \in Names \ Mounts : Exists(n)})

\* Neither task is working and every watch event has been handled.
Settled ==
    /\ sweep.started /\ chan = <<>>
    /\ actor["consumer"].pc = "recv" /\ actor["sweeper"].pc = "tick"

\* "Each container has its own housekeeping loop" (README): when the manager is
\* settled, no two tasks that have not been told to stop sample one cgroup.
OneLoopPerContainer ==
    Settled => \A g, h \in Handles :
        Live(g) /\ Live(h) /\ handle[g].name = handle[h].name => g = h
=============================================================================
