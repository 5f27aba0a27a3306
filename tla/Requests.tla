------------------------------ MODULE Requests ------------------------------
(***************************************************************************)
(* One request of the REST API or one scrape of /metrics, while the rest   *)
(* of the program runs: the reads of cadvisor-manager/src/manager.rs       *)
(* (container_info, subcontainers_info, docker_containers, container_pids) *)
(* and the handlers of cadvisor-api/src/v2.rs and                          *)
(* cadvisor-metrics/src/collect.rs that make them.                         *)
(*                                                                         *)
(* A request takes no lock for longer than one read: it looks its          *)
(* container up, takes a list of handles, and reads each handle's store    *)
(* and spec and the list of children one after the other.  Containers come *)
(* and go, are sampled and have their limits re-read in between.  Requests *)
(* do not change anything, so one at a time is enough.                     *)
(*                                                                         *)
(* A container is named here by the segments of its path.  A handle is a   *)
(* path and a generation, since a container removed and added again is     *)
(* another handle.  A sample is its number in its handle's store; image,   *)
(* labels and reference of a handle never change (Meta).                   *)
(***************************************************************************)
EXTENDS ContainerNames, Exposition, FiniteSets

CONSTANTS
    Chars,        \* the characters of names, "/" one of them
    Paths,        \* the cgroups, by the segments of their paths, the root too
    Present,      \* the sets of containers there may be when it comes
    Asked,        \* the requests that may come
    Meta,         \* path -> runtime metadata: namespace, id, aliases, labels, ...
    Opts,         \* label options of the scrape
    SampleAt(_, _), \* what the n-th sample of a container holds
    Specs,        \* the limits a spec may have
    Given,        \* path -> those a container has when it is added
    Pids,         \* the processes of the container asked about by ps
    Devices,      \* block devices by number
    MaxGen,       \* bound on the generations of a container
    MaxSamples,   \* bound on the samples of a handle
    MaxChanges    \* bound on the changes during a request

\* What is between the slashes of a name or a request; a directory has a name.
Segment == Seq(Chars \ {"/"})
Path == Seq(Segment \ {<<>>})

\* The cgroups are a tree, and the root is a container from the start on.
ASSUME PathsAssumption ==
    /\ "/" \in Chars
    /\ Paths \subseteq Path /\ <<>> \in Paths
    /\ \A p \in Paths : \A k \in 0..Len(p) : SubSeq(p, 1, k) \in Paths
    /\ \A S \in Present : <<>> \in S /\ S \subseteq Paths

\* dispatch splits what a request asks for at its slashes.
ASSUME AskedAssumption ==
    \A r \in Asked : r.args \in Seq(Segment) /\ r.recursive \in BOOLEAN /\ r.count \in Int

ASSUME SpecsAssumption ==
    /\ Specs \subseteq [has_cpu : BOOLEAN, has_memory : BOOLEAN, quota : Nat]
    /\ Given \in [Paths -> Specs]

\* A sample's lists, of processors, file systems, devices with the operations
\* they have counted, and interfaces.
ASSUME SamplesAssumption ==
    \A p \in Paths : \A n \in 1..MaxSamples :
        LET s == SampleAt(p, n)
        IN  /\ s.per_cpu \in Seq(Nat) /\ s.fs \in Seq(Range(s.fs)) /\ s.net \in Seq(Range(s.net))
            /\ s.io \in Seq(Range(s.io)) /\ s.serviced \in Seq(Range(s.serviced))
            /\ \A e \in Range(s.io) : IsFiniteSet(e.ops)

ASSUME BoundsAssumption == MaxGen \in Nat \ {0} /\ MaxSamples \in Nat \ {0} /\ MaxChanges \in Nat

VARIABLES
    containers,   \* Manager::containers: path -> generation, 0 for none
    spec,         \* path -> generation -> the handle's spec
    samples,      \* path -> generation -> how many samples its store has
    disks,        \* the devices named in MachineInfo::disk_map
    alive,        \* the processes that have not exited
    changes,      \* changes so far
    req,          \* the request, as it came
    task,         \* its position and local variables
    was           \* history: what was there since the request came; limits: those of
                  \* the first handle of a path, in order

env == <<containers, spec, samples, disks, alive, changes>>
vars == <<containers, spec, samples, disks, alive, changes, req, task, was>>

Handles == [path : Paths, gen : 1..MaxGen]
Registered == {p \in Paths : containers[p] > 0}
HandleOf(p) == [path |-> p, gen |-> containers[p]]
SpecOf(h) == spec[h.path][h.gen]
SamplesOf(h) == samples[h.path][h.gen]

Kind == Route(req)
Lists == {"listing", "unknown", "machine", "version", "attributes", "storage", "appmetrics"}
Resolved == {"stats20", "stats21", "spec", "summary"}
ByMetadata == Kind = "docker" \/ (Kind \in Resolved /\ req.id_type # "name")
Recursive == Kind = "subcontainers" \/ (Kind \in Resolved /\ req.recursive)

\* The container a request names; machinestats reads the root.
Target == IF Kind = "machinestats" THEN Root ELSE ContainerName(req.args)

NoEntry == [path |-> <<>>, spec1 |-> <<>>, spec |-> <<>>, stats |-> {},
            children |-> {}, latest |-> <<>>, disks |-> {}]

\* listed: what ps and events answer; missed (history): the processes of which
\* ps could read nothing.  todo: handles to read; k: how many of its reads the current one has had;
\* entry: what they gave; out: the finished ones, in order.
Task(pc) == [pc |-> pc, status |-> 200, todo |-> {}, k |-> 0, cur |-> [path |-> <<>>, gen |-> 1],
             entry |-> NoEntry, out |-> <<>>, listed |-> {}, missed |-> {}]

Init ==
    /\ \E S \in Present : containers = [p \in Paths |-> IF p \in S THEN 1 ELSE 0]
    /\ spec = [p \in Paths |-> [g \in 1..MaxGen |-> Given[p]]]
    /\ samples = [p \in Paths |-> [g \in 1..MaxGen |-> IF g = 1 THEN MaxSamples - 1 ELSE 0]]
    /\ disks = {}
    /\ alive = Pids
    /\ changes = 0
    /\ req \in Asked
    /\ task = Task("arrive")
    /\ was = [always |-> Registered, ever |-> Registered, samples |-> samples,
              limits |-> [p \in Paths |-> <<Given[p]>>]]
-----------------------------------------------------------------------------
(* The rest of the program, as the registry, the housekeeping loops and    *)
(* the disk map change what a request reads.                               *)

Change ==
    /\ changes < MaxChanges /\ task.pc \notin {"arrive", "done"}
    /\ changes' = changes + 1
    /\ UNCHANGED <<req, task>>

AddContainer(p) ==
    /\ Change
    /\ containers[p] = 0
    /\ \E g \in 1..MaxGen : samples[p][g] = 0 /\ containers' = [containers EXCEPT ![p] = g]
    /\ was' = [was EXCEPT !.ever = @ \cup {p}]
    /\ UNCHANGED <<spec, samples, disks, alive>>

\* Never the root (see Registry).
RemoveContainer(p) ==
    /\ Change
    /\ p # <<>> /\ containers[p] > 0
    /\ containers' = [containers EXCEPT ![p] = 0]
    /\ was' = [was EXCEPT !.always = @ \ {p}]
    /\ UNCHANGED <<spec, samples, disks, alive>>

Sample(p) ==
    /\ Change
    /\ containers[p] > 0 /\ samples[p][containers[p]] < MaxSamples
    /\ samples' = [samples EXCEPT ![p][containers[p]] = @ + 1]
    /\ UNCHANGED <<containers, spec, disks, alive, was>>

\* The slow path of housekeeping re-reads the limits.
Refresh(p, x) ==
    /\ Change
    /\ p # <<>> /\ containers[p] > 0 /\ x # spec[p][containers[p]]
    /\ spec' = [spec EXCEPT ![p][containers[p]] = x]
    /\ was' = IF containers[p] = 1 THEN [was EXCEPT !.limits[p] = Append(@, x)] ELSE was
    /\ UNCHANGED <<containers, samples, disks, alive>>

NameDisk(d) ==
    /\ Change
    /\ Kind = "metrics" /\ d \notin disks
    /\ disks' = disks \cup {d}
    /\ UNCHANGED <<containers, spec, samples, alive, was>>

Exit(pid) ==
    /\ Change
    /\ Kind = "ps" /\ pid \in alive
    /\ alive' = alive \ {pid}
    /\ UNCHANGED <<containers, spec, samples, disks, was>>
-----------------------------------------------------------------------------
(* The request.                                                            *)

Reply(status) == task' = [task EXCEPT !.pc = "done", !.status = status]

\* Where a handler begins.  Some requests look nothing up; the history of
\* events (one of each container here) is read under one lock.
Arrive ==
    /\ task.pc = "arrive"
    /\ CASE Kind = "listing" -> Reply(400)
         [] Kind = "unknown" -> Reply(500)
         [] Kind \in Lists \ {"listing", "unknown"} -> Reply(200)
         [] Kind = "events" ->
               task' = [task EXCEPT !.pc = "done", !.listed =
                           {p \in Paths : EventInScope(Name(p), Target, req.recursive)}]
         [] OTHER ->
               task' = [task EXCEPT !.pc =
                           IF Kind = "metrics" \/ ByMetadata THEN "collect" ELSE "look"]
    /\ UNCHANGED <<env, req, was>>

\* The containers an answer has; the v2.1 stats leave the root to machinestats.
Listed(p) ==
    /\ Kind = "stats21" => p # <<>>
    /\ CASE Kind = "metrics" -> TRUE
         [] ByMetadata -> Named(Meta[p], TrimStart(Target))
         [] OTHER -> InSubtree(Name(p), Target)

\* Manager::handle.  ps answers with an empty list where others fail.
Look ==
    LET found == {p \in Registered : Name(p) = Target}
    IN  /\ task.pc = "look"
        /\ \/ found = {} /\ Reply(IF Kind = "ps" THEN 200 ELSE 500)
           \/ /\ found # {}
              /\ task' = [task EXCEPT !.pc = CASE Recursive -> "collect"
                                               [] Kind = "ps" -> "procs"
                                               [] OTHER -> "read",
                                      !.todo = {HandleOf(p) : p \in {q \in found : Listed(q)}}]
        /\ UNCHANGED <<env, req, was>>

\* Faulty variant of Collect: a subtree without containers is an error, too.
CollectStrict ==
    LET listed == {p \in Registered : Listed(p)}
    IN  /\ task.pc = "collect"
        /\ IF listed = {}
           THEN Reply(500)
           ELSE task' = [task EXCEPT !.pc = "read", !.todo = {HandleOf(p) : p \in listed}]
        /\ UNCHANGED <<env, req, was>>

\* Manager::handles, filtered; an id that no container has is an error.
Collect ==
    LET listed == {p \in Registered : Listed(p)}
    IN  /\ task.pc = "collect"
        /\ IF ByMetadata /\ TrimStart(Target) # <<>>
                /\ \A p \in Registered : ~Named(Meta[p], TrimStart(Target))
           THEN Reply(500)
           ELSE task' = [task EXCEPT !.pc = "read", !.todo = {HandleOf(p) : p \in listed}]
        /\ UNCHANGED <<env, req, was>>
-----------------------------------------------------------------------------
(* The reads of a handle, one lock each.                                   *)

\* What each handler reads, in order: assemble_info; the loops of handle_v2,
\* where spec1 decides what of a sample is shown; render.
Program(kind) ==
    CASE kind \in {"containers", "subcontainers"} -> <<"stats", "children", "spec">>
      [] kind = "docker" -> <<"stats", "spec">>
      [] kind = "stats21" -> <<"spec1", "spec", "stats">>
      [] kind \in {"stats20", "machinestats"} -> <<"spec1", "stats">>
      [] kind = "spec" -> <<"spec">>
      [] kind = "summary" -> <<"stats">>
      [] kind = "metrics" -> <<"spec", "latest", "disks">>

Limit == CASE Kind = "machinestats" -> 10 [] Kind = "summary" -> -1 [] OTHER -> req.count

\* TimedStore::in_range without bounds in time (see TimedStore).
InRange(n, max) == IF max >= 0 /\ n > max THEN (n - max + 1)..n ELSE 1..n

\* Faulty variant of V2Stats: it goes by the handle's spec, not by the clone it
\* is given.
V2StatsFresh(h, spec1) ==
    {[sample |-> n, memory |-> SpecOf(h).has_memory] : n \in InRange(SamplesOf(h), Limit)}

\* v2_stats and deprecated_stats: a part of a sample is shown when spec1 has
\* it, and the older form says so.
V2Stats(h, spec1) ==
    {[sample |-> n, memory |-> spec1.has_memory] : n \in InRange(SamplesOf(h), Limit)}

\* v2_spec drops the quota, the period and the limit of processes.
V2Spec(s) == [s EXCEPT !.quota = 0]

ReadOf(what, h, e) ==
    CASE what = "stats" ->
            [e EXCEPT !.stats = IF e.spec1 = <<>>
                                THEN {[sample |-> n, memory |-> TRUE] :
                                         n \in InRange(SamplesOf(h), Limit)}
                                ELSE V2Stats(h, e.spec1[1])]
      [] what = "children" ->
            [e EXCEPT !.children = {p \in Registered : DirectChild(Name(p), Name(h.path))}]
      [] what = "spec1" -> [e EXCEPT !.spec1 = <<SpecOf(h)>>]
      [] what = "spec" ->
            [e EXCEPT !.spec = <<IF Kind \in {"stats21", "spec"} THEN V2Spec(SpecOf(h))
                                 ELSE SpecOf(h)>>]
      [] what = "latest" ->
            [e EXCEPT !.latest = IF SamplesOf(h) = 0 THEN <<>>
                                 ELSE <<SampleAt(h.path, SamplesOf(h))>>]
      [] what = "disks" -> [e EXCEPT !.disks = disks]

\* The next read, of the current handle or of any handle left: the map of
\* containers has no order, and sorting does not change what is read.
Read ==
    /\ task.pc = "read"
    /\ \E h \in IF task.k > 0 THEN {task.cur} ELSE task.todo :
         LET program == Program(Kind)
             e == ReadOf(program[task.k + 1], h,
                         IF task.k > 0 THEN task.entry ELSE [NoEntry EXCEPT !.path = h.path])
         IN  task' = IF task.k + 1 < Len(program)
                     THEN [task EXCEPT !.cur = h, !.k = @ + 1, !.entry = e]
                     ELSE [task EXCEPT !.todo = @ \ {h}, !.k = 0, !.entry = NoEntry,
                                       !.cur = HandleOf(<<>>), !.out = Append(@, e)]
    /\ UNCHANGED <<env, req, was>>

Finish ==
    /\ task.pc = "read" /\ task.todo = {}
    /\ Reply(200)
    /\ UNCHANGED <<env, req, was>>

\* container_pids is none, and the answer an empty list, whenever cgroup.procs
\* cannot be read; that of a container just removed is read as empty, or not.
ReadProcs ==
    /\ task.pc = "procs"
    /\ \/ task' = [task EXCEPT !.pc = "pids", !.todo = alive]
       \/ task' = [task EXCEPT !.pc = "done", !.missed = alive]
    /\ UNCHANGED <<env, req, was>>

\* The loop of process_list leaves out a process whose /proc/<pid>/stat is gone,
\* cannot be read or is short.
ReadPid ==
    /\ task.pc = "pids"
    /\ \/ \E pid \in task.todo :
             \/ task' = [task EXCEPT !.todo = @ \ {pid}, !.listed = @ \cup ({pid} \cap alive)]
             \/ task' = [task EXCEPT !.todo = @ \ {pid}, !.missed = @ \cup {pid}]
       \/ task.todo = {} /\ Reply(200)
    /\ UNCHANGED <<env, req, was>>

Step == Arrive \/ Look \/ Collect \/ Read \/ Finish \/ ReadProcs \/ ReadPid

Next ==
    \/ Step
    \/ \E p \in Paths : AddContainer(p) \/ RemoveContainer(p) \/ Sample(p) \/ \E x \in Specs : Refresh(p, x)
    \/ \E d \in Devices : NameDisk(d)
    \/ \E pid \in Pids : Exit(pid)

Spec == Init /\ [][Next]_vars
-----------------------------------------------------------------------------
(* Properties.  Names are compared here by their segments, not as strings. *)

Done(status) == task.pc = "done" /\ task.status = status
Answered == {task.out[i].path : i \in DOMAIN task.out}

\* The path that args spell, trailing slashes aside.
Spells(args, p) ==
    /\ Len(p) <= Len(args) /\ SubSeq(args, 1, Len(p)) = p
    /\ \A i \in (Len(p) + 1)..Len(args) : args[i] = <<>>

Below(p, q) == Len(q) <= Len(p) /\ SubSeq(p, 1, Len(q)) = q

\* The containers a request is about.
About(p) ==
    CASE Kind = "metrics" -> TRUE
      [] Kind = "machinestats" -> p = <<>>
      [] ByMetadata -> Meta[p].namespace # "" /\ Named(Meta[p], TrimStart(Target))
      [] Recursive /\ ~ByMetadata -> \E q \in Paths : Spells(req.args, q) /\ Below(p, q)
      [] OTHER -> Spells(req.args, p)

\* An answer has every container it is about that was registered all the time,
\* whatever came and went between the look-up, the list and the reads, and
\* none that was not registered at some time, each once; the v2.1 stats leave out the
\* root (subcontainers_info, resolve, docker_containers, render).
ContainersAreAnswered ==
    Done(200) /\ Kind \notin Lists \cup {"ps", "events"} =>
        LET about == {p \in Paths : About(p) /\ (Kind = "stats21" => p # <<>>)}
        IN  /\ was.always \cap about \subseteq Answered
            /\ Answered \subseteq was.ever \cap about
            /\ Cardinality(Answered) = Len(task.out)

\* The containers one of which a request must find.
Sought(p) == IF Recursive /\ ~ByMetadata THEN Spells(req.args, p) ELSE About(p)

\* "A lookup failure is a plain-text 500": no container that was registered
\* all the time is reported as unknown, in whatever form a request names it.
FailureIsGenuine ==
    Done(500) /\ Kind # "unknown" => \A p \in was.always : ~Sought(p)

\* The subcontainers of an entry are children of it, and all of those that
\* stayed (direct_children tells them by a prefix of their names).
ChildrenAreDirect ==
    Kind \in {"containers", "subcontainers"} =>
        \A i \in DOMAIN task.out :
            LET e == task.out[i]
                children == {p \in Paths : Len(p) = Len(e.path) + 1 /\ Below(p, e.path)}
            IN  /\ was.always \cap children \subseteq e.children
                /\ e.children \subseteq was.ever \cap children

\* The samples of an answer are the latest: the newest one there was when the
\* request came, or a newer one, is among them (in_range trims the old side).
NewestIsAnswered ==
    \A i \in DOMAIN task.out :
        LET e == task.out[i]
            newest == was.samples[e.path][1]
        IN  /\ "stats" \in Range(Program(Kind)) /\ e.path \in was.always
            /\ Limit # 0 /\ newest > 0
            => \E s \in e.stats : s.sample >= newest

\* In a v2 answer all samples of a container show what its limits at one
\* moment of the request say that it has, and the spec beside them is that of
\* the same moment or a later one, never an older one, although the limits are
\* re-read meanwhile and the handler reads them twice (spec1, v2_spec).
SpecDescribesStats ==
    Kind \in {"stats20", "stats21", "machinestats"} =>
        \A n \in DOMAIN task.out :
            LET e == task.out[n]
                limits == was.limits[e.path]
            IN  e.path \in was.always =>
                  \E i \in DOMAIN limits :
                      /\ \A s \in e.stats : s.memory = limits[i].has_memory
                      /\ Kind = "stats21" =>
                            \E j \in i..Len(limits) : e.spec = <<V2Spec(limits[j])>>

\* The history of a subtree is that of the container and of all below it, for
\* the root too, and no event of a container that only shares letters.
EventsOfSubtree ==
    Done(200) /\ Kind = "events" =>
        task.listed = {p \in Paths : \E q \in Paths : Spells(req.args, q)
                          /\ (p = q \/ (req.recursive /\ Below(p, q)))}

\* ps lists every process that lives on and that it could read, whichever others
\* exit meanwhile.  It does not tell of those it could not: where cgroup.procs
\* fails all of them are missing, and otherwise each on its own.
LivingAreListed ==
    Done(200) /\ Kind = "ps" /\ (\E p \in was.always : About(p)) =>
        alive \subseteq task.listed \cup task.missed

\* An answer tells what it was asked for, of all that was there throughout and
\* of nothing else, in each of its parts.
AnswerIsComplete ==
    ContainersAreAnswered /\ ChildrenAreDirect /\ NewestIsAnswered /\ EventsOfSubtree /\ LivingAreListed

\* What a scrape serves.
Union == UNION {DOMAIN OwnLabels(Name(task.out[i].path), Meta[task.out[i].path], Opts) :
                   i \in DOMAIN task.out}
Scraped ==
    [i \in DOMAIN task.out |->
        LET e == task.out[i] IN
        [labels |-> Unioned(OwnLabels(Name(e.path), Meta[e.path], Opts), Union),
         spec |-> e.spec[1], latest |-> e.latest, disks |-> e.disks]]
Scrape == Done(200) /\ Kind = "metrics"

\* "A series is never repeated", and the first one pushed is served: two
\* unnamed devices, a device that is also a file system's, a disk map that
\* changes between two containers.
SeriesServedOnce ==
    Scrape => LET scraped == Scraped IN
        \A class \in Classes :
            LET pushed == Pushed(scraped, class)
                served == Rendered(pushed)
            IN  /\ \A i, j \in DOMAIN served : served[i].labels = served[j].labels => i = j
                /\ \A i \in DOMAIN pushed :
                      (\A j \in 1..(i - 1) : pushed[j].labels # pushed[i].labels)
                         => pushed[i] \in Range(served)

\* All series of a family have the same label names, which client libraries
\* require, however different the containers' own labels are.
SameLabelNames ==
    Scrape => LET scraped == Scraped IN
        \A class \in Classes :
            LET served == Rendered(Pushed(scraped, class)) IN
            \A i, j \in DOMAIN served : DOMAIN served[i].labels = DOMAIN served[j].labels

\* What a client library requires of an exposition.
ExpositionIsValid == SeriesServedOnce /\ SameLabelNames

\* The group that gates a family: family_group's, except that the families of
\* a container's limits, of which family_group says that they have none, come
\* and go with "cpu" and "memory".
Gate(f) == CASE f \in SpecCpu -> "cpu" [] f \in SpecMemory -> "memory" [] OTHER -> FamilyGroup(f)

\* What a scrape has for a class, devices aside.
HasSeries(class) ==
    \/ class \in {Version, ScrapeErrors, Machine, Nvm}
    \/ \E i \in DOMAIN task.out :
          LET e == task.out[i] IN
          \/ class = Seen
          \/ class = SpecCpu /\ e.spec[1].has_cpu
          \/ class = SpecMemory /\ e.spec[1].has_memory
          \/ class \in {CpuTimes, Load, TaskStates, Memory, MemoryFailures, Oom} /\ e.latest # <<>>

\* No family of a disabled group is served, and none of another is lost while
\* there is anything to tell of it; what belongs to no group is always served
\* (the gates of render).
GroupsAreGated ==
    Scrape => LET scraped == Scraped IN
        \A class \in Classes :
            LET served == Rendered(Pushed(scraped, class)) IN
            \A f \in class :
                IF Gate(f) \in Disabled THEN served = <<>> ELSE HasSeries(class) => served # <<>>

\* "(name, kind, help) for every family this exporter can emit": a family that
\* render pushes is one that Output::render serves.
PushedIsServed ==
    Scrape => \A class \in {Quota, Cfs} : Pushed(Scraped, class) = <<>>

=============================================================================
