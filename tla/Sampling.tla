------------------------------ MODULE Sampling ------------------------------
(***************************************************************************)
(* One container's samples, from the kernel's files to the store and what  *)
(* is derived from it: the disk-usage walk of the housekeeping loop        *)
(* (cadvisor-host/src/fs.rs dir_usage), Manager::sample with read_stats    *)
(* and fill_root_stats, file by file, and TimedStore::push.  The cgroup    *)
(* works, is removed and is made again, files come and go under the        *)
(* writable layer, and the wall clock steps, at any moment in between.     *)
(*                                                                         *)
(* The store is the one of TimedStore; data holds what the samples it      *)
(* numbers carry.  File systems are mounted and unmounted after the        *)
(* program has read the mount table.  The loop's interval, OOM events and  *)
(* errors are in Housekeeping, its block devices in DiskMap.               *)
(***************************************************************************)
EXTENDS TimedStore, CgroupFiles, Derived, Filesystems, FiniteSets, FiniteSetsExt

CONSTANTS
    Follow,     \* bound on the samples of each kind of container: "root", "raw"
                \* (another cgroup) and "runtime" (one with a writable layer)
    MemTotal,   \* of /proc/meminfo, in the unit of memory.current
    Inode,      \* the paths there may be under the writable layer, by number:
                \* device, number and blocks of the inode, whether a directory
    Parent,     \* path -> the directory it is in
    Mountinfo,  \* kind -> mount tables there may be at the start
    Mountable,  \* what may be mounted later
    Layer,      \* the path of the writable layer
    MaxEnv      \* bound on what happens outside the loop

Kinds == DOMAIN Follow

Nodes == DOMAIN Inode
Base == 1       \* the writable layer itself
Same(n, m) == Inode[n].dev = Inode[m].dev /\ Inode[n].ino = Inode[m].ino
OnDevice(n) == Inode[n].dev = Inode[Base].dev

ASSUME SamplingAssumption ==
    /\ MemTotal \in Nat /\ MaxEnv \in Nat
    /\ \A k \in Kinds : Follow[k] \in 0..MaxPushes

\* A directory has one path.
ASSUME TreeAssumption ==
    /\ Inode \in Seq([dev : Nat, ino : Nat, blocks : Nat, directory : BOOLEAN])
    /\ Inode # <<>> /\ Inode[Base].directory
    /\ Parent \in [Nodes -> Nodes] /\ Parent[Base] = Base
    /\ \A n \in Nodes : Inode[Parent[n]].directory
    /\ \A n, m \in Nodes :
          Same(n, m) => Inode[n] = Inode[m] /\ (Inode[n].directory => n = m)

\* A mountpoint: absolute, without a slash at its end.
Directory == {at \in Seq(STRING) : at # <<>> /\ at[1] = "/" /\ (Len(at) > 1 => at[Len(at)] # "/")}
MountLines == [at : Directory, type : STRING, source : Seq(STRING)]

\* The first mount is that of the root.
ASSUME MountsAssumption ==
    /\ Layer \in Seq(STRING) /\ Layer # <<>> /\ Layer[1] = "/"
    /\ \A k \in Kinds : \A table \in Mountinfo[k] :
          table \in Seq(MountLines) /\ table # <<>> /\ table[1].at = Names!Root
    /\ Mountable \subseteq MountLines

VARIABLES
    kind,       \* what container this is
    cgroup,     \* the cgroup and its files
    env,        \* number of things that happened outside
    work,       \* history: CPU time used by all incarnations of the cgroup
    tree,       \* the paths that exist
    touched,    \* history: the paths that came or went during the walk
    walk,       \* local variables of dir_usage
    fs_usage,   \* ContainerHandle::fs_usage, its bytes; {} before the walk
    mounts,     \* the kernel's mount table
    partitions, \* FsService::partitions
    remounted,  \* history: the mountpoints that changed since the start
    task,       \* position and the sample being read
    data        \* what the samples in the store carry, by number

storeVars == <<buf, pushed, count>>
walkVars == <<tree, touched, walk, fs_usage>>
fsVars == <<mounts, partitions, remounted>>
samplingVars == <<storeVars, kind, cgroup, env, work, walkVars, fsVars, task, data>>

\* The controllers of a cgroup may be off: it then has no memory files.
NewCgroup(memory) ==
    [exists |-> TRUE, usage |-> 0, memory |-> memory, current |-> 1, inactive |-> 1]
NoWalk == [bytes |-> 0, seen |-> {}, stack |-> <<>>, entries |-> {}]
Reading(pc, t) == [pc |-> pc, t |-> t, total |-> 0, current |-> {}, usage |-> 0,
                   working_set |-> 0, work |-> 0, fs |-> {}]

SamplingInit ==
    /\ Init
    /\ kind \in Kinds
    /\ cgroup = NewCgroup(TRUE)
    /\ env = 0 /\ work = 0
    /\ tree = Nodes /\ touched = {}
    /\ walk = NoWalk /\ fs_usage = {}
    /\ \E table \in Mountinfo[kind] : mounts = table /\ partitions = Partitions(table)
    /\ remounted = {}
    /\ task = Reading("top", 0)
    /\ data = <<>>
-----------------------------------------------------------------------------
(* Outside the loop.                                                       *)

Happens == env < MaxEnv /\ env' = env + 1 /\ UNCHANGED <<storeVars, kind, walk, fs_usage, partitions, task, data>>

Work ==
    /\ Happens /\ cgroup.exists
    /\ cgroup' = [cgroup EXCEPT !.usage = @ + 1]
    /\ work' = work + 1
    /\ UNCHANGED <<tree, touched, mounts, remounted>>

\* The file cache grows, and its inactive part with it, or is reclaimed.
Remember(n) ==
    /\ Happens /\ cgroup.exists /\ cgroup.memory /\ n # cgroup.current
    /\ cgroup' = [cgroup EXCEPT !.current = n, !.inactive = n]
    /\ UNCHANGED <<work, tree, touched, mounts, remounted>>

Vanish ==
    /\ Happens /\ cgroup.exists /\ kind # "root"
    /\ cgroup' = [cgroup EXCEPT !.exists = FALSE]
    /\ UNCHANGED <<work, tree, touched, mounts, remounted>>

Reappear(memory) ==
    /\ Happens /\ ~cgroup.exists
    /\ cgroup' = NewCgroup(memory)
    /\ UNCHANGED <<work, tree, touched, mounts, remounted>>

\* A path is unlinked, or made again, during the walk.
Unlink(n) ==
    /\ Happens /\ task.pc = "walk"
    /\ n \in tree \ {Base} /\ \A m \in tree : Parent[m] # n
    /\ tree' = tree \ {n} /\ touched' = touched \cup {n}
    /\ UNCHANGED <<cgroup, work, mounts, remounted>>

Create(n) ==
    /\ Happens /\ task.pc = "walk"
    /\ n \notin tree /\ Parent[n] \in tree
    /\ tree' = tree \cup {n} /\ touched' = touched \cup {n}
    /\ UNCHANGED <<cgroup, work, mounts, remounted>>

\* Mounts only matter to the step that looks at them.
MountsChange ==
    /\ Happens /\ task.pc = "rest" /\ kind # "raw"
    /\ UNCHANGED <<cgroup, work, tree, touched>>

Mount(line) ==
    /\ MountsChange
    /\ \A l \in Range(mounts) : l.at # line.at => ~Under(line.at, l.at)
    /\ mounts' = Append(mounts, line)
    /\ remounted' = remounted \cup {line.at}

\* Not the root, nor what has another mount on it or below it.
Unmount(i) ==
    LET at == mounts[i].at
    IN  /\ MountsChange
        /\ i > 1
        /\ \A j \in DOMAIN mounts : j = i \/ ~Under(at, mounts[j].at) \/ (mounts[j].at = at /\ j < i)
        /\ mounts' = RemoveAt(mounts, i)
        /\ remounted' = remounted \cup {at}
-----------------------------------------------------------------------------
(* The slow path of the first iteration: dir_usage of the writable layer.  *)
(* Those of later minutes are the same.                                    *)

Top ==
    /\ task.pc = "top"
    /\ IF kind = "runtime" /\ fs_usage = {}
       THEN /\ task' = [task EXCEPT !.pc = "walk"]
            /\ walk' = [NoWalk EXCEPT !.stack = <<Base>>]
       ELSE task' = [task EXCEPT !.pc = "begin"] /\ UNCHANGED walk
    /\ UNCHANGED <<storeVars, kind, cgroup, env, work, tree, touched, fs_usage, fsVars, data>>

Links(n) == Cardinality({m \in tree : Same(n, m)})

\* Faulty variant of PopDirectory: the walk enters other devices.
PopDirectoryAnywhere ==
    LET dir == Last(walk.stack)
        left == Front(walk.stack)
    IN  /\ task.pc = "walk" /\ walk.entries = {} /\ walk.stack # <<>>
        /\ walk' = IF dir \in tree
                   THEN [walk EXCEPT !.bytes = @ + Inode[dir].blocks, !.stack = left,
                                     !.entries = {n \in tree \ {Base} : Parent[n] = dir}]
                   ELSE [walk EXCEPT !.stack = left]
        /\ UNCHANGED <<storeVars, kind, cgroup, env, work, tree, touched, fs_usage, fsVars, task, data>>

\* A directory that is gone, or on another device, is left out.
PopDirectory ==
    LET dir == Last(walk.stack)
        left == Front(walk.stack)
    IN  /\ task.pc = "walk" /\ walk.entries = {} /\ walk.stack # <<>>
        /\ walk' = IF dir \in tree /\ OnDevice(dir)
                   THEN [walk EXCEPT !.bytes = @ + Inode[dir].blocks, !.stack = left,
                                     !.entries = {n \in tree \ {Base} : Parent[n] = dir}]
                   ELSE [walk EXCEPT !.stack = left]
        /\ UNCHANGED <<storeVars, kind, cgroup, env, work, tree, touched, fs_usage, fsVars, task, data>>

\* An entry: gone, a directory for later, a link that was seen, or a file.
VisitEntry(n) ==
    /\ task.pc = "walk" /\ n \in walk.entries
    /\ LET left == [walk EXCEPT !.entries = @ \ {n}]
       IN  walk' =
             IF n \notin tree THEN left
             ELSE IF Inode[n].directory THEN [left EXCEPT !.stack = Append(@, n)]
             ELSE IF Links(n) > 1 /\ Inode[n].ino \in walk.seen THEN left
             ELSE [left EXCEPT !.seen = @ \cup (IF Links(n) > 1 THEN {Inode[n].ino} ELSE {}),
                               !.bytes = @ + IF OnDevice(n) THEN Inode[n].blocks ELSE 0]
    /\ UNCHANGED <<storeVars, kind, cgroup, env, work, tree, touched, fs_usage, fsVars, task, data>>

WalkEnds ==
    /\ task.pc = "walk" /\ walk.entries = {} /\ walk.stack = <<>>
    /\ fs_usage' = {walk.bytes}
    /\ walk' = NoWalk
    /\ task' = [task EXCEPT !.pc = "begin"]
    /\ UNCHANGED <<storeVars, kind, cgroup, env, work, tree, touched, fsVars, data>>
-----------------------------------------------------------------------------
(* Manager::sample.                                                        *)

Line(key, n) == [key |-> key, value |-> <<n>>]

\* The files of the cgroup now; its root has no memory.current.
CpuStatFile ==
    IF cgroup.exists THEN {<<Line("usage_usec", cgroup.usage), Line("user_usec", cgroup.usage)>>} ELSE {}
MemoryCurrent ==
    IF cgroup.exists /\ cgroup.memory /\ kind # "root" THEN {cgroup.current} ELSE {}
MemoryStatFile ==
    IF cgroup.exists /\ cgroup.memory THEN {<<Line("anon", 0), Line("inactive_file", cgroup.inactive)>>}
    ELSE {}

Reads(pc) == task.pc = pc /\ UNCHANGED <<storeVars, kind, cgroup, env, work, walkVars, fsVars, data>>

\* The timestamp is taken before the files are read.
Begin(t) ==
    /\ Reads("begin")
    /\ count < Follow[kind]
    /\ task' = Reading("cpu", t)

ReadCpu ==
    /\ Reads("cpu")
    /\ task' = [task EXCEPT !.pc = "current", !.work = work,
                            !.total = FlatKeyed(OrElse(CpuStatFile, <<>>), "usage_usec")]

\* memory.current decides whether memory.stat is read.
ReadCurrent ==
    /\ Reads("current")
    /\ task' = [task EXCEPT !.current = MemoryCurrent, !.usage = OrElse(MemoryCurrent, 0),
                            !.pc = IF MemoryCurrent = {} THEN "rest" ELSE "stat"]

ReadStat ==
    /\ Reads("stat")
    /\ task' = [task EXCEPT !.pc = "rest", !.working_set =
                   IF MemoryStatFile = {} THEN task.usage
                   ELSE WorkingSet(task.usage, FlatKeyed(OrElse(MemoryStatFile, <<>>),
                                                         "inactive_file"))]

\* A file that was open when its cgroup went fails to read: no sample.
ReadFails ==
    /\ \E pc \in {"cpu", "current", "stat"} : Reads(pc)
    /\ ~cgroup.exists
    /\ task' = Reading("check", 0)

\* The loop ends, unless the cgroup has been made again.
CheckExists ==
    /\ Reads("check")
    /\ task' = Reading(IF cgroup.exists THEN "top" ELSE "returned", 0)

\* The partitions a sample tells about: all in the root's, the one of the
\* writable layer in a runtime container's.
Told ==
    CASE kind = "root" -> partitions
      [] kind = "runtime" -> PartitionForPath(partitions, Layer)
      [] OTHER -> {}

\* A row has the name of its partition, and the figures of what is mounted
\* there now; without the directory statvfs fails and there is no row.
FsRows(gone) ==
    {[device |-> p.device, at |-> p.at, figures |-> Statvfs(mounts, p.at)] :
        p \in {q \in Told : q.at \notin gone}}

\* Mountpoints that may have been removed after their file system went.
MayBeGone == {at \in remounted : \A m \in Range(mounts) : m.at # at}

\* The rest of sample: fill_root_stats takes the root's memory from
\* /proc/meminfo, whose MemFree is the root's current here; then the rows of
\* file systems.  Those of devices and interfaces are not told apart.
FillRest ==
    /\ Reads("rest")
    /\ \E gone \in SUBSET MayBeGone :
         LET used == MemTotal - cgroup.current
             done == [task EXCEPT !.pc = "push", !.fs = FsRows(gone)]
         IN  task' = IF kind = "root" /\ task.usage = 0 /\ MemTotal >= cgroup.current
                     THEN [done EXCEPT !.usage = used, !.working_set = used]
                     ELSE done

PushSample ==
    /\ task.pc = "push"
    /\ Push(task.t)
    /\ data' = Append(data, [total |-> task.total, usage |-> task.usage,
                             working_set |-> task.working_set, work |-> task.work])
    /\ task' = Reading("top", 0)
    /\ UNCHANGED <<kind, cgroup, env, work, walkVars, fsVars>>

LoopStep ==
    \/ Top \/ PopDirectory \/ WalkEnds \/ (\E n \in Nodes : VisitEntry(n))
    \/ (\E t \in Times : Begin(t)) \/ ReadCpu \/ ReadCurrent \/ ReadStat \/ ReadFails
    \/ CheckExists \/ FillRest \/ PushSample

SamplingNext ==
    \/ LoopStep
    \/ Work \/ Vanish
    \/ (\E n \in 0..MemTotal : Remember(n)) \/ (\E m \in BOOLEAN : Reappear(m))
    \/ (\E n \in Nodes : Unlink(n) \/ Create(n))
    \/ (\E line \in Mountable : Mount(line)) \/ (\E i \in DOMAIN mounts : Unmount(i))

SamplingSpec ==
    SamplingInit /\ [][SamplingNext]_samplingVars
-----------------------------------------------------------------------------
(* Properties                                                              *)

\* The samples in the store, oldest first, with what they carry.
Stored(i) == [t |-> buf[i].t, total |-> data[buf[i].id].total,
              working_set |-> data[buf[i].id].working_set]
Samples == [i \in DOMAIN buf |-> Stored(i)]

\* memory.current and memory.stat are two reads: the working set never
\* exceeds the usage beside it, although the cache may grow, or the cgroup be
\* replaced, in between (read_stats clamps at zero).
WorkingSetWithinUsage == \A i \in DOMAIN data : data[i].working_set <= data[i].usage

\* A rate of two samples read one after the other is of work done between the
\* two reads, although the counter restarts with a new cgroup and reads as 0
\* without one; whatever the clock did, it is never above what the counter
\* shows (inst_cpu).
RatesAreEarned ==
    \A i \in 1..(Len(buf) - 1) :
        LET last == data[buf[i].id]
            cur == data[buf[i + 1].id]
            elapsed == buf[i + 1].t - buf[i].t
        IN  \A r \in InstCpu(Stored(i), Stored(i + 1)) :
                /\ elapsed > 0 /\ r * elapsed <= cur.total * Scale
                /\ buf[i].id < buf[i + 1].id => r * elapsed <= (cur.work - last.work) * Scale

\* What a summary shows is in order and between the samples' own values, and
\* its latest memory is that of the newest sample (derived_stats,
\* percentiles_from).
SummaryIsOrdered ==
    LET d == DerivedStats(Samples)
        within(ps, values) ==
            \A p \in ps :
                /\ p.fifty <= p.ninety /\ p.ninety <= p.ninety_five /\ p.ninety_five <= p.max
                /\ {p.fifty, p.ninety, p.ninety_five, p.max} \subseteq values
                /\ \A v \in values : v <= p.max
                /\ p.mean <= p.max /\ \E v \in values : v <= p.mean
    IN  /\ within(d.memory, {Stored(i).working_set : i \in DOMAIN buf})
        /\ within(d.cpu, Range(CpuRates(Samples)))
        /\ buf # <<>> => d.latest.memory = Stored(Len(buf)).working_set

\* The figures of a sample and what is derived from samples fit together,
\* although each is of several reads at different moments.
FiguresFit == WorkingSetWithinUsage /\ RatesAreEarned /\ SummaryIsOrdered

\* The paths a walk that crosses no device comes to.
Grown(S) == Base \in S /\ \A n \in Nodes : Parent[n] \in S /\ OnDevice(n) => n \in S
Inside == {n \in Nodes : \A S \in SUBSET Nodes : Grown(S) => n \in S}

\* Files inside that are mounted there from another device.
Foreign == {n \in Nodes : Parent[n] \in Inside /\ ~Inode[n].directory /\ ~OnDevice(n)}

Blocks(paths) == Total([n \in Nodes |-> IF n \in paths THEN Inode[n].blocks ELSE 0])

\* One path of every inode.
OneEach(paths) == {(CHOOSE m \in {p \in paths : Same(p, n)} : TRUE) : n \in paths}

\* The walk counts every inode on the device once, hard links included, and
\* nothing beyond a mount (dir_usage).  What came or went in the meantime may
\* be counted or not, and a file that lost or gained a link once for every
\* path; so may a file whose number a mounted one has, as numbers are compared
\* before devices.
UsageIsOfTheTree ==
    \A bytes \in fs_usage :
        LET unsteady == {n \in Inside :
                            \/ \E m \in touched : Same(n, m)
                            \/ ~Inode[n].directory /\ \E m \in Foreign : Inode[m].ino = Inode[n].ino}
            steady == OneEach(Inside \ unsteady)
        IN  Blocks(steady) <= bytes /\ bytes <= Blocks(steady) + Blocks(unsteady)

\* Mountpoints nothing has changed at since the start, with one mount.
Settled(at) ==
    at \notin remounted /\ Cardinality({i \in DOMAIN mounts : mounts[i].at = at}) = 1

\* Every supported file system has one row in a sample of the root, and a row
\* with a device's name has that device's figures, although the mount table is
\* read once and mounts come and go (from_mountinfo, fill_root_stats).  It is
\* otherwise only where a mountpoint has changed since or has two mounts; when
\* that is the first mount of a device, its other mounts do not help.
RootTellsFilesystems ==
    task.pc = "push" /\ kind = "root" =>
        /\ \A m \in Range(mounts) :
              /\ m.type \in SupportedFs /\ Settled(m.at)
              /\ \A p \in partitions : p.device = DeviceOf(m) => Settled(p.at)
              => Cardinality({r \in task.fs : r.device = DeviceOf(m)}) = 1
        /\ \A r \in task.fs : Settled(r.at) => r.figures = r.device

\* The row of a runtime container is about the device its writable layer is
\* on, whatever is mounted elsewhere, when no mount above the layer changed
\* since the start, the layer's is the first of its device, and the device is
\* not mounted there again over another one (partition_for_path).
LayerIsOnItsDevice ==
    task.pc = "push" /\ kind = "runtime" =>
        LET m == MountOf(mounts, Layer)
        IN  /\ \A at \in remounted : ~Under(at, Layer)
            /\ \E p \in partitions : p.device = DeviceOf(m) /\ p.at = m.at
            /\ Cardinality({i \in DOMAIN mounts :
                               mounts[i].at = m.at /\ DeviceOf(mounts[i]) = DeviceOf(m)}) = 1
            => \A r \in task.fs : r.device = DeviceOf(m) /\ r.figures = DeviceOf(m)

\* The file systems a sample tells about, in the root's and in others.
RowsAreOfTheirDevices == RootTellsFilesystems /\ LayerIsOnItsDevice
=============================================================================
