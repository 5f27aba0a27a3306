# A TLA+ verification project for cadvisor (Rust)

cadvisor watches the cgroup-v2 hierarchy of a host, keeps one *container* per
cgroup with a loop that samples it, and serves the samples over REST and
Prometheus. Nothing is written to disk. What is hard about it is not the numbers
but the time: cgroups come and go while several tasks look at them, inotify
loses and repeats events, files are replaced while they are read, clients read
slower than events arrive. This directory models those parts, checks them with
TLC and proves the central facts with TLAPS.

Paths below are relative to `src/crates/`.

## The system

| Component | State | Operations | Interaction |
|---|---|---|---|
| Registry (`cadvisor-manager/src/manager.rs`) | `containers`: name → `ContainerHandle` (spec, store, task) | `start`, `walk_tree`, `add_container`, `remove_container` | the *consumer* task takes events of the watch, the *sweep* task walks the tree; both add and remove |
| Cgroup watch (`cadvisor-host/src/watch.rs`) | inotify watches, table descriptor → path | `watch_dir`, `run` | own thread; sends `Added`/`Removed` through a channel |
| Runtime metadata (`manager.rs`, `cadvisor-runtime`) | the cached containerd client | `runtime_meta`, `containerd`, `inspect`, `extract_container_id` | awaited in `add_container` |
| Housekeeping loop (`manager.rs`, `cadvisor-host/src/cgroup.rs`, `fs.rs`) | previous sample, interval, slow-path clock, `fs_usage` | `housekeeping`, `sample`, `fill_root_stats`, `read_stats`, `read_spec`, `dir_usage` | one task per container, aborted by `remove_container` |
| File systems (`cadvisor-host/src/fs.rs`) | `partitions`, read at the start | `from_mountinfo`, `partition_for_path`, `usage` | read by every sample of the root and of runtime containers |
| Sample store (`cadvisor-manager/src/store.rs`) | deque of samples | `push`, `two_latest`, `in_range` | written by the loop, read by requests |
| Events (`manager.rs`, `cadvisor-api/src/v1.rs`) | history vector, broadcast channel | `record_event`, `events`, `handle_events` | recorded by every task, queried or streamed by requests |
| Disk map (`manager.rs`, `cadvisor-host/src/machine.rs`) | `disk_map`, `disk_misses` | `note_disks`, `refresh_machine_info`, `disk_map_at` | every sample of every loop, and the periodic refresh |
| Watched files (`cadvisor/src/secure.rs`) | value, stamp, time of the last check | `Watched::new`, `Watched::get` | every TLS handshake and every request with tokens |
| Server (`cadvisor/src/main.rs`, `secure.rs`) | listener, one task per connection | start-up, `serve_tls`, `require_bearer`, shutdown | around every handler |
| REST API and container info (`cadvisor-api`, `manager.rs`, `derive.rs`) | none of their own | routes, handlers, `container_info` and its siblings, derived stats | read the registry, the stores and the history |
| Prometheus metrics (`cadvisor-metrics`) | none of its own | `render` | reads every handle, then serves families |
| Wire types, parsers, flags | none | | |

What makes each correct:

* **Registry**: it converges to the cgroups that exist; no handle is replaced;
  every registered container has its own running loop; a loop that runs belongs
  to someone; one deletion is recorded per removal.
* **Watch**: no directory is left unwatched and no cgroup unreported, unless the
  kernel lost something or a directory went below a parent that was not watched.
* **Runtime metadata**: what the runtime knows is found, races are waited for as
  long as promised, and one runtime that hangs does not hold up the other.
* **Housekeeping**: OOM kills are reported once and not made up; the interval
  follows its law; changed limits arrive in the spec.
* **Samples**: figures of files read one after the other fit together; rates are
  of work that was done; disk usage and file-system rows are of the right things.
* **Store**: order, exact window, exact selection.
* **Events**: the history is the latest events in order; a stream has no gap.
* **Disk map**: it follows the devices; unknown devices cost one scan each.
* **Watched files**: a change is never hidden, never undone and eventually used.
* **Server**: nothing but health without a token, nobody held up by somebody
  else, a shutdown that ends.
* **API and metrics**: an answer is about the containers the request named, all
  of them that stayed and none that was not there; series are unique and uniform.

`PROJECT.json` lists, under `hazards`, the places in the code where each of these
could go wrong, with the properties that watch them.

## Modules

| Module | Models | Notes |
|---|---|---|
| `CgroupTree` | the hierarchy (external) | a directory has an *incarnation*; re-creation gives a new one |
| `Registry`, `MCRegistry` | registry and tasks | one step per lock section, file read or await |
| `RegistryProofs` | | theorems about `Registry` |
| `CgroupWatch`, `MCCgroupWatch` | `CgroupWatcher` and inotify | the recursion of `watch_dir` is a set of directories to do |
| `CgroupWatchProofs` | | theorems about `CgroupWatch` |
| `RuntimeMeta`, `MCRuntimeMeta` | `runtime_meta` and its two clients | one step per await; a basename is a sequence of tokens |
| `RuntimeMetaProofs` | | theorems about `RuntimeMeta` |
| `CgroupFiles` | flat-keyed files, limits, `read_spec` | operators; a file that may be missing is a set of at most one content |
| `Housekeeping`, `MCHousekeeping` | one loop and its cgroup | a sample is its activity and its `oom_kill` count |
| `HousekeepingProofs` | | theorems about `Housekeeping` and `DiskMap` |
| `TimedStore` | the sample buffer | a sample is timestamp and arrival number |
| `Derived` | `inst_cpu`, `derived_stats`, `percentiles_from` | operators |
| `Filesystems` | mount table, partitions, `statvfs` | operators; a path is a sequence of characters |
| `Sampling`, `MCSampling` | the way of a sample | extends `TimedStore`, `CgroupFiles`, `Derived`, `Filesystems` |
| `SamplingProofs` | | theorems about `TimedStore` and `Sampling`, that the second implements the first among them |
| `EventLog` | history and streams | an event is its type, time and number |
| `EventLogProofs` | | theorems about `EventLog` |
| `DiskMap` | disk map and misses | a device name is the number of its attachment |
| `Watched`, `MCWatched` | files reloaded on change | a file is a version and what `load` makes of it |
| `Reloaded` | what `Watched` promises | abstract specification; `Watched` implements it |
| `WatchedProofs` | | theorems about `Watched`, the refinement among them |
| `Serving`, `MCServing` | start-up, accept loop, bearer check, shutdown | its tokens are an instance of `Reloaded` |
| `ContainerNames` | names, routes, options | operators; a name is a sequence of characters |
| `Exposition` | families, labels, `render` | operators; a series is its labels and where its value is from |
| `Requests`, `MCRequests` | one request or scrape among changes | extends `ContainerNames` and `Exposition` |
| `RequestsProofs` | | theorems about `Requests`, with what it extends, and `Serving` |

Operators whose name ends in what they get wrong (`WorkingSetWraps`,
`InRangeOldest`, ...), each under the comment *Faulty variant of*, are the
mistakes the properties are shown to catch; no specification uses them.

How state and actions correspond to the code, module by module:

**Registry.** `containers` is `Manager::containers`; `handle[h]` is a
`ContainerHandle` with the life of its task; `actor[a]` holds the position and
the locals of the consumer and of the sweep. `add_container` is `AddCheck` (first
look-up), `AddSpec` (`build_spec`), `AddMeta` (the await), `AddInsert` (second
look-up and insertion under one write lock), `AddRecord`, `AddSpawn`, `AddStore`;
`remove_container` is `RemoveTake`, `RemoveAbort`, `RemoveRecord`. The initial
walk of `Manager::start` and the periodic sweep have the same steps (`Sweep...`);
while `~sweep.started` nothing is removed, no creation is recorded and no event
is delivered. A task that is aborted ends at its only await, the sleep, hence
`doomed`. A task returns only when reading a file fails *and* the directory is
gone; a missing file is not a failure (`read_opt`), so that needs a file that was
open when its cgroup was removed. The watch is abstracted to events that are
delivered in order, may be lost (`LostEvents`) and may be repeated (`Rescan`).
The root container is left out: it always exists and is never removed.

**CgroupWatch.** `kernel` holds the descriptors inotify has, which die with the
incarnation of their directory; `watches` is the table of the code, which is
purged by path. `todo` and `scan` are where `watch_dir` stands. `lost` becomes
true when the queue overflows or a watch is refused, and the promises of the
watch end there. `unseen` becomes true when a directory goes that is watched while
its parent is not; the code cannot be told of it, and the promises end there too
(see *Met while modelling*). An inotify read error, which ends the thread, is for the
registry a loss of all later events. Events about files are left out: adding a
watch with `ONLYDIR` refuses them.

**RuntimeMeta.** `call[c]` is one `runtime_meta` of the consumer or the sweep:
`Begin` (name tests and `extract_container_id`), `AttemptCrio` and `CrioReply`, or
`AttemptContainerd`, `Connect` (the `OnceCell`, filled by one caller while the
others wait), `ContainersGet` and `TasksGet`. `ModeChanges` makes a runtime go
down, fail, hang or come back between any two of them; a request under way when
its runtime goes down is `broken`. Labels, image and environment are left out;
`CrioMeta` and `ContainerdMeta` say what the two clients make of an answer.

**Housekeeping.** The loop is `Refresh` and `RefreshLimits` (the slow path:
`read_spec` asks for `memory.max` first and reads the limits after it),
`ReadActivity`, `ReadEvents`, `Publish` (OOM events, interval, previous sample,
store) and `Wake`; `ReadFails` and `CheckExists` are the error branch. The
environment works, sets and lifts limits, enables the memory controller late, has
OOM kills, vanishes and comes back with its counters at 0.

**TimedStore.** `Push` is `push`: `Insert`, then `Evict` relative to the newest
sample. `InRange` and `TwoLatest` are the reads.

**Sampling.** `kind` says whether the container is the root, a plain cgroup or
one with a runtime. A runtime container's first iteration walks its writable
layer (`PopDirectory`, `VisitEntry`, `WalkEnds`: `dir_usage`). A sample is `Begin`
(its timestamp, from a clock that may step), `ReadCpu`, `ReadCurrent`, `ReadStat`,
`FillRest` (the root's memory from `/proc/meminfo` and the file-system rows) and
`PushSample`, which is `TimedStore`'s `Push`; `ReadFails` and `CheckExists` are the
error branch. The paths that may exist under the layer are numbered, 1 being the layer itself;
`Inode` says what each is a path of. Outside, the cgroup works, has its cache grow, vanishes and comes
back (with or without memory controller), paths under the layer come and go, and
file systems are mounted and unmounted. `data` is what the samples numbered by the
store carry; the rates and percentiles are computed from it as requests do.

**EventLog.** `Send` and `Insert` are the two halves of `record_event`, which
other threads can separate; `Place` and `Trim` are what happens under the lock
(`UpTo` is the place an event goes to, `LastOf` keeps the newest). A
stream is the task spawned by `handle_events` with its two channels and its
client. The container-name part of `EventQuery::matches` is
`ContainerNames!EventInScope`, used by `Requests`.

**DiskMap.** A sample is `Look`, `Note`, a scan entry by entry, `WriteMap`; the
refresh is `RefreshTick`, the scan, `RefreshWrite`, `RefreshClear`. `ScanFails` is an
entry, or all of `/sys/block`, that cannot be read: `disk_map_at` leaves out what it
misses and the map is replaced all the same (`machine.rs:217`, `227`).

**Watched.** `Enter` takes the mutex after `RECHECK`; `StampFile` and `LoadFile`
look at one file at a time; `Loaded`, `LoadFailed` and `Leave` are the outcomes.
`Watched::new` is the thread `Main`, whose failure ends the program. `Reloaded`
has none of this: files are replaced (`Replace`), a combination of versions that
`load` accepts, none older than the one in use, comes into use (`Take`), or the
start fails (`Fail`). The refinement keeps the four variables they share.

**Serving.** `boot` counts the steps of `main` in their order (`Startup`); each
may fail (`StepOk`). `loop` is `serve_tls`, or axum's server when there is no
certificate: accepting, in the back-off after an error, draining, stopped. A
connection goes from `queued` over `handshake`, `open`, `sending` (half a head has
come), `asked` (before `require_bearer`), `body` (`dispatch` awaits the body before its
handler runs, `v1.rs:30-35`) and `running` (in a handler) to `answered`, `answering`
(the client has yet to read what the socket does not take) or `streaming`. `Ask`,
`Send` and `Receive` are the client's, who may stop before each of them; `OfClient`
are the positions in which the server waits for that, without a timeout. The tokens
are `Reloaded` with one file: `Rotate` replaces it and `Reload` takes it.

**Requests.** One request among changes of the rest of the program: `Arrive`
(route and options), `Look` (`Manager::handle`), `Collect` (`Manager::handles` with
the handler's filter), `Read` (one read under one lock of one handle, in the order
of `Program`), `Finish`; `ReadProcs` and `ReadPid` for `ps`, each of which may fail: without
`cgroup.procs` the answer is an empty list, without `/proc/<pid>/stat` it lacks the
process, and `missed` remembers whom. `was` remembers what was
registered all the time and at some time since the request came, and the limits each
container has had, which is what an answer can be held to. A scrape's series are what
`Exposition` makes of its reads.

## Runs

| Run | Shows | Bounds and why they are enough |
|---|---|---|
| `sample_path` | order, window, selection of the store; figures that fit; earned rates; ordered summaries; disk usage of the tree; file-system rows | 3 samples over timestamps 1, 2, 4 with a window of 2 (equal, in and out of order, at and beyond the window), 3 outside changes; a layer with a directory, a hard link and a mount whose file has the link's inode number; mount tables with two tmpfs, a bind mount, two mounts on one mountpoint and a mountpoint that shares letters with the layer's path |
| `registry` | type; consistency of handles, tasks and events; convergence | a cgroup with a mount unit below it, 3 changes (remove, make again, remove), 2 waiting events, 3 handles (the registered one, one being removed, one orphan): every pair of steps of the two tasks on one name |
| `registry_loops` | disagreement, see below | one cgroup, 3 changes, no lost event |
| `cgroup_watch` | nothing unwatched or unreported | three directories, each in the one before, 9 changes (the chain made, removed and made again, or one of them several times), a queue of 5 that can overflow, a watch limit that can be met; two levels are too few for the gap described under *Met while modelling* |
| `housekeeping` | no phantom kill, interval law, late kills, spec | 4 changes of the cgroup at any moment; three settings: a maximum that is not a power of two times the base, no back-off, a base above the maximum; limits set and lifted |
| `event_log` | history, queries, streams | 3 events, 3 timestamps with an age limit of 1, a history of 2, channels of 1: each limit is exceeded; 2 recorders, 1 stream |
| `disk_map` | one scan per device; the map follows | a device and a filtered one, 3 changes (attach, detach, another device under the number), 2 samplers and the refresh, 1 failure (of the refresh, or of a scan, in part or as a whole) |
| `watched` | type, no hidden change, eventual use, refinement | two files, 3 replacements, 2 requests, 1 read error: a pair replaced half-way and restored |
| `runtime_meta` | found, waited for, returns | two callers, a CRI-O and a containerd container, a shim and a name without id; any initial mode of the runtimes (one up) and one change of mode: down, failing or hung before, between or after any two requests |
| `requests` | complete answers, genuine failures, children, newest samples, specs, events, processes, series, labels, groups | root, `/a`, `/a/b` and `/ab` (letters shared, no child), three initial sets, 2 changes during a request, 27 requests covering every route, trailing slashes and ids; one container with limits and the others without, re-read as the other kind; named and unnamed devices, a file system on a named one; `memory` is not among the enabled groups, while `cpu` is, although also among the disabled ones: one gate of limits is shut and one open |
| `metrics_quota` | disagreement, see below | one scrape of containers with and without a quota |
| `serving` | tokens, half-configured TLS, waiting, shutdown | nine command lines (good, plain, without tokens, and each thing that can be wrong), 2 clients, 2 replacements of the token file (other tokens, none, absent), 1 error of accept; each client may stop in the middle of its handshake, head, body, answer or stream |

`CHECK_DEADLOCK FALSE` appears where the model really may stop: the environment
has used up its bounded changes (`cgroup_watch`, `event_log`, `sample_path`,
`runtime_meta`), the loop has returned (`housekeeping`), the request is answered
(`requests`), the program failed to start (`watched`) or ended (`serving`).

### Fairness

* Tasks of the tokio runtime are polled again and again, sleeps, ticks and
  timeouts end: weak fairness of each task's steps (`SchedulerFairness` in
  `Registry`, the loop in `Housekeeping`, the stream's task in
  `EventLog`, the refresh and the samples in `DiskMap`, the
  accept loop and each connection's own steps in `Serving`). No lock is held across
  an await, so no task is shut out.
* `RuntimeAnswers` in `Registry`: the container runtime answers or refuses each
  inspect call. The code does **not** guarantee it, there is no timeout on the
  socket calls; it is an assumption on the runtime, named so that it is seen.
  Without it `Converges` is false: both tasks can wait in `AddMeta` for ever.
* `RuntimeMeta` has the detail: a step that waits for a runtime is fair only while
  that runtime does not hang, strongly since it may hang and recover again and
  again, and `EveryCallReturns` speaks of a runtime that does not hang for ever.
* `Watched`: time passes and requests keep coming. Without requests nothing is
  reloaded, and nothing is served either.
* `EventLog`: a connected client reads on. Without it back pressure stops the
  stream; the history does not depend on it.
* `Serving`: no client has to finish its handshake, its request's head or body, to read
  its answer or to hang up, and SIGINT need not come. Hence the alternative in
  `ShutdownEnds`: the graceful shutdown of the plain server (`main.rs:255`) has no timeout,
  and one client that stops there holds it up for ever; `serve_tls` returns at once.
* The environment is never fair: it may stop changing at any moment, and
  `Converges`, `MapFollows` and the like speak of what happens then.

### Disagreements between code and documentation

* `registry_loops`: the task is stored after the handle is visible; a removal in
  between aborts nothing and the loop runs on unowned.
* `metrics_quota`: `render` pushes `container_spec_cpu_quota` and three
  `container_cpu_cfs_*` families that `FAMILIES` lacks; `Output::render` goes through
  `FAMILIES` and drops them without a word.

Met while modelling, and in the models, but without a run of their own:

* `watch.rs:52-63`: a directory can be watched, by the scan or by an event about an
  earlier directory of that name, while the directory it is in has been made anew and is not
  watched yet. When it goes in that moment nobody is told: its descriptor stays in
  `watches`, and an event of that descriptor that is read later (`watch.rs:89-92`)
  makes the watcher report as removed, and forget, a directory that lives. The
  comments promise the create-race closed (`watch.rs:3-5`) and every event emitted
  (`watch.rs:76-77`). It takes three nested directories and was found when the
  properties of `CgroupWatch` turned out not to be inductive; `unseen` marks it, and
  the sweep repairs it in the registry, though not in the table of the watcher.
* `manager.rs:447`: the spec read before the await of `runtime_meta` is registered
  after it, for what may be another incarnation of the cgroup.
* `manager.rs:564`: a loop that has returned is not started again when its cgroup
  is made again before the container is removed.
* `manager.rs:542`: kills before the first sample are never reported.
* `manager.rs:235`: `disk_misses` remembers numbers, not devices, so a re-used
  number waits for the next refresh.
* `manager.rs:277-280` speak of retries for registration races; that is so for
  CRI-O, while containerd's NotFound is final at the first attempt, and a
  containerd that was absent once is taken as absent for good (`KnownIsFound`
  makes exactly this exception).
* `main.rs:171-172` say certificate and tokens are checked before anything starts;
  the certificate is read when the manager runs and the port is bound.
  `BadFilesNeverServe` holds all the same: nobody is answered.
* `fs.rs:86-106`, `141-151`: partitions keep the first mount of a device and a layer is
  looked up by the longest mountpoint, the last line winning. Where two devices are mounted
  on one mountpoint, and the upper one elsewhere before, the layer is told to be on the
  lower one. `LayerIsOnItsDevice` names the condition; it was missing until its proof.
* `fs.rs:56-59`: `dir_usage` remembers the inode numbers of hard links before it
  looks at the device. A file mounted into the layer from another device, whose number a
  hard-linked file of the layer has, can keep that file from being counted at all;
  numbers are small, so this is a matter of chance only. `UsageIsOfTheTree`
  leaves such files open on both sides (`Foreign`).
* `collect.rs:30-33`: `family_group`, "metric group token for each container family", is
  used nowhere: the gates of `render` are written out. The two do not agree: the
  `container_spec_cpu_` and `container_spec_memory_` families have no group there, while
  `render` gates them by `cpu` (line 219) and `memory` (line 226). `Gate` is what
  `render` does, and `GroupsAreGated` holds every other family to `family_group`.
* `manager.rs:819`, `v2.rs:263-273`: `ps` answers 200 with an empty list when
  `cgroup.procs` of a container that lives cannot be read, and leaves out a process
  whose `stat` cannot be read; nothing in the answer tells. `LivingAreListed` promises
  the others.

Limits of the figures, as the models have them: partitions keep the first mount of
each device as it was at the start, so a layer under a second mount of a device, or
a mountpoint that changed, is told with another device's name or figures
(`RootTellsFilesystems` and `LayerIsOnItsDevice`, the halves of
`RowsAreOfTheirDevices`, say where not); an inode is counted once per path when links
change under the walk; a sample of a cgroup that has just vanished is one of zeros; the latest
CPU rate of a summary may be an older one when the newest two samples have none;
half a spec may be of an earlier moment until the next minute; a pid that is
re-used is not told apart.

## Proofs

TLC looks at the small instances above; the theorems hold for every value of the
constants that satisfies the named `ASSUME`s. Every safety property of the passing
runs, invariant or action property, is a theorem; only liveness is left to TLC.

Sums, order statistics, concatenations and the names built from segments are
recursive functions over sequences of any length. The library's induction theorems
cannot be instantiated by the provers used here; a set of naturals with 0 in it and
closed under successor is shown to be `Nat` from the well-foundedness of `<` instead
(lemma `Induction` of `SamplingProofs` and `RequestsProofs`), and a claim for all
`n` is the set of the `n` it holds for.

* **`SamplingProofs`**, the store: `StoreOrdered`, `StoreHoldsTheWindow` and
  `StoreReadsAreTheLatest`, from `TimesAssumption`, `AgeAssumption` and
  `PushesAssumption`. The invariant adds to order and window that the last sample
  of the buffer is the newest ever pushed (so that eviction measures from the right
  time) and that arrival numbers are fresh. `InsertCorrect` and `EvictCorrect` say
  what the two halves of `push` do to any ordered buffer; each `CHOOSE` is shown to
  have a witness (`SplitExists`, `LeastNat`, `LowerExists`).
* **`SamplingProofs`**, the way of a sample: `SamplingImplementsStore` (a
  `SamplingSpec` behaviour is one of the store: every step is a push that the store
  allows, or a stutter), hence `SamplingStoreIsRight`; `SamplingClampsWorkingSet` and
  `SamplingRatesAreEarned`; from `SamplingAssumption` and `ScaleAssumption` besides.
  The invariant is `SInv`. Its heart is `Behind`: the difference of the counter
  `usage_usec` and the work ever done never grows, since work adds to both and a
  cgroup that goes takes from the counter alone. So of two samples the later has the
  smaller difference, and a difference of counters never exceeds the work between them.
* **`SamplingProofs`**, the summary: with `SummaryFits` the two make
  `SamplingFiguresFit`. `Ranked` says what `values[k]` is after the sort without
  sorting; `RankIsTaken` shows that there is such a value, by counting how many values
  are below the k-th smallest, `RanksAreSorted` that ranks keep order,
  `EndsAreExtreme` what the last one is, `TotalIsBetween` that a mean lies between
  the least and the greatest value.
* **`SamplingProofs`**, file systems: `SamplingMounts` and `SamplingRowsAreRight`, from
  `MountsAssumption` (a mount table as the kernel has it: absolute mountpoints without
  a slash at the end, the root mounted first). `MInv` says that what has happened
  since the start has left every line whose mountpoint is not in `remounted` where it
  was, in the same order (`FromTheStart`), and that a row has the figures of what is
  mounted when it is read (`RowsAreRead`). `CoversIsUnder` shows that the test of
  letters in `partition_for_path` means what directories mean.
* **`SamplingProofs`**, the disk usage: `SamplingUsageIsRight`, from `TreeAssumption` (a
  directory has one path, paths of one inode agree on it, a parent is a directory).
  While the walk runs, `UInv` says that there is a set of paths visited and a set of
  paths counted (`WalkedSo`) such that whatever is in a counted directory is visited, on the
  stack, among the entries or was touched (`Placed`); that the sum so far is that of
  the counted, and that what was visited and not counted has been touched, is on
  another device, or is a file whose number is in `seen` (`Tallied`).
  `BlocksAreCovered` compares sums over sets of paths that have the same inodes.
* **`RegistryProofs`**: `RegistryTypeCorrect`, `RegistryMonitors`,
  `RegistryOwnsTasks`, `RegistryNeverReplaces` and `RegistryRecordsRemovals`, from
  `TreeAssumption` and `RegistryAssumption`. `RegisteredIsMonitored` is not
  inductive: the invariant `ActorOK /\ Own` adds who may hold a handle together (`Exclusive`: one inserts,
  the other removes), that a handle being removed has left the map
  (`RemovedFromMap`), that nothing is aborted before its removal has looked for
  the task (`Unaborted`) and what a half-inserted handle looks like
  (`Insertion`). For the deletions `Recorded` adds which handles have none yet: those
  in the map and those in the hands of a removal (`Pending`). There is one lemma per action or group of actions with the same
  frame.
* **`WatchedProofs`**: `WatchedTypeCorrect`, `WatchedStampSound`,
  `WatchedNeverBackwards` and `WatchedImplementsReloaded`, from
  `WatchedAssumption`, for any number of files and threads. The invariant says
  that no copy of a version is newer than the file (`Aged`), that only the holder
  of the mutex is between check and update (`Exclusive`), and that what was read
  after a stamp is the stamped version if the file still is (`ReadSoFar`). The
  refinement needs two more parts (`RInv`): what `load` has
  read of a file is the file itself if it still has the version read (`Genuine`), and
  after a failed start nobody is at work (`FailedIsOver`).

* **`CgroupWatchProofs`**: `CgroupWatchLeavesNoGap`, `CgroupWatchReportsAll` and
  `CgroupWatchReportsRemovals`, from `TreeAssumption`, `HierarchyAssumption` (whatever
  cgroups one takes, one is not below another: a tree) and `WatchAssumption`. The
  properties speak of a watcher that has caught up, so the invariant has to say, of one
  that has not, what will put right each directory that is not watched yet:
  `Renewals` names, for each, the waiting event that will have it watched anew (its
  own creation, or the one of a directory it is in), `Coming` the directories the
  calls of `watch_dir` under way will come to, and `Settled` says that all the others
  are watched and reported; `Removals` does the same for removals not reported yet.
  They hold unless `lost` or `unseen`, and rest on the order of the queue
  (`RemovalComesLast`, `MadeThenRemoved`) and on what holds always (`Ground`).
* **`RuntimeMetaProofs`**: `RuntimeMetaFindsTheKnown` and `RuntimeMetaWaitsForCrio`,
  from `RuntimeMetaAssumption`, for any callers, basenames and behaviour of the runtimes. Each
  caller's part (`Sound`) relates its position to what history says of its call
  (`StillSo`) and to what it has slept (`Waited`). It is inductive only together with
  `OneConnects`: one caller at a time connects, so a containerd that was taken as
  absent is not replaced by a client afterwards.
* **`EventLogProofs`**: `EventLogShowsTheLatest` and `EventLogStreamsHaveNoGap`, from
  `EventAssumption`. `HistoryStep` is the induction step of the first: what the
  limits dropped earlier would be dropped again, whatever comes. `UpToCorrect`,
  `PlaceCorrect`, `LastOfCorrect`, `TrimCorrect` and `QueryCorrect` say what the operators
  return for any sequence in timestamp order; `FilterExists` shows that the
  selection a query makes exists. For the streams the invariant says that what the
  task holds, its channel and its client together are the wanted events from `first`
  up to `next`.
* **`HousekeepingProofs`**, from `HousekeepingAssumption` (intervals of at least one,
  and `MaxIdle` doublings that reach the largest):
  `HousekeepingReportsTrueKills`, that reports never outnumber kills. Not inductive
  alone; `Unreported` relates what has been reported to the counter of the last sample
  and of the cgroup, by incarnation: what this cgroup has counted since that
  sample is still to be reported, and all it has counted if the sample is of an
  earlier one. `HousekeepingDoubles`, that the interval is the base doubled as often
  as nothing changed, cut at the maximum, which needs that cutting early and doubling
  on is the same as doubling on and cutting (`DoubledOnceMore`); `PowerDoubles` gets
  2^(n+1) = 2 * 2^n from counting subsets, since the provers know nothing of `^`.
* **`HousekeepingProofs`**, the disk map: `DiskMapScansOnce`, from `DiskAssumption`
  (device numbers are finite, being pairs of 32-bit numbers): each counted scan has just
  added a number to `disk_misses`, which only a refresh empties, together with the count.
* **`RequestsProofs`**, names: a request's path is split at its slashes, trimmed and put
  together again, and containers are told by prefixes of strings. `NameInjective`,
  `SubtreeOfNames`, `ChildrenOfNames` and `EventsOfNames` show for any names that these
  tests mean what the hierarchy means: two cgroups have two names, a name has
  another one with a slash before it exactly when it is below it, and so on, the
  root, whose name ends in a slash, included.
* **`RequestsProofs`**, answers: `RequestsAnswer`, `RequestsFailGenuinely` and
  `RequestsDescribe`, from `PathsAssumption` (cgroups are a tree that has the
  root; `/` does not occur in a name), `AskedAssumption` (`dispatch` has split the
  request), `SpecsAssumption` and `BoundsAssumption`. The invariant `RequestsInv` says
  which kinds of request come to each point (`Position`), that each container the
  request is about is answered or still to be read, once, and none other (`Accounted`), what
  an entry holds after its first `n` reads compared with what was there when the request came
  (`Entries`), and what is known of the answers that are no entries (`Others`).
  For `RequestsDescribe`, `LimitsOk` relates what an entry has read first to the limits of
  one moment and the spec read next to these or later ones, which stays true as limits
  are added, and `StatsOk` the samples to what was read first. For `ps`, whoever lives is
  listed, missed, or still to be read.
* **`RequestsProofs`**, the exposition: `RequestsExposeValidly` and
  `RequestsGateGroups`, from `SamplesAssumption` (the lists of a sample are lists) and
  `GroupsAssumption` (no group has the empty name, which marks what is never gated;
  `main` filters it out). Every row that is pushed is of a known class with the labels
  of that class (`RowIsOk`, per part of `render`), a class that has something to tell has a
  row that nothing but its gate can keep back (`Told`, `SeriesAreTold`), lists of rows are
  concatenations (`FlattenIs`), `Output::render` keeps one of each (`RenderedIs`).
* **`RequestsProofs`**, the server: `ServingNeedsToken` and `ServingStartsWhole`, for any
  command lines, clients, tokens and contents of the token file. The invariant ties the
  position of a connection to the startup step reached (`Late`), a step to the files it
  has accepted (`Started`), and a request to the tokens in use since it came (`Guarded`).

`WatchedNeverBackwards` follows from the refinement as well, so no run repeats it.
What is proved of `Watched` is what `Serving` relies on, since its tokens are an
instance of `Reloaded`.

Only model-checked:

* The liveness properties: `Converges`, `LateKillIsReported`, `SpecFollows`,
  `StreamDelivers`, `MapFollows`, `SettledFilesAreServed`, `EveryCallReturns`,
  `NobodyWaitsForEver` and `ShutdownEnds`. They rest on fairness and `ENABLED`, which
  the prover does not reason about.
* That the figures of `Derived` are the ones the formulas of the code give: the theorems
  say that they are in order and in range, not what they are.

## Not modelled

* Values and number formatting of metrics (`encode.rs`): floats.
* Wire types and JSON: definitions without behaviour.
* Text splitting in `parse.rs` and the machine facts (`machine.rs`: topology, NUMA,
  DMI, network devices): one text to one record, no state and no order.
* Network and block counters of a sample: copied figures.
* The transport of the runtime clients (HTTP over a socket, gRPC): external; what
  they make of answers and errors is in `RuntimeMeta`.
* Flags other than those that change control, the static pages, tests and
  conformance data.

`PROJECT.json` gives the reason for each component.

## Plan

`Discovery`: `CgroupWatch` feeding `Registry`, shown to implement an abstract registry
that adds a cgroup that exists and removes one that is gone. Today `Registry`
abstracts the watch to events that may be lost or repeated, which covers all the
watch can do, but is not shown to be covered by what `CgroupWatch` does.
