---------------------------- MODULE CgroupWatch -----------------------------
(***************************************************************************)
(* CgroupWatcher of cadvisor-host/src/watch.rs: the thread that keeps an   *)
(* inotify watch on every directory of the cgroup hierarchy and reports    *)
(* Added and Removed, while directories come and go faster than it reads.  *)
(*                                                                         *)
(* The kernel's side is external: a watch belongs to one incarnation of a  *)
(* directory and dies with it; events wait in one queue of bounded length, *)
(* and what does not fit is lost.  A watch descriptor is modelled by the   *)
(* directory and the incarnation it watches.                               *)
(***************************************************************************)
EXTENDS CgroupTree, Sequences

CONSTANTS
    MaxQueue,    \* fs.inotify.max_queued_events
    WatchLimit   \* whether fs.inotify.max_user_watches may be reached

Dirs == Names \cup {Root}
Nowhere == "nowhere"

ASSUME WatchAssumption ==
    /\ MaxQueue \in Nat
    /\ WatchLimit \in BOOLEAN
    /\ Nowhere \notin Dirs

VARIABLES
    kernel,      \* the descriptors the kernel holds
    queue,       \* inotify events not read yet
    watches,     \* CgroupWatcher::watches: the descriptors it knows, with their paths
    todo,        \* directories watch_dir is still to be called on
    scan,        \* the directory watch_dir has just added a watch for
    emit,        \* the emit argument: FALSE during the registration of run
    last,        \* the last event sent for each cgroup
    lost,        \* history: the queue overflowed or a watch could not be added
    unseen,      \* history: a watched directory went while its parent was not watched
    startChanges \* history: the number of changes when the registration ended

watchVars == <<kernel, watches, todo, scan, emit, last, startChanges>>
vars == <<tree, changes, kernel, queue, watches, todo, scan, emit, last, lost, unseen, startChanges>>

Incarnation(d) == IF d = Root THEN 1 ELSE tree[d]
Descriptor(d) == <<d, Incarnation(d)>>

Init ==
    /\ TreeInit
    /\ kernel = {} /\ queue = <<>> /\ watches = {}
    /\ todo = {Root} /\ scan = Nowhere /\ emit = FALSE
    /\ last = [n \in Names |-> "none"]
    /\ lost = FALSE /\ unseen = FALSE
    /\ startChanges = 0
-----------------------------------------------------------------------------
(* The kernel.                                                             *)

\* A change of directory n is queued if its parent is watched.
Notify(kind, n) ==
    LET wd == Descriptor(Parent[n]) IN
    IF wd \in kernel
    THEN IF Len(queue) < MaxQueue
         THEN queue' = Append(queue, [wd |-> wd, kind |-> kind, name |-> n]) /\ UNCHANGED lost
         ELSE lost' = TRUE /\ UNCHANGED queue
    ELSE UNCHANGED <<queue, lost>>

Create(n) ==
    /\ Mkdir(n)
    /\ Notify("create", n)
    /\ UNCHANGED <<watchVars, unseen>>

\* The watch on a directory that is removed is removed with it.
Destroy(n) ==
    /\ Rmdir(n)
    /\ Notify("delete", n)
    /\ kernel' = kernel \ {Descriptor(n)}
    /\ unseen' = (unseen \/ (Descriptor(n) \in kernel /\ Descriptor(Parent[n]) \notin kernel))
    /\ UNCHANGED <<watches, todo, scan, emit, last, startChanges>>
-----------------------------------------------------------------------------
(* watch_dir.  Its recursion is flattened to the set of directories it is  *)
(* still to be called on.                                                  *)

\* Faulty variant of Watch: Added is sent only for a directory that was not
\* watched yet.
WatchOnce(d) ==
    /\ scan = Nowhere /\ d \in todo
    /\ Exists(d)
    /\ todo' = todo \ {d}
    /\ kernel' = kernel \cup {Descriptor(d)}
    /\ watches' = watches \cup {Descriptor(d)}
    /\ scan' = d
    /\ last' = IF emit /\ Descriptor(d) \notin kernel THEN [last EXCEPT ![d] = "Added"] ELSE last
    /\ UNCHANGED <<treeVars, queue, emit, lost, unseen, startChanges>>

\* The watch is added, then Added is sent.
Watch(d) ==
    /\ scan = Nowhere /\ d \in todo
    /\ Exists(d)
    /\ todo' = todo \ {d}
    /\ kernel' = kernel \cup {Descriptor(d)}
    /\ watches' = watches \cup {Descriptor(d)}
    /\ scan' = d
    /\ last' = IF emit THEN [last EXCEPT ![d] = "Added"] ELSE last
    /\ UNCHANGED <<treeVars, queue, emit, lost, unseen, startChanges>>

\* A directory that is gone, or that the kernel grants no watch, is given up
\* with everything below it.
WatchFails(d) ==
    /\ scan = Nowhere /\ d \in todo
    /\ Exists(d) => WatchLimit /\ Descriptor(d) \notin kernel
    /\ todo' = todo \ {d}
    /\ lost' = (lost \/ Exists(d))
    /\ UNCHANGED <<treeVars, kernel, queue, watches, scan, emit, last, unseen, startChanges>>

\* Faulty variant of Scan: children made before the watch are not looked for.
ScanSkipped ==
    /\ scan # Nowhere
    /\ scan' = Nowhere
    /\ UNCHANGED <<treeVars, kernel, queue, watches, todo, emit, last, lost, unseen, startChanges>>

\* read_dir of the directory just watched; one that is gone has no children.
Scan ==
    /\ scan # Nowhere
    /\ todo' = todo \cup Children(scan)
    /\ scan' = Nowhere
    /\ UNCHANGED <<treeVars, kernel, queue, watches, emit, last, lost, unseen, startChanges>>
-----------------------------------------------------------------------------
(* run.                                                                    *)

Idle == todo = {} /\ scan = Nowhere

\* The initial registration is complete.
Registered ==
    /\ ~emit /\ Idle
    /\ emit' = TRUE
    /\ startChanges' = changes
    /\ UNCHANGED <<treeVars, kernel, queue, watches, todo, scan, last, lost, unseen>>

\* The events of a descriptor that is not in the table are skipped.
Skip ==
    /\ emit /\ Idle /\ queue # <<>>
    /\ Head(queue).wd \notin watches
    /\ queue' = Tail(queue)
    /\ UNCHANGED <<treeVars, watchVars, lost, unseen>>

Created ==
    /\ emit /\ Idle /\ queue # <<>>
    /\ Head(queue).wd \in watches /\ Head(queue).kind = "create"
    /\ queue' = Tail(queue)
    /\ todo' = {Head(queue).name}
    /\ UNCHANGED <<treeVars, kernel, watches, scan, emit, last, lost, unseen, startChanges>>

\* Faulty variant of Deleted: the table is kept up to date but nothing is sent.
DeletedQuietly ==
    /\ emit /\ Idle /\ queue # <<>>
    /\ Head(queue).wd \in watches /\ Head(queue).kind = "delete"
    /\ queue' = Tail(queue)
    /\ watches' = {w \in watches : w[1] # Head(queue).name}
    /\ UNCHANGED <<treeVars, kernel, todo, scan, emit, last, lost, unseen, startChanges>>

\* Every descriptor with the path that is gone is forgotten, also one that
\* belongs to a later incarnation.
Deleted ==
    /\ emit /\ Idle /\ queue # <<>>
    /\ Head(queue).wd \in watches /\ Head(queue).kind = "delete"
    /\ queue' = Tail(queue)
    /\ LET n == Head(queue).name IN
         /\ last' = [last EXCEPT ![n] = "Removed"]
         /\ watches' = {w \in watches : w[1] # n}
    /\ UNCHANGED <<treeVars, kernel, todo, scan, emit, lost, unseen, startChanges>>

WatcherStep ==
    \/ \E d \in Dirs : Watch(d) \/ WatchFails(d)
    \/ Scan \/ Registered \/ Skip \/ Created \/ Deleted

Next ==
    \/ \E n \in Names : Create(n) \/ Destroy(n)
    \/ WatcherStep

Spec == Init /\ [][Next]_vars
-----------------------------------------------------------------------------
(* Properties *)

\* The watcher has nothing left to do and was told everything: no event or watch
\* was refused, and no watched directory went while its parent was not watched.
CaughtUp == emit /\ Idle /\ queue = <<>> /\ ~lost /\ ~unseen

\* A watcher that has caught up watches every directory, under its present
\* incarnation, and knows the path of each of these watches: directories that
\* were removed and made again while their earlier events were waiting
\* included (watch_dir adds the watch before it scans; the path-wise retain of
\* run is always followed by another watch_dir).
EveryDirectoryWatched ==
    CaughtUp => \A d \in Dirs : Exists(d) => Descriptor(d) \in kernel \cap watches

\* A watcher that has caught up has reported every cgroup that exists: the last
\* event it sent for it is Added, unless the cgroup was there before the end of
\* the initial registration and nothing was sent for it (run, watch_dir).
EveryCgroupReported ==
    CaughtUp => \A n \in Names : Exists(n) =>
        last[n] = "Added" \/ (last[n] = "none" /\ tree[n] <= startChanges + 1)

\* A watcher that has caught up has sent Removed for every cgroup it sent Added
\* for and that is gone, unless its parent has gone or been made anew as well:
\* the path-wise retain of run may then forget the parent's new descriptor while
\* the cgroup's own removal still waits, which is skipped (the sweep of
\* Manager::start finds out).
RemovalMissedOnlyWithParent ==
    CaughtUp => \A n \in Names :
        last[n] = "Added" /\ ~Exists(n) =>
            /\ Parent[n] # Root
            /\ ~Exists(Parent[n]) \/ tree[Parent[n]] > startChanges + 1
=============================================================================
