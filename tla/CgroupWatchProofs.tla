-------------------------- MODULE CgroupWatchProofs --------------------------
(***************************************************************************)
(* Proofs about CgroupWatch, for any cgroup hierarchy and any queue.       *)
(***************************************************************************)
EXTENDS CgroupWatch, TLAPS

-----------------------------------------------------------------------------
(* The invariant.                                                          *)

Events == [wd : Dirs \X Nat, kind : {"create", "delete"}, name : Names]

Typed ==
    /\ TreeTypeOK
    /\ kernel \subseteq Dirs \X Nat /\ watches \subseteq Dirs \X Nat
    /\ queue \in Seq(Events)
    /\ todo \subseteq Dirs /\ scan \in Dirs \cup {Nowhere}
    /\ emit \in BOOLEAN /\ lost \in BOOLEAN /\ unseen \in BOOLEAN
    /\ last \in [Names -> {"none", "Added", "Removed"}]
    /\ startChanges \in 0..changes

\* A directory is made in one that exists, and its incarnation is never one
\* that comes later.
Hierarchy ==
    \A n \in Names : tree[n] <= changes + 1 /\ (Exists(n) => Exists(Parent[n]))

\* A watch dies with its incarnation.
KernelIsCurrent == \A w \in kernel : Exists(w[1]) /\ w = Descriptor(w[1])

\* Nothing is sent during the registration.
SilentAtFirst == ~emit => \A n \in Names : last[n] = "none"

\* An event of a descriptor that still is its directory's is of a live watch.
FromWatches ==
    \A k \in 1..Len(queue) :
        /\ queue[k].wd[1] = Parent[queue[k].name] /\ queue[k].wd[2] \in 1..(changes + 1)
        /\ queue[k].wd = Descriptor(Parent[queue[k].name]) => queue[k].wd \in kernel

Deletes(d, k) == queue[k].kind = "delete" /\ queue[k].name = d

\* The removal of a directory comes after all events of its descriptor, and
\* when the descriptor is no longer the directory's it is in the queue.
RemovalComesLast ==
    \A k \in 1..Len(queue) :
        /\ queue[k].wd # Descriptor(queue[k].wd[1]) =>
              \E j \in 1..Len(queue) : k < j /\ Deletes(queue[k].wd[1], j)
        /\ \A j \in 1..Len(queue) : k < j /\ Deletes(queue[k].wd[1], j) =>
              /\ queue[k].wd # Descriptor(queue[k].wd[1])
              /\ \A i \in 1..Len(queue) : j < i => queue[i].wd # queue[k].wd

\* What a descriptor says was made it also says was removed.
MadeThenRemoved ==
    \A k \in 1..Len(queue) :
        \/ queue[k].kind # "create"
        \/ Exists(queue[k].name) /\ queue[k].wd = Descriptor(queue[k].wd[1])
        \/ \E j \in 1..Len(queue) :
              k < j /\ Deletes(queue[k].name, j) /\ queue[j].wd = queue[k].wd

\* A directory that has been there since the end of the registration.
Old(d) == Exists(d) /\ (d # Root => tree[d] <= startChanges + 1)

Watched(d) == Descriptor(d) \in kernel \cap watches

Reported(n) == last[n] = "Added" \/ (last[n] = "none" /\ (emit => tree[n] <= startChanges + 1))

\* t[d]: the event that will have d watched anew, 0 if none needs to: the one
\* that says d was made, or the one that makes its parent anew.
Renewals(t) ==
    /\ t \in [Dirs -> 0..Len(queue)] /\ t[Root] = 0
    /\ \A n \in Names : Exists(n) =>
          /\ \/ t[n] = t[Parent[n]]
             \/ /\ t[n] > t[Parent[n]]
                /\ queue[t[n]] = [wd |-> Descriptor(Parent[n]), kind |-> "create", name |-> n]
          /\ \A k \in 1..Len(queue) : Deletes(n, k) => k <= t[n]

\* P: the directories the calls of watch_dir under way will come to.
Coming(P) ==
    /\ \A d \in P : d \in Dirs /\ Exists(d)
    /\ Root \in P => Root \in todo
    /\ \A n \in P \ {Root} : n \in todo \/ scan = Parent[n] \/ Parent[n] \in P

\* Everything else is watched and reported.
Settled(t, P) ==
    \A d \in Dirs : Exists(d) /\ t[d] = 0 /\ d \notin P =>
        Watched(d) /\ (d # Root => Reported(d))

\* An event that will have the removal of n reported.
RemovalWaits(t, n) ==
    \E k \in 1..Len(queue) :
        /\ Deletes(n, k)
        /\ \/ queue[k].wd = Descriptor(Parent[n]) /\ t[Parent[n]] < k
           \/ /\ queue[k].wd \in watches
              /\ \A j \in 1..Len(queue) : j < k => ~Deletes(Parent[n], j)

\* A cgroup that was reported, or is about to be, and is gone or may go unseen.
Removals(t) ==
    \A n \in Names : emit /\ Old(Parent[n]) =>
        /\ last[n] = "Added" /\ (~Exists(n) \/ Descriptor(Parent[n]) \notin kernel)
           => RemovalWaits(t, n)
        /\ n \in todo /\ Descriptor(Parent[n]) \notin kernel => RemovalWaits(t, n)

\* A directory that is being scanned has not lost its watch unless it is new.
ScanIsWatched == emit /\ scan # Nowhere /\ Old(scan) => Descriptor(scan) \in kernel

Tracked(t, P) == Renewals(t) /\ Coming(P) /\ Settled(t, P) /\ Removals(t)

Ground ==
    Typed /\ Hierarchy /\ KernelIsCurrent /\ SilentAtFirst /\ FromWatches /\ ScanIsWatched

IInv ==
    /\ Ground
    /\ ~lost /\ ~unseen =>
          RemovalComesLast /\ MadeThenRemoved /\ \E t, P : Tracked(t, P)
-----------------------------------------------------------------------------
(* What the actions do to the hierarchy and to the queue.                  *)

LEMMA ParentType == Root \in Dirs /\ \A n \in Names : n \in Dirs /\ n # Root /\ Parent[n] \in Dirs /\ Parent[n] # n
<1>1. ASSUME NEW n \in Names PROVE Parent[n] # n
  <2>1. {n} \in SUBSET Names /\ {n} # {}
    OBVIOUS
  <2>2. \E m \in {n} : Parent[m] \notin {n}
    BY <2>1, HierarchyAssumption
  <2> QED
    BY <2>2
<1> QED
  BY <1>1, TreeAssumption DEF Dirs

LEMMA EventParts ==
    \A e \in Events : /\ e.name \in Names /\ Parent[e.name] \in Dirs
                      /\ e.wd \in Dirs \X Nat /\ e.wd[1] \in Dirs
BY ParentType DEF Events

\* A directory is made.
LEMMA Making ==
    ASSUME Typed, NEW n \in Names, Mkdir(n)
    PROVE  /\ TreeTypeOK' /\ changes' = changes + 1
           /\ tree[n] = 0 /\ tree'[n] = changes + 2 /\ Exists(Parent[n])
           /\ \A d \in Dirs \ {n} : (Exists(d)' <=> Exists(d)) /\ Descriptor(d)' = Descriptor(d)
           /\ \A m \in Names \ {n} : tree'[m] = tree[m]
<1>1. /\ TreeTypeOK' /\ changes' = changes + 1
      /\ tree'[n] = changes + 2 /\ \A m \in Names \ {n} : tree'[m] = tree[m]
  BY TreeAssumption DEF Typed, TreeTypeOK, Mkdir
<1>2. \A d \in Dirs \ {n} : (Exists(d)' <=> Exists(d)) /\ Descriptor(d)' = Descriptor(d)
  BY <1>1 DEF Exists, Descriptor, Incarnation, Dirs
<1>3. tree[n] = 0 /\ Exists(Parent[n])
  BY DEF Mkdir
<1> QED
  BY <1>1, <1>2, <1>3

\* A directory is removed.
LEMMA Removing ==
    ASSUME Typed, NEW n \in Names, Rmdir(n)
    PROVE  /\ TreeTypeOK' /\ changes' = changes + 1
           /\ tree[n] # 0 /\ tree'[n] = 0
           /\ \A m \in Names : Parent[m] = n => tree[m] = 0 /\ ~Exists(m)
           /\ \A d \in Dirs \ {n} : (Exists(d)' <=> Exists(d)) /\ Descriptor(d)' = Descriptor(d)
           /\ \A m \in Names \ {n} : tree'[m] = tree[m]
<1>1. /\ TreeTypeOK' /\ changes' = changes + 1
      /\ tree'[n] = 0 /\ \A m \in Names \ {n} : tree'[m] = tree[m]
  BY TreeAssumption DEF Typed, TreeTypeOK, Rmdir
<1>2. \A d \in Dirs \ {n} : (Exists(d)' <=> Exists(d)) /\ Descriptor(d)' = Descriptor(d)
  BY <1>1 DEF Exists, Descriptor, Incarnation, Dirs
<1>3. tree[n] # 0 /\ \A m \in Names : Parent[m] = n => tree[m] = 0 /\ ~Exists(m)
  BY ParentType DEF Rmdir, Children, Exists
<1> QED
  BY <1>1, <1>2, <1>3

\* What Notify may do to the queue.
Appended(kind, n) ==
    /\ Descriptor(Parent[n]) \in kernel /\ lost' = lost
    /\ queue' \in Seq(Events) /\ Len(queue') = Len(queue) + 1
    /\ \A k \in 1..Len(queue) : queue'[k] = queue[k]
    /\ queue'[Len(queue) + 1] = [wd |-> Descriptor(Parent[n]), kind |-> kind, name |-> n]

LEMMA Notifying ==
    ASSUME Typed, NEW n \in Names, NEW kind \in {"create", "delete"}, Notify(kind, n)
    PROVE  \/ Appended(kind, n)
           \/ lost' = TRUE /\ queue' = queue
           \/ Descriptor(Parent[n]) \notin kernel /\ lost' = lost /\ queue' = queue
<1>1. [wd |-> Descriptor(Parent[n]), kind |-> kind, name |-> n] \in Events
  BY ParentType DEF Events, Descriptor, Incarnation, Typed, TreeTypeOK, Dirs
<1>2. queue \in Seq(Events)
  BY DEF Typed
<1> QED
  BY <1>1, <1>2 DEF Notify, Appended

\* The head of the queue is read.
LEMMA Reading ==
    ASSUME Typed, queue # <<>>, queue' = Tail(queue)
    PROVE  /\ queue' \in Seq(Events) /\ Len(queue) \in Nat \ {0} /\ Len(queue') = Len(queue) - 1
           /\ \A k \in 1..Len(queue') : k + 1 \in 1..Len(queue) /\ queue'[k] = queue[k + 1]
           /\ Head(queue) = queue[1] /\ queue[1] \in Events
BY DEF Typed

\* Incarnations are numbered from 1.
LEMMA Numbering ==
    ASSUME Typed, Hierarchy, NEW d \in Dirs
    PROVE  /\ Descriptor(d) \in Dirs \X Nat /\ Descriptor(d)[1] = d
           /\ Descriptor(d)[2] = Incarnation(d) /\ Incarnation(d) \in Nat
           /\ Exists(d) => Incarnation(d) \in 1..(changes + 1)
<1>1. Incarnation(d) \in Nat
  BY DEF Incarnation, Typed, TreeTypeOK, Dirs
<1>2. Exists(d) => Incarnation(d) \in 1..(changes + 1)
  BY <1>1 DEF Incarnation, Typed, TreeTypeOK, Dirs, Exists, Hierarchy
<1> QED
  BY <1>1, <1>2 DEF Descriptor

\* A change of directory n leaves the events of watches what they are.
LEMMA FromWatchesKept ==
    ASSUME Typed, Hierarchy, FromWatches, NEW n \in Names, NEW kind,
           changes' = changes + 1, Exists(Parent[n]),
           queue' = queue \/ Appended(kind, n),
           \A d \in Dirs \ {n} : Descriptor(d)' = Descriptor(d),
           Descriptor(n)'[2] \notin 1..(changes + 1),
           \A w \in kernel : w[1] # n => w \in kernel'
    PROVE  FromWatches'
<1>0. /\ changes \in Nat /\ Len(queue) \in Nat /\ queue' \in Seq(Events)
      /\ \A i \in 1..Len(queue) : queue[i] \in Events
  BY DEF Typed, TreeTypeOK, Appended
<1> SUFFICES ASSUME NEW k \in 1..Len(queue'), NEW e \in Events, e = queue'[k],
                    NEW p \in Dirs, p = Parent[e.name]
             PROVE  /\ e.wd[1] = p /\ e.wd[2] \in 1..(changes' + 1)
                    /\ e.wd = Descriptor(p)' => e.wd \in kernel'
  <2>1. \A k \in 1..Len(queue') : queue'[k] \in Events /\ Parent[queue'[k].name] \in Dirs
    BY <1>0, EventParts
  <2> QED
    BY <2>1 DEF FromWatches
<1>1. CASE k \in 1..Len(queue)
  <2>1. e = queue[k]
    BY <1>1 DEF Appended
  <2>2. /\ e.wd[1] = p /\ e.wd[2] \in 1..(changes + 1)
        /\ e.wd = Descriptor(p) => e.wd \in kernel
    BY <1>1, <2>1 DEF FromWatches
  <2>3. e.wd[2] \in 1..(changes' + 1)
    BY <1>0, <2>2
  <2>4. e.wd = Descriptor(p)' => p # n
    BY <2>2
  <2> QED
    BY <2>2, <2>3, <2>4
<1>2. CASE ~(k \in 1..Len(queue))
  <2>1. Appended(kind, n) /\ k = Len(queue) + 1
    BY <1>0, <1>2 DEF Appended
  <2>2. e.wd = Descriptor(p) /\ p = Parent[n] /\ Descriptor(p) \in kernel
    BY <2>1 DEF Appended
  <2>3. p # n
    BY <2>2, ParentType
  <2>4. Descriptor(p)[1] = p /\ Descriptor(p)[2] \in 1..(changes + 1)
    BY <2>2, Numbering
  <2>5. Descriptor(p)[2] \in 1..(changes' + 1)
    BY <1>0, <2>4
  <2> QED
    BY <2>2, <2>3, <2>4, <2>5
<1> QED
  BY <1>1, <1>2
-----------------------------------------------------------------------------
(* Types, the hierarchy and the watches.                                   *)

LEMMA GroundInit == Init => Ground
<1> SUFFICES ASSUME Init PROVE Ground
  OBVIOUS
<1>1. Typed
  <2>1. tree \in [Names -> Nat] /\ changes \in 0..MaxChanges /\ startChanges \in 0..changes
    BY TreeAssumption DEF Init, TreeInit
  <2>2. queue \in Seq(Events)
    BY DEF Init
  <2> QED
    BY <2>1, <2>2 DEF Init, Typed, TreeTypeOK, Dirs
<1>2. Hierarchy
  <2> SUFFICES ASSUME NEW m \in Names
               PROVE  tree[m] <= changes + 1 /\ (Exists(m) => Exists(Parent[m]))
    BY DEF Hierarchy
  <2>1. tree[m] \in 0..1 /\ changes = 0
    BY DEF Init, TreeInit
  <2>2. Exists(m) => Exists(Parent[m])
    BY ParentType DEF Init, TreeInit, Exists
  <2> QED
    BY <2>1, <2>2
<1> QED
  BY <1>1, <1>2 DEF Init, Ground, KernelIsCurrent, SilentAtFirst, FromWatches, ScanIsWatched

LEMMA GroundCreate ==
    ASSUME Ground, NEW n \in Names, Create(n)
    PROVE  Ground'
<1>0. Typed /\ Hierarchy
  BY DEF Ground
<1>1. /\ TreeTypeOK' /\ changes' = changes + 1
      /\ tree[n] = 0 /\ tree'[n] = changes + 2 /\ Exists(Parent[n])
      /\ \A d \in Dirs \ {n} : (Exists(d)' <=> Exists(d)) /\ Descriptor(d)' = Descriptor(d)
      /\ \A m \in Names \ {n} : tree'[m] = tree[m]
  BY <1>0, Making DEF Create
<1>2. \/ Appended("create", n)
      \/ lost' = TRUE /\ queue' = queue
      \/ lost' = lost /\ queue' = queue
  BY <1>0, Notifying DEF Create
<1>3. UNCHANGED <<kernel, watches, todo, scan, emit, last, startChanges, unseen>>
  BY DEF Create, watchVars
<1>4. changes \in Nat /\ startChanges \in 0..changes
  BY <1>0 DEF Typed, TreeTypeOK
<1>5. Typed'
  <2>1. queue' \in Seq(Events) /\ lost' \in BOOLEAN
    BY <1>0, <1>2 DEF Typed, Appended
  <2>2. startChanges \in 0..changes'
    BY <1>1, <1>4
  <2> QED
    BY <1>0, <1>1, <1>3, <2>1, <2>2 DEF Typed
<1>6. Hierarchy'
  <2> SUFFICES ASSUME NEW m \in Names
               PROVE  tree'[m] <= changes' + 1 /\ (Exists(m)' => Exists(Parent[m])')
    BY DEF Hierarchy
  <2>1. tree[m] \in Nat /\ tree[m] <= changes + 1 /\ (Exists(m) => Exists(Parent[m]))
    BY <1>0 DEF Hierarchy, Typed, TreeTypeOK
  <2>2. Exists(n)'
    BY <1>1, <1>4 DEF Exists
  <2> QED
    BY <1>1, <1>4, <2>1, <2>2, ParentType
<1>7. KernelIsCurrent'
  <2> SUFFICES ASSUME NEW w \in kernel PROVE Exists(w[1])' /\ w = Descriptor(w[1])'
    BY <1>3 DEF KernelIsCurrent
  <2>1. w[1] \in Dirs /\ Exists(w[1]) /\ w = Descriptor(w[1])
    BY <1>0 DEF Ground, KernelIsCurrent, Typed
  <2>2. w[1] # n
    BY <1>1, <2>1, ParentType DEF Exists
  <2> QED
    BY <1>1, <2>1, <2>2
<1>8. SilentAtFirst'
  BY <1>3 DEF Ground, SilentAtFirst
<1>9. FromWatches'
  <2>1. Descriptor(n)'[2] \notin 1..(changes + 1)
    BY <1>1, <1>4, ParentType DEF Descriptor, Incarnation
  <2> QED
    BY <1>0, <1>1, <1>2, <1>3, <2>1, FromWatchesKept DEF Ground
<1>10. ScanIsWatched'
  <2> SUFFICES ASSUME NEW d \in Dirs, d = scan, emit, scan # Nowhere, Old(d)'
               PROVE  Descriptor(d)' \in kernel
    BY <1>0, <1>3 DEF ScanIsWatched, Typed
  <2>1. d # n
    BY <1>1, <1>3, <1>4, ParentType DEF Old
  <2>2. Old(d)
    BY <1>1, <1>3, <2>1 DEF Old, Dirs
  <2> QED
    BY <1>1, <2>1, <2>2 DEF Ground, ScanIsWatched
<1> QED
  BY <1>5, <1>6, <1>7, <1>8, <1>9, <1>10 DEF Ground

LEMMA GroundDestroy ==
    ASSUME Ground, NEW n \in Names, Destroy(n)
    PROVE  Ground'
<1>0. Typed /\ Hierarchy
  BY DEF Ground
<1>1. /\ TreeTypeOK' /\ changes' = changes + 1
      /\ tree[n] # 0 /\ tree'[n] = 0
      /\ \A m \in Names : Parent[m] = n => tree[m] = 0 /\ ~Exists(m)
      /\ \A d \in Dirs \ {n} : (Exists(d)' <=> Exists(d)) /\ Descriptor(d)' = Descriptor(d)
      /\ \A m \in Names \ {n} : tree'[m] = tree[m]
  BY <1>0, Removing DEF Destroy
<1>2. \/ Appended("delete", n)
      \/ lost' = TRUE /\ queue' = queue
      \/ lost' = lost /\ queue' = queue
  BY <1>0, Notifying DEF Destroy
<1>3. /\ UNCHANGED <<watches, todo, scan, emit, last, startChanges>>
      /\ kernel' = kernel \ {Descriptor(n)} /\ unseen' \in BOOLEAN
  BY <1>0 DEF Destroy, Typed
<1>4. changes \in Nat /\ startChanges \in 0..changes
  BY <1>0 DEF Typed, TreeTypeOK
<1>5. Typed'
  <2>1. queue' \in Seq(Events) /\ lost' \in BOOLEAN
    BY <1>0, <1>2 DEF Typed, Appended
  <2>2. startChanges \in 0..changes'
    BY <1>1, <1>4
  <2> QED
    BY <1>0, <1>1, <1>3, <2>1, <2>2 DEF Typed
<1>6. Hierarchy'
  <2> SUFFICES ASSUME NEW m \in Names
               PROVE  tree'[m] <= changes' + 1 /\ (Exists(m)' => Exists(Parent[m])')
    BY DEF Hierarchy
  <2>1. tree[m] \in Nat /\ tree[m] <= changes + 1 /\ (Exists(m) => Exists(Parent[m]))
    BY <1>0 DEF Hierarchy, Typed, TreeTypeOK
  <2>2. ~Exists(n)'
    BY <1>1, ParentType DEF Exists
  <2> QED
    BY <1>1, <1>4, <2>1, <2>2, ParentType
<1>7. KernelIsCurrent'
  <2> SUFFICES ASSUME NEW w \in kernel, w # Descriptor(n) PROVE Exists(w[1])' /\ w = Descriptor(w[1])'
    BY <1>3 DEF KernelIsCurrent
  <2>1. w[1] \in Dirs /\ Exists(w[1]) /\ w = Descriptor(w[1])
    BY <1>0 DEF Ground, KernelIsCurrent, Typed
  <2> QED
    BY <1>1, <2>1
<1>8. SilentAtFirst'
  BY <1>3 DEF Ground, SilentAtFirst
<1>9. FromWatches'
  <2>1. Descriptor(n)'[2] \notin 1..(changes + 1)
    BY <1>1, <1>4, ParentType DEF Descriptor, Incarnation
  <2>2. Exists(Parent[n])
    BY <1>0, <1>1 DEF Hierarchy, Exists
  <2>3. \A w \in kernel : w[1] # n => w \in kernel'
    BY <1>3 DEF Descriptor
  <2> QED
    BY <1>0, <1>1, <1>2, <2>1, <2>2, <2>3, FromWatchesKept DEF Ground
<1>10. ScanIsWatched'
  <2> SUFFICES ASSUME NEW d \in Dirs, d = scan, emit, scan # Nowhere, Old(d)'
               PROVE  Descriptor(d)' \in kernel'
    BY <1>0, <1>3 DEF ScanIsWatched, Typed
  <2>1. d # n
    BY <1>1, ParentType DEF Old, Exists
  <2>2. Old(d)
    BY <1>1, <1>3, <2>1 DEF Old, Dirs
  <2>3. Descriptor(d) \in kernel /\ Descriptor(d) # Descriptor(n)
    BY <2>1, <2>2 DEF Ground, ScanIsWatched, Descriptor
  <2> QED
    BY <1>1, <1>3, <2>1, <2>3
<1> QED
  BY <1>5, <1>6, <1>7, <1>8, <1>9, <1>10 DEF Ground

\* While the hierarchy stays as it is so do its descriptors.
LEMMA Unmoved ==
    ASSUME UNCHANGED <<tree, startChanges>>
    PROVE  \A d : /\ (Exists(d)' <=> Exists(d)) /\ Descriptor(d)' = Descriptor(d)
                  /\ (Old(d)' <=> Old(d))
BY DEF Exists, Descriptor, Incarnation, Old

LEMMA GroundWatch ==
    ASSUME Ground, NEW d \in Dirs, Watch(d)
    PROVE  Ground'
<1>0. Typed /\ Hierarchy /\ Descriptor(d) \in Dirs \X Nat /\ Descriptor(d)[1] = d
  BY Numbering DEF Ground
<1>1. \A e : Exists(e)' = Exists(e) /\ Descriptor(e)' = Descriptor(e)
  BY DEF Watch, treeVars, Exists, Descriptor, Incarnation
<1>2. Typed'
  <2>1. last' \in [Names -> {"none", "Added", "Removed"}]
    BY <1>0 DEF Watch, Typed
  <2> QED
    BY <1>0, <2>1 DEF Watch, treeVars, Typed, TreeTypeOK
<1>3. Hierarchy'
  BY <1>0, <1>1 DEF Hierarchy, Watch, treeVars
<1>4. KernelIsCurrent'
  <2> SUFFICES ASSUME NEW w \in kernel \cup {Descriptor(d)} PROVE Exists(w[1]) /\ w = Descriptor(w[1])
    BY <1>1 DEF KernelIsCurrent, Watch
  <2> QED
    BY <1>0 DEF Ground, KernelIsCurrent, Watch
<1>5. SilentAtFirst'
  BY DEF Ground, SilentAtFirst, Watch
<1>6. FromWatches'
  BY <1>1 DEF Ground, FromWatches, Watch, treeVars
<1>7. ScanIsWatched'
  BY <1>1 DEF ScanIsWatched, Watch
<1> QED
  BY <1>2, <1>3, <1>4, <1>5, <1>6, <1>7 DEF Ground

LEMMA GroundCalls ==
    ASSUME Ground, (\E d \in Dirs : WatchFails(d)) \/ Scan \/ Registered
    PROVE  Ground'
<1>1. /\ UNCHANGED <<tree, changes, kernel, watches, queue, last, unseen>>
      /\ lost' \in BOOLEAN /\ todo' \subseteq Dirs /\ startChanges' \in 0..changes
      /\ scan' = Nowhere \/ (scan' = scan /\ emit' = emit /\ startChanges' = startChanges)
      /\ emit' \in BOOLEAN /\ (emit => emit')
  <2>0. Typed /\ changes \in Nat
    BY DEF Ground, Typed, TreeTypeOK
  <2>1. CASE \E d \in Dirs : WatchFails(d)
    BY <2>0, <2>1 DEF Typed, WatchFails, treeVars
  <2>2. CASE Scan
    <3>1. Children(scan) \subseteq Dirs
      BY DEF Children, Dirs
    <3> QED
      BY <2>0, <2>2, <3>1 DEF Typed, Scan, treeVars
  <2>3. CASE Registered
    BY <2>0, <2>3 DEF Typed, Registered, Idle, treeVars
  <2> QED
    BY <2>1, <2>2, <2>3
<1>2. \A e : Exists(e)' = Exists(e) /\ Descriptor(e)' = Descriptor(e)
  BY <1>1 DEF Exists, Descriptor, Incarnation
<1>3. Typed'
  BY <1>1 DEF Ground, Typed, TreeTypeOK
<1>4. Hierarchy'
  BY <1>1, <1>2 DEF Ground, Hierarchy
<1>5. KernelIsCurrent' /\ SilentAtFirst'
  BY <1>1, <1>2 DEF Ground, KernelIsCurrent, SilentAtFirst
<1>6. FromWatches'
  BY <1>1, <1>2 DEF Ground, FromWatches
<1>7. ScanIsWatched'
  BY <1>1, <1>2 DEF Ground, ScanIsWatched, Old
<1> QED
  BY <1>3, <1>4, <1>5, <1>6, <1>7 DEF Ground

LEMMA GroundRead ==
    ASSUME Ground, Skip \/ Created \/ Deleted
    PROVE  Ground'
<1>0. Typed /\ FromWatches
  BY DEF Ground
<1>1. /\ UNCHANGED <<tree, changes, kernel, scan, emit, lost, unseen, startChanges>>
      /\ emit /\ scan = Nowhere /\ queue # <<>> /\ queue' = Tail(queue)
  BY DEF Skip, Created, Deleted, Idle, treeVars, watchVars
<1>2. /\ queue' \in Seq(Events) /\ Len(queue) \in Nat \ {0} /\ Len(queue') = Len(queue) - 1
      /\ \A k \in 1..Len(queue') : k + 1 \in 1..Len(queue) /\ queue'[k] = queue[k + 1]
      /\ Head(queue) = queue[1] /\ queue[1] \in Events
  BY <1>0, <1>1, Reading
<1>3. \A e : Exists(e)' = Exists(e) /\ Descriptor(e)' = Descriptor(e)
  BY <1>1 DEF Exists, Descriptor, Incarnation
<1>4. todo' \subseteq Dirs /\ watches' \subseteq watches /\ last' \in [Names -> {"none", "Added", "Removed"}]
  BY <1>0, <1>2, EventParts DEF Skip, Created, Deleted, watchVars, Typed, Dirs
<1>5. Typed'
  BY <1>0, <1>1, <1>2, <1>4 DEF Typed, TreeTypeOK
<1>6. Hierarchy'
  BY <1>1, <1>3 DEF Ground, Hierarchy
<1>7. KernelIsCurrent' /\ SilentAtFirst' /\ ScanIsWatched'
  BY <1>1, <1>3 DEF Ground, KernelIsCurrent, SilentAtFirst, ScanIsWatched
<1>8. FromWatches'
  BY <1>0, <1>1, <1>2, <1>3 DEF FromWatches
<1> QED
  BY <1>5, <1>6, <1>7, <1>8 DEF Ground
-----------------------------------------------------------------------------
(* The order of the events.                                                *)

\* A change of directory n that is seen if it can be.
Seen(n, kind) ==
    /\ changes' = changes + 1
    /\ \A d \in Dirs \ {n} : (Exists(d)' <=> Exists(d)) /\ Descriptor(d)' = Descriptor(d)
    /\ Descriptor(n)'[1] = n /\ Descriptor(n)'[2] \notin 1..(changes + 1)
    /\ \A m \in Names : Parent[m] = n => ~Exists(m)
    /\ queue' = queue \/ Appended(kind, n)
    /\ Descriptor(n) \in kernel => kind = "delete" /\ Appended(kind, n)
    /\ Descriptor(Parent[n]) \in kernel => Appended(kind, n)
    /\ kind = "create" => Exists(n)' /\ ~Exists(n)
    /\ kind = "delete" => ~Exists(n)'

LEMMA SeenCreate ==
    ASSUME Ground, NEW n \in Names, Create(n), ~lost'
    PROVE  Seen(n, "create")
<1>0. Typed /\ Hierarchy /\ KernelIsCurrent /\ changes \in Nat
  BY DEF Ground, Typed, TreeTypeOK
<1>1. /\ changes' = changes + 1 /\ tree[n] = 0 /\ tree'[n] = changes + 2
      /\ \A d \in Dirs \ {n} : (Exists(d)' <=> Exists(d)) /\ Descriptor(d)' = Descriptor(d)
  BY <1>0, Making DEF Create
<1>2. /\ queue' = queue \/ Appended("create", n)
      /\ Descriptor(Parent[n]) \in kernel => Appended("create", n)
  BY <1>0, Notifying DEF Create
<1>3. Exists(n)' /\ ~Exists(n) /\ Descriptor(n)'[1] = n /\ Descriptor(n)'[2] \notin 1..(changes + 1)
  BY <1>0, <1>1, ParentType DEF Exists, Descriptor, Incarnation
<1>4. \A m \in Names : Parent[m] = n => ~Exists(m)
  BY <1>0, <1>3 DEF Hierarchy
<1>5. Descriptor(n) \notin kernel
  BY <1>0, <1>3 DEF KernelIsCurrent, Descriptor
<1> QED
  BY <1>1, <1>2, <1>3, <1>4, <1>5 DEF Seen

LEMMA SeenDestroy ==
    ASSUME Ground, NEW n \in Names, Destroy(n), ~lost', ~unseen'
    PROVE  Seen(n, "delete")
<1>0. Typed /\ Hierarchy /\ KernelIsCurrent /\ changes \in Nat
  BY DEF Ground, Typed, TreeTypeOK
<1>1. /\ changes' = changes + 1 /\ tree[n] # 0 /\ tree'[n] = 0
      /\ \A m \in Names : Parent[m] = n => ~Exists(m)
      /\ \A d \in Dirs \ {n} : (Exists(d)' <=> Exists(d)) /\ Descriptor(d)' = Descriptor(d)
  BY <1>0, Removing DEF Destroy
<1>2. /\ queue' = queue \/ Appended("delete", n)
      /\ Descriptor(Parent[n]) \in kernel => Appended("delete", n)
  BY <1>0, Notifying DEF Destroy
<1>3. ~Exists(n)' /\ Descriptor(n)'[1] = n /\ Descriptor(n)'[2] \notin 1..(changes + 1)
  BY <1>0, <1>1, ParentType DEF Exists, Descriptor, Incarnation
<1>4. Descriptor(n) \in kernel => Descriptor(Parent[n]) \in kernel
  BY DEF Destroy
<1> QED
  BY <1>1, <1>2, <1>3, <1>4 DEF Seen

\* What is known of an event.
LEMMA EventFacts ==
    ASSUME Ground, NEW k \in 1..Len(queue)
    PROVE  /\ queue[k] \in Events /\ queue[k].wd[1] = Parent[queue[k].name]
           /\ queue[k].wd[1] \in Dirs /\ queue[k].name \in Names
           /\ queue[k].wd[2] \in 1..(changes + 1)
           /\ queue[k].wd = Descriptor(queue[k].wd[1]) => queue[k].wd \in kernel
<1>1. queue[k] \in Events
  BY DEF Ground, Typed
<1> QED
  BY <1>1, EventParts DEF Ground, FromWatches

LEMMA OrderSeen ==
    ASSUME Ground, RemovalComesLast, NEW n \in Names, NEW kind, Seen(n, kind)
    PROVE  RemovalComesLast'
<1> PICK L \in Nat : L = Len(queue)
  BY DEF Ground, Typed
<1>0. /\ \A k \in 1..L : queue'[k] = queue[k]
      /\ \/ Len(queue') = L
         \/ /\ Len(queue') = L + 1
            /\ queue'[L + 1] = [wd |-> Descriptor(Parent[n]), kind |-> kind, name |-> n]
  BY DEF Seen, Appended
<1> PICK M \in Nat : M = Len(queue') /\ (M = L \/ M = L + 1)
  BY <1>0
<1>a. \A d \in Dirs \ {n} : Descriptor(d)' = Descriptor(d)
  BY DEF Seen
<1>b. Descriptor(n)'[2] \notin 1..(changes + 1)
  BY DEF Seen
<1>c. Parent[n] \in Dirs \ {n} /\ n \in Dirs /\ Descriptor(Parent[n])[1] = Parent[n]
  BY ParentType DEF Descriptor
<1> SUFFICES ASSUME NEW k \in 1..M, NEW w, w = queue'[k].wd, NEW d \in Dirs, d = w[1]
             PROVE  /\ w # Descriptor(d)' => \E j \in 1..M :
                          k < j /\ queue'[j].kind = "delete" /\ queue'[j].name = d
                    /\ \A j \in 1..M : k < j /\ queue'[j].kind = "delete" /\ queue'[j].name = d =>
                          w # Descriptor(d)' /\ \A i \in 1..M : j < i => queue'[i].wd # w
  <2>1. \A k \in 1..M : queue'[k].wd[1] \in Dirs
    <3> SUFFICES ASSUME NEW k \in 1..M PROVE queue'[k].wd[1] \in Dirs
      OBVIOUS
    <3>1. CASE k \in 1..L
      BY <1>0, <3>1, EventFacts
    <3>2. CASE k = L + 1
      BY <1>0, <1>c, <3>2
    <3> QED
      BY <3>1, <3>2
  <2> QED
    BY <2>1 DEF RemovalComesLast, Deletes
<1>1. CASE k \in 1..L
  <2>1. queue[k].wd = w /\ w[2] \in 1..(changes + 1) /\ (w = Descriptor(d) => w \in kernel)
    BY <1>0, <1>1, EventFacts
  <2>2. /\ w # Descriptor(d) => \E j \in 1..L : k < j /\ Deletes(d, j)
        /\ \A j \in 1..L : k < j /\ Deletes(d, j) =>
              w # Descriptor(d) /\ \A i \in 1..L : j < i => queue[i].wd # w
    BY <1>1, <2>1 DEF RemovalComesLast
  <2>3. w # Descriptor(d)' => \E j \in 1..M : k < j /\ queue'[j].kind = "delete" /\ queue'[j].name = d
    <3> SUFFICES ASSUME w # Descriptor(d)'
                 PROVE  \E j \in 1..M : k < j /\ queue'[j].kind = "delete" /\ queue'[j].name = d
      OBVIOUS
    <3>1. CASE w # Descriptor(d)
      <4>1. PICK j \in 1..L : k < j /\ Deletes(d, j)
        BY <2>2, <3>1
      <4> QED
        BY <1>0, <4>1 DEF Deletes
    <3>2. CASE w = Descriptor(d)
      <4>1. d = n /\ Descriptor(n) \in kernel
        BY <1>a, <2>1, <3>2
      <4>2. kind = "delete" /\ Appended(kind, n)
        BY <4>1 DEF Seen
      <4>3. M = L + 1 /\ queue'[M].kind = "delete" /\ queue'[M].name = d
        BY <4>1, <4>2 DEF Appended
      <4> QED
        BY <1>1, <4>3
    <3> QED
      BY <3>1, <3>2
  <2>4. ASSUME NEW j \in 1..M, k < j, queue'[j].kind = "delete", queue'[j].name = d
        PROVE  w # Descriptor(d)' /\ \A i \in 1..M : j < i => queue'[i].wd # w
    <3>1. CASE j \in 1..L
      <4>1. w # Descriptor(d) /\ \A i \in 1..L : j < i => queue[i].wd # w
        BY <1>0, <2>2, <2>4, <3>1 DEF Deletes
      <4>2. w # Descriptor(d)'
        BY <1>a, <1>b, <2>1, <4>1
      <4>3. ASSUME NEW i \in 1..M, j < i PROVE queue'[i].wd # w
        <5>1. CASE i \in 1..L
          BY <1>0, <4>1, <4>3, <5>1
        <5>2. CASE i = L + 1
          BY <1>0, <1>c, <4>1, <5>2
        <5> QED
          BY <5>1, <5>2
      <4> QED
        BY <4>2, <4>3
    <3>2. CASE j = L + 1
      <4>1. d = n /\ M = L + 1
        BY <1>0, <2>4, <3>2
      <4> QED
        BY <1>b, <2>1, <3>2, <4>1
    <3> QED
      BY <3>1, <3>2
  <2> QED
    BY <2>3, <2>4
<1>2. CASE k = L + 1
  <2>1. w = Descriptor(Parent[n]) /\ d = Parent[n] /\ M = L + 1
    BY <1>0, <1>c, <1>2
  <2>2. w = Descriptor(d)'
    BY <1>a, <1>c, <2>1
  <2> QED
    BY <1>2, <2>1, <2>2
<1> QED
  BY <1>1, <1>2

LEMMA MadeSeen ==
    ASSUME Ground, MadeThenRemoved, NEW n \in Names, NEW kind \in {"create", "delete"},
           Seen(n, kind)
    PROVE  MadeThenRemoved'
<1> PICK L \in Nat : L = Len(queue)
  BY DEF Ground, Typed
<1>0. /\ \A k \in 1..L : queue'[k] = queue[k]
      /\ \/ Len(queue') = L
         \/ /\ Len(queue') = L + 1
            /\ queue'[L + 1] = [wd |-> Descriptor(Parent[n]), kind |-> kind, name |-> n]
  BY DEF Seen, Appended
<1> PICK M \in Nat : M = Len(queue') /\ (M = L \/ M = L + 1)
  BY <1>0
<1>a. \A d \in Dirs \ {n} : (Exists(d)' <=> Exists(d)) /\ Descriptor(d)' = Descriptor(d)
  BY DEF Seen
<1>b. Parent[n] \in Dirs \ {n} /\ n \in Dirs /\ Descriptor(Parent[n])[1] = Parent[n]
  BY ParentType DEF Descriptor
<1> SUFFICES ASSUME NEW k \in 1..M, NEW e, e = queue'[k], e.kind = "create"
             PROVE  \/ Exists(e.name)' /\ e.wd = Descriptor(e.wd[1])'
                    \/ \E j \in 1..M : /\ k < j /\ queue'[j].kind = "delete"
                                       /\ queue'[j].name = e.name /\ queue'[j].wd = e.wd
  BY DEF MadeThenRemoved, Deletes
<1>1. CASE k \in 1..L
  <2>1. /\ e = queue[k] /\ e.name \in Names /\ e.wd[1] = Parent[e.name] /\ e.wd[1] \in Dirs
        /\ e.wd = Descriptor(e.wd[1]) => e.wd \in kernel
    BY <1>0, <1>1, EventFacts
  <2>2. \/ Exists(e.name) /\ e.wd = Descriptor(e.wd[1])
        \/ \E j \in 1..L : k < j /\ Deletes(e.name, j) /\ queue[j].wd = e.wd
    BY <1>1, <2>1 DEF MadeThenRemoved
  <2>3. CASE \E j \in 1..L : k < j /\ Deletes(e.name, j) /\ queue[j].wd = e.wd
    <3>1. PICK j \in 1..L : k < j /\ Deletes(e.name, j) /\ queue[j].wd = e.wd
      BY <2>3
    <3> QED
      BY <1>0, <3>1 DEF Deletes
  <2>4. CASE Exists(e.name) /\ e.wd = Descriptor(e.wd[1]) /\ e.name # n
    <3>1. Exists(e.name)'
      BY <1>a, <2>1, <2>4, ParentType
    <3>2. e.wd[1] # n
      BY <2>1, <2>4 DEF Seen
    <3> QED
      BY <1>a, <2>1, <2>4, <3>1, <3>2
  <2>5. CASE Exists(e.name) /\ e.wd = Descriptor(e.wd[1]) /\ e.name = n
    <3>1. e.wd = Descriptor(Parent[n]) /\ Descriptor(Parent[n]) \in kernel
      BY <2>1, <2>5
    <3>2. Appended(kind, n)
      BY <3>1 DEF Seen
    <3>3. CASE kind = "delete"
      <4>1. M = L + 1 /\ queue'[M] = [wd |-> Descriptor(Parent[n]), kind |-> kind, name |-> n]
        BY <3>2 DEF Appended
      <4>2. /\ M \in 1..M /\ k < M /\ queue'[M].kind = "delete"
            /\ queue'[M].name = e.name /\ queue'[M].wd = e.wd
        BY <1>1, <2>5, <3>1, <3>3, <4>1
      <4> QED
        BY <4>2
    <3>4. CASE kind # "delete"
      <4>1. Exists(n)'
        BY <2>5, <3>4 DEF Seen
      <4>2. e.wd[1] = Parent[n] /\ e.wd = Descriptor(e.wd[1])'
        BY <1>a, <1>b, <2>1, <2>5
      <4> QED
        BY <2>5, <4>1, <4>2
    <3> QED
      BY <3>3, <3>4
  <2> QED
    BY <2>2, <2>3, <2>4, <2>5
<1>2. CASE k = L + 1
  <2>1. e.wd = Descriptor(Parent[n]) /\ e.name = n /\ kind = "create"
    BY <1>0, <1>2
  <2> QED
    BY <1>a, <1>b, <2>1 DEF Seen
<1> QED
  BY <1>1, <1>2

\* Reading an event, and whatever leaves the queue and the hierarchy alone,
\* keeps the order of the others.
LEMMA OrderRead ==
    ASSUME Ground, RemovalComesLast, MadeThenRemoved, UNCHANGED tree,
           queue # <<>>, queue' = Tail(queue)
    PROVE  RemovalComesLast' /\ MadeThenRemoved'
<1>1. /\ Len(queue) \in Nat \ {0} /\ Len(queue') = Len(queue) - 1
      /\ \A k \in 1..Len(queue') : k + 1 \in 1..Len(queue) /\ queue'[k] = queue[k + 1]
  BY Reading DEF Ground
<1>0. Len(queue') \in Nat
  BY <1>1
<1> PICK L \in Nat : L = Len(queue')
  BY <1>0
<1>2. Len(queue) = L + 1 /\ \A k \in 1..L : queue'[k] = queue[k + 1] /\ k + 1 \in 1..(L + 1)
  BY <1>1
<1>3. \A d : Exists(d)' = Exists(d) /\ Descriptor(d)' = Descriptor(d)
  BY DEF Exists, Descriptor, Incarnation
<1>4. \A j \in 1..(L + 1) : j > 1 => j - 1 \in 1..L /\ queue'[j - 1] = queue[j]
  <2> SUFFICES ASSUME NEW j \in 1..(L + 1), j > 1 PROVE j - 1 \in 1..L /\ queue'[j - 1] = queue[j]
    OBVIOUS
  <2>1. j - 1 \in 1..L /\ (j - 1) + 1 = j
    OBVIOUS
  <2> QED
    BY <1>2, <2>1
<1>5. RemovalComesLast'
  <2> SUFFICES ASSUME NEW k \in 1..L, NEW w, w = queue'[k].wd
               PROVE  /\ w # Descriptor(w[1]) => \E j \in 1..L :
                            k < j /\ queue'[j].kind = "delete" /\ queue'[j].name = w[1]
                      /\ \A j \in 1..L : k < j /\ queue'[j].kind = "delete" /\ queue'[j].name = w[1] =>
                            w # Descriptor(w[1]) /\ \A i \in 1..L : j < i => queue'[i].wd # w
    BY <1>3 DEF RemovalComesLast, Deletes
  <2>1. w = queue[k + 1].wd /\ k + 1 \in 1..(L + 1)
    BY <1>2
  <2>2. /\ w # Descriptor(w[1]) => \E j \in 1..(L + 1) : k + 1 < j /\ Deletes(w[1], j)
        /\ \A j \in 1..(L + 1) : k + 1 < j /\ Deletes(w[1], j) =>
              w # Descriptor(w[1]) /\ \A i \in 1..(L + 1) : j < i => queue[i].wd # w
    BY <1>2, <2>1 DEF RemovalComesLast
  <2>3. ASSUME w # Descriptor(w[1])
        PROVE  \E j \in 1..L : k < j /\ queue'[j].kind = "delete" /\ queue'[j].name = w[1]
    <3>1. PICK j \in 1..(L + 1) : k + 1 < j /\ Deletes(w[1], j)
      BY <2>2, <2>3
    <3>2. j - 1 \in 1..L /\ k < j - 1 /\ queue'[j - 1] = queue[j]
      BY <1>4, <3>1
    <3> QED
      BY <3>1, <3>2 DEF Deletes
  <2>4. ASSUME NEW j \in 1..L, k < j, queue'[j].kind = "delete", queue'[j].name = w[1]
        PROVE  w # Descriptor(w[1]) /\ \A i \in 1..L : j < i => queue'[i].wd # w
    <3>1. j + 1 \in 1..(L + 1) /\ k + 1 < j + 1 /\ Deletes(w[1], j + 1)
      BY <1>2, <2>4 DEF Deletes
    <3>2. w # Descriptor(w[1]) /\ \A i \in 1..(L + 1) : j + 1 < i => queue[i].wd # w
      BY <2>2, <3>1
    <3>3. \A i \in 1..L : j < i => i + 1 \in 1..(L + 1) /\ j + 1 < i + 1
      OBVIOUS
    <3> QED
      BY <1>2, <3>2, <3>3
  <2> QED
    BY <2>3, <2>4
<1>6. MadeThenRemoved'
  <2> SUFFICES ASSUME NEW k \in 1..L, NEW e, e = queue'[k], e.kind = "create"
               PROVE  \/ Exists(e.name) /\ e.wd = Descriptor(e.wd[1])
                      \/ \E j \in 1..L : /\ k < j /\ queue'[j].kind = "delete"
                                         /\ queue'[j].name = e.name /\ queue'[j].wd = e.wd
    BY <1>3 DEF MadeThenRemoved, Deletes
  <2>1. e = queue[k + 1] /\ k + 1 \in 1..(L + 1)
    BY <1>2
  <2>2. \/ Exists(e.name) /\ e.wd = Descriptor(e.wd[1])
        \/ \E j \in 1..(L + 1) : k + 1 < j /\ Deletes(e.name, j) /\ queue[j].wd = e.wd
    BY <1>2, <2>1 DEF MadeThenRemoved
  <2>3. CASE \E j \in 1..(L + 1) : k + 1 < j /\ Deletes(e.name, j) /\ queue[j].wd = e.wd
    <3>1. PICK j \in 1..(L + 1) : k + 1 < j /\ Deletes(e.name, j) /\ queue[j].wd = e.wd
      BY <2>3
    <3>2. j - 1 \in 1..L /\ k < j - 1 /\ queue'[j - 1] = queue[j]
      BY <1>4, <3>1
    <3> QED
      BY <3>1, <3>2 DEF Deletes
  <2> QED
    BY <2>2, <2>3
<1> QED
  BY <1>5, <1>6

LEMMA OrderUnchanged ==
    ASSUME RemovalComesLast, MadeThenRemoved, UNCHANGED <<tree, queue>>
    PROVE  RemovalComesLast' /\ MadeThenRemoved'
<1>1. \A d : Exists(d)' = Exists(d) /\ Descriptor(d)' = Descriptor(d)
  BY DEF Exists, Descriptor, Incarnation
<1> QED
  BY <1>1 DEF RemovalComesLast, MadeThenRemoved, Deletes
-----------------------------------------------------------------------------
(* What is still to be watched, while directories come and go.             *)

LEMMA TrackedInit == Init => \E t, P : Tracked(t, P)
<1> SUFFICES ASSUME Init PROVE \E t, P : Tracked(t, P)
  OBVIOUS
<1> DEFINE t == [d \in Dirs |-> 0]
           P == {d \in Dirs : Exists(d)}
<1>0. Typed /\ Hierarchy
  BY GroundInit DEF Ground
<1>1. queue = <<>> /\ todo = {Root} /\ ~emit /\ Len(queue) = 0
  BY DEF Init
<1>2. t \in [Dirs -> {0}] /\ \A d \in Dirs : t[d] = 0
  OBVIOUS
<1> HIDE DEF t
<1>3. Renewals(t)
  BY <1>1, <1>2, ParentType DEF Renewals
<1>4. Coming(P)
  <2>1. \A n \in P \ {Root} : Parent[n] \in P
    BY <1>0, ParentType DEF Hierarchy, Dirs
  <2> QED
    BY <1>1, <2>1 DEF Coming
<1>5. Settled(t, P)
  BY DEF Settled
<1>6. Removals(t)
  BY <1>1 DEF Removals
<1> QED
  BY <1>3, <1>4, <1>5, <1>6 DEF Tracked

\* The renewals after a change of directory n.
Adapts(t, P, u, Q, n, kind) ==
    /\ u \in [Dirs -> 0..Len(queue')]
    /\ \A d \in Dirs \ {n} : u[d] = t[d] /\ (d \in Q <=> d \in P)
    /\ Q \subseteq Dirs
    /\ kind = "delete" => n \notin Q
    /\ kind = "create" =>
          \/ Appended(kind, n) /\ u[n] = Len(queue) + 1 /\ n \notin Q
          \/ /\ Descriptor(Parent[n]) \notin kernel /\ queue' = queue
             /\ u[n] = t[Parent[n]] /\ (n \in Q <=> Parent[n] \in P)

\* What the changes of a directory leave alone.
Beside(n) ==
    /\ UNCHANGED <<watches, todo, scan, emit, last, startChanges>>
    /\ kernel' = kernel \ {Descriptor(n)}
    /\ Exists(Parent[n]) /\ ~Old(n)'
    /\ \A m \in Names \ {n} : tree'[m] = tree[m]

LEMMA RenewalsSeen ==
    ASSUME Ground, RemovalComesLast, NEW n \in Names, NEW kind \in {"create", "delete"},
           Seen(n, kind), Beside(n), NEW t, NEW P, NEW u, NEW Q,
           Renewals(t), Adapts(t, P, u, Q, n, kind)
    PROVE  Renewals(u)'
<1> PICK L \in Nat : L = Len(queue)
  BY DEF Ground, Typed
<1>0. \A k \in 1..L : queue'[k] = queue[k]
  BY DEF Seen, Appended
<1>a. \A d \in Dirs \ {n} : (Exists(d)' <=> Exists(d)) /\ Descriptor(d)' = Descriptor(d)
  BY DEF Seen
<1>b. t \in [Dirs -> 0..L] /\ t[Root] = 0
  BY DEF Renewals
<1>c. u \in [Dirs -> 0..Len(queue')] /\ \A d \in Dirs \ {n} : u[d] = t[d]
  BY DEF Adapts
<1>d. u[Root] = 0
  BY <1>b, <1>c, ParentType
<1> SUFFICES ASSUME NEW m \in Names, Exists(m)', NEW p \in Dirs, p = Parent[m]
             PROVE  /\ \/ u[m] = u[p]
                       \/ /\ u[m] > u[p]
                          /\ queue'[u[m]] = [wd |-> Descriptor(p)', kind |-> "create", name |-> m]
                    /\ \A k \in 1..Len(queue') :
                          queue'[k].kind = "delete" /\ queue'[k].name = m => k <= u[m]
  BY <1>c, <1>d, ParentType DEF Renewals, Deletes
<1>1. CASE m # n
  <2>1. Exists(m) /\ m \in Dirs
    BY <1>a, <1>1, ParentType
  <2>2. p # n
    BY <2>1 DEF Seen
  <2>3. u[m] = t[m] /\ u[p] = t[p] /\ Descriptor(p)' = Descriptor(p) /\ t[m] \in 0..L /\ t[p] \in 0..L
    BY <1>a, <1>b, <1>c, <1>1, <2>1, <2>2
  <2>4. /\ \/ t[m] = t[p]
           \/ t[m] > t[p] /\ queue[t[m]] = [wd |-> Descriptor(p), kind |-> "create", name |-> m]
        /\ \A k \in 1..L : Deletes(m, k) => k <= t[m]
    BY <2>1 DEF Renewals
  <2>5. t[m] > t[p] => t[m] \in 1..L
    BY <2>3
  <2>6. ASSUME NEW k \in 1..Len(queue'), queue'[k].kind = "delete", queue'[k].name = m
        PROVE  k <= u[m]
    <3>1. k \in 1..L
      BY <1>1, <2>6 DEF Seen, Appended
    <3> QED
      BY <1>0, <2>3, <2>4, <2>6, <3>1 DEF Deletes
  <2>7. t[m] > t[p] => queue'[t[m]] = queue[t[m]]
    BY <1>0, <2>5
  <2> QED
    BY <2>3, <2>4, <2>6, <2>7
<1>2. CASE m = n
  <2>1. kind = "create" /\ p # n /\ Exists(p)
    BY <1>2, ParentType DEF Seen, Beside
  <2>2. u[p] = t[p] /\ Descriptor(p)' = Descriptor(p) /\ t[p] \in 0..L
    BY <1>a, <1>b, <1>c, <2>1
  <2>3. CASE Appended(kind, n) /\ u[n] = L + 1
    <3>1. Len(queue') = L + 1 /\ queue'[L + 1] = [wd |-> Descriptor(p), kind |-> "create", name |-> n]
      BY <1>2, <2>1, <2>3 DEF Appended
    <3>2. u[m] > u[p] /\ queue'[u[m]] = [wd |-> Descriptor(p)', kind |-> "create", name |-> m]
      BY <1>2, <2>2, <2>3, <3>1
    <3>3. \A k \in 1..Len(queue') : k <= u[m]
      BY <1>2, <2>3, <3>1
    <3> QED
      BY <3>2, <3>3
  <2>4. CASE Descriptor(p) \notin kernel /\ queue' = queue /\ u[n] = t[p]
    <3>1. ASSUME NEW k \in 1..L, Deletes(n, k) PROVE k <= t[p]
      <4>1. queue[k].wd[1] = p /\ queue[k].wd # Descriptor(p)
        BY <1>2, <2>4, <3>1, EventFacts DEF Deletes
      <4>2. PICK j \in 1..L : k < j /\ Deletes(p, j)
        BY <4>1 DEF RemovalComesLast
      <4>3. p \in Names
        BY <4>2, EventFacts DEF Deletes
      <4>4. j <= t[p]
        BY <2>1, <4>2, <4>3 DEF Renewals
      <4> QED
        BY <2>2, <4>2, <4>4
    <3> QED
      BY <1>2, <2>2, <2>4, <3>1 DEF Deletes
  <2> QED
    BY <1>2, <2>1, <2>3, <2>4 DEF Adapts
<1> QED
  BY <1>1, <1>2

LEMMA ComingSeen ==
    ASSUME Ground, NEW n \in Names, NEW kind \in {"create", "delete"},
           Seen(n, kind), Beside(n), NEW t, NEW P, NEW u, NEW Q,
           Coming(P), Adapts(t, P, u, Q, n, kind)
    PROVE  Coming(Q)'
<1>0. \A d \in Dirs \ {n} : (Exists(d)' <=> Exists(d)) /\ (d \in Q <=> d \in P)
  BY DEF Seen, Adapts
<1>1. \A d \in Q : d \in Dirs /\ Exists(d)'
  <2>1. \A d \in Q \ {n} : d \in Dirs /\ Exists(d)'
    BY <1>0 DEF Adapts, Coming
  <2>2. n \in Q => Exists(n)'
    BY DEF Adapts, Seen
  <2> QED
    BY <2>1, <2>2, ParentType
<1>2. Root \in Q => Root \in todo'
  BY <1>0, ParentType DEF Coming, Beside
<1>3. ASSUME NEW m \in Q \ {Root} PROVE m \in todo' \/ scan' = Parent[m] \/ Parent[m] \in Q
  <2>0. m \in Names
    BY <1>1 DEF Dirs
  <2>1. CASE m = n
    <3>1. Parent[n] \in P /\ Parent[n] \in Dirs \ {n}
      BY <2>1, ParentType DEF Adapts
    <3> QED
      BY <1>0, <2>1, <3>1
  <2>2. CASE m # n
    <3>1. m \in P /\ Exists(m) /\ m \in Dirs
      BY <1>0, <2>0, <2>2, ParentType DEF Coming
    <3>2. Parent[m] \in Dirs \ {n}
      BY <2>0, <3>1, ParentType DEF Seen
    <3> QED
      BY <1>0, <3>1, <3>2 DEF Coming, Beside
  <2> QED
    BY <2>1, <2>2
<1> QED
  BY <1>1, <1>2, <1>3 DEF Coming

LEMMA SettledSeen ==
    ASSUME Ground, NEW n \in Names, NEW kind \in {"create", "delete"},
           Seen(n, kind), Beside(n), NEW t, NEW P, NEW u, NEW Q,
           Settled(t, P), Adapts(t, P, u, Q, n, kind)
    PROVE  Settled(u, Q)'
<1> SUFFICES ASSUME NEW d \in Dirs, Exists(d)', u[d] = 0, d \notin Q
             PROVE  Watched(d)' /\ (d # Root => Reported(d)')
  BY DEF Settled
<1>1. CASE d # n
  <2>1. Exists(d) /\ t[d] = 0 /\ d \notin P /\ Descriptor(d)' = Descriptor(d)
    BY <1>1 DEF Seen, Adapts
  <2>2. Descriptor(d) \in kernel \cap watches /\ (d # Root => Reported(d))
    BY <2>1 DEF Settled, Watched
  <2>3. Descriptor(d) # Descriptor(n)
    BY <1>1 DEF Descriptor
  <2>4. Watched(d)'
    BY <2>1, <2>2, <2>3 DEF Watched, Beside
  <2>5. d # Root => tree'[d] = tree[d]
    BY <1>1 DEF Beside, Dirs
  <2> QED
    BY <2>2, <2>4, <2>5 DEF Reported, Beside
<1>2. CASE d = n
  <2>1. kind = "create" /\ u[n] = 0 /\ n \notin Q
    BY <1>2 DEF Seen
  <2>2. Len(queue) \in Nat
    BY DEF Ground, Typed
  <2>3. Descriptor(Parent[n]) \notin kernel /\ t[Parent[n]] = 0 /\ Parent[n] \notin P
    BY <2>1, <2>2 DEF Adapts
  <2>4. Exists(Parent[n]) /\ Parent[n] \in Dirs
    BY ParentType DEF Beside
  <2> QED
    BY <2>3, <2>4 DEF Settled, Watched
<1> QED
  BY <1>1, <1>2

LEMMA RemovalsSeen ==
    ASSUME Ground, NEW n \in Names, NEW kind \in {"create", "delete"},
           Seen(n, kind), Beside(n), NEW t, NEW P, NEW u, NEW Q,
           Renewals(t), Removals(t), Adapts(t, P, u, Q, n, kind)
    PROVE  Removals(u)'
<1> PICK L \in Nat : L = Len(queue)
  BY DEF Ground, Typed
<1> PICK M : M = Len(queue')
  OBVIOUS
<1>0. (\A k \in 1..L : queue'[k] = queue[k]) /\ (M = L \/ M = L + 1)
  BY DEF Seen, Appended
<1>a. \A d \in Dirs \ {n} : /\ Exists(d)' <=> Exists(d)
                            /\ Descriptor(d)' = Descriptor(d) /\ u[d] = t[d]
  BY DEF Seen, Adapts
<1>b. \A k \in 1..L : k \in 1..M
  BY <1>0
<1> SUFFICES ASSUME NEW m \in Names, NEW p \in Dirs, p = Parent[m], emit, Old(p)',
                    \/ last[m] = "Added" /\ (~Exists(m)' \/ Descriptor(p)' \notin kernel')
                    \/ m \in todo /\ Descriptor(p)' \notin kernel'
             PROVE  \E k \in 1..M :
                       /\ queue'[k].kind = "delete" /\ queue'[k].name = m
                       /\ \/ queue'[k].wd = Descriptor(p)' /\ u[p] < k
                          \/ /\ queue'[k].wd \in watches
                             /\ \A j \in 1..M : j < k =>
                                   ~(queue'[j].kind = "delete" /\ queue'[j].name = p)
  <2>1. UNCHANGED <<watches, todo, emit, last>>
    BY DEF Beside
  <2> QED
    BY <2>1, ParentType DEF Removals, RemovalWaits, Deletes
<1>1. p # n
  BY DEF Beside
<1>2. Old(p) /\ Descriptor(p)' = Descriptor(p) /\ u[p] = t[p]
  <2>1. p # Root => tree'[p] = tree[p]
    BY <1>1 DEF Beside, Dirs
  <2> QED
    BY <1>a, <1>1, <2>1 DEF Old, Beside
<1>3. Descriptor(p) \in kernel' <=> Descriptor(p) \in kernel
  BY <1>1 DEF Beside, Descriptor
<1>4. CASE RemovalWaits(t, m)
  <2>1. PICK k \in 1..L : /\ Deletes(m, k)
                          /\ \/ queue[k].wd = Descriptor(p) /\ t[p] < k
                             \/ /\ queue[k].wd \in watches
                                /\ \A j \in 1..L : j < k => ~Deletes(p, j)
    BY <1>4 DEF RemovalWaits
  <2>2. \A j \in 1..M : j < k => j \in 1..L
    BY <1>0
  <2>3. /\ queue'[k].kind = "delete" /\ queue'[k].name = m
        /\ \/ queue'[k].wd = Descriptor(p)' /\ u[p] < k
           \/ /\ queue'[k].wd \in watches
              /\ \A j \in 1..M : j < k => ~(queue'[j].kind = "delete" /\ queue'[j].name = p)
    BY <1>0, <1>2, <2>1, <2>2 DEF Deletes
  <2> QED
    BY <1>b, <2>3
<1>5. CASE ~RemovalWaits(t, m)
  <2>1. last[m] = "Added" /\ Exists(m) /\ ~Exists(m)' /\ Descriptor(p) \in kernel
    BY <1>2, <1>3, <1>5 DEF Removals
  <2>2. m = n
    BY <1>a, <2>1, ParentType
  <2>3. kind = "delete" /\ Appended(kind, n)
    BY <2>1, <2>2 DEF Seen
  <2>4. M = L + 1 /\ queue'[M] = [wd |-> Descriptor(p), kind |-> "delete", name |-> m]
    BY <2>2, <2>3 DEF Appended
  <2>5. t[p] \in 0..L
    BY DEF Renewals
  <2> QED
    BY <1>2, <2>4, <2>5
<1> QED
  BY <1>4, <1>5

LEMMA TrackedSeen ==
    ASSUME Ground, RemovalComesLast, NEW n \in Names, NEW kind \in {"create", "delete"},
           Seen(n, kind), Beside(n), \E t, P : Tracked(t, P)
    PROVE  (\E t, P : Tracked(t, P))'
<1> PICK t, P : Tracked(t, P)
  OBVIOUS
<1> PICK L \in Nat : L = Len(queue)
  BY DEF Ground, Typed
<1>0. t \in [Dirs -> 0..L] /\ Parent[n] \in Dirs \ {n} /\ n \in Dirs /\ P \subseteq Dirs
  BY ParentType DEF Tracked, Renewals, Coming
<1>1. Len(queue') = L \/ Len(queue') = L + 1
  BY DEF Seen, Appended
<1>2. \E u, Q : Adapts(t, P, u, Q, n, kind)
  <2>1. t \in [Dirs -> 0..Len(queue')]
    BY <1>0, <1>1
  <2>2. CASE kind = "delete"
    <3>1. Adapts(t, P, t, P \ {n}, n, kind)
      BY <1>0, <2>1, <2>2 DEF Adapts
    <3> QED
      BY <3>1
  <2>3. CASE kind = "create" /\ Appended(kind, n)
    <3> DEFINE u == [t EXCEPT ![n] = L + 1]
    <3>1. /\ u \in [Dirs -> 0..Len(queue')] /\ u[n] = L + 1
          /\ \A d \in Dirs \ {n} : u[d] = t[d]
      BY <1>0, <2>1, <2>3 DEF Appended
    <3> HIDE DEF u
    <3>2. Adapts(t, P, u, P \ {n}, n, kind)
      BY <1>0, <2>3, <3>1 DEF Adapts
    <3> QED
      BY <3>2
  <2>4. CASE kind = "create" /\ ~Appended(kind, n)
    <3> DEFINE u == [t EXCEPT ![n] = t[Parent[n]]]
               Q == {d \in Dirs : IF d = n THEN Parent[n] \in P ELSE d \in P}
    <3>1. /\ u \in [Dirs -> 0..Len(queue')] /\ u[n] = t[Parent[n]]
          /\ \A d \in Dirs \ {n} : u[d] = t[d]
      BY <1>0, <2>1
    <3>2. Q \subseteq Dirs /\ (n \in Q <=> Parent[n] \in P) /\ \A d \in Dirs \ {n} : d \in Q <=> d \in P
      BY <1>0
    <3>3. queue' = queue /\ Descriptor(Parent[n]) \notin kernel
      BY <2>4 DEF Seen
    <3> HIDE DEF u, Q
    <3>4. Adapts(t, P, u, Q, n, kind)
      BY <2>4, <3>1, <3>2, <3>3 DEF Adapts
    <3> QED
      BY <3>4
  <2> QED
    BY <2>2, <2>3, <2>4
<1> PICK u, Q : Adapts(t, P, u, Q, n, kind)
  BY <1>2
<1>3. Renewals(u)'
  BY RenewalsSeen DEF Tracked
<1>4. Coming(Q)'
  BY ComingSeen DEF Tracked
<1>5. Settled(u, Q)'
  BY SettledSeen DEF Tracked
<1>6. Removals(u)'
  BY RemovalsSeen DEF Tracked
<1> QED
  BY <1>3, <1>4, <1>5, <1>6 DEF Tracked

LEMMA TrackedWatch ==
    ASSUME Ground, NEW d \in Dirs, Watch(d), NEW t, NEW P, Tracked(t, P)
    PROVE  Tracked(t, P \ {d})'
<1>0. /\ UNCHANGED <<tree, changes, queue, emit, startChanges>>
      /\ todo' = todo \ {d} /\ scan = Nowhere /\ scan' = d /\ d \in todo /\ Exists(d)
      /\ kernel' = kernel \cup {Descriptor(d)} /\ watches' = watches \cup {Descriptor(d)}
  BY DEF Watch, treeVars
<1>1. \A e : Exists(e)' = Exists(e) /\ Descriptor(e)' = Descriptor(e) /\ Old(e)' = Old(e)
  BY <1>0 DEF Exists, Descriptor, Incarnation, Old
<1>2. /\ \A m \in Names \ {d} : last'[m] = last[m]
      /\ d # Root /\ emit => last'[d] = "Added"
      /\ d # Root /\ ~emit => last'[d] = "none"
  BY DEF Watch, Ground, Typed, SilentAtFirst, Dirs
<1>3. Renewals(t)'
  BY <1>0, <1>1 DEF Tracked, Renewals, Deletes
<1>4. Coming(P \ {d})'
  <2>1. \A e \in P \ {d} : e \in Dirs /\ Exists(e)
    BY DEF Tracked, Coming
  <2>2. Root \in P \ {d} => Root \in todo \ {d}
    BY DEF Tracked, Coming
  <2>3. ASSUME NEW m \in (P \ {d}) \ {Root}
        PROVE  m \in todo \ {d} \/ d = Parent[m] \/ Parent[m] \in P \ {d}
    <3>1. m \in Names
      BY <2>1 DEF Dirs
    <3>2. m \in todo \/ scan = Parent[m] \/ Parent[m] \in P
      BY DEF Tracked, Coming
    <3>3. scan # Parent[m]
      BY <1>0, <3>1, ParentType, WatchAssumption
    <3> QED
      BY <3>2, <3>3
  <2> QED
    BY <1>0, <1>1, <2>1, <2>2, <2>3 DEF Coming
<1>5. Settled(t, P \ {d})'
  <2> SUFFICES ASSUME NEW e \in Dirs, Exists(e), t[e] = 0, e \notin P \ {d}
               PROVE  Descriptor(e) \in kernel' \cap watches' /\ (e # Root => Reported(e)')
    BY <1>1 DEF Settled, Watched
  <2>1. CASE e = d
    BY <1>0, <1>2, <2>1 DEF Reported
  <2>2. CASE e # d
    <3>1. Descriptor(e) \in kernel \cap watches /\ (e # Root => Reported(e))
      BY <2>2 DEF Tracked, Settled, Watched
    <3> QED
      BY <1>0, <1>2, <2>2, <3>1 DEF Reported, Dirs
  <2> QED
    BY <2>1, <2>2
<1>6. Removals(t)'
  <2>1. \A m \in Names : RemovalWaits(t, m) => RemovalWaits(t, m)'
    BY <1>0, <1>1 DEF RemovalWaits, Deletes
  <2> SUFFICES ASSUME NEW m \in Names, emit, Old(Parent[m]), Descriptor(Parent[m]) \notin kernel \/ ~Exists(m),
                      \/ last'[m] = "Added"
                      \/ m \in todo /\ Descriptor(Parent[m]) \notin kernel
               PROVE  RemovalWaits(t, m)
    BY <1>0, <1>1, <2>1 DEF Removals
  <2>2. CASE m = d
    BY <1>0, <2>2 DEF Tracked, Removals
  <2>3. CASE m # d
    BY <1>2, <2>3 DEF Tracked, Removals
  <2> QED
    BY <2>2, <2>3
<1> QED
  BY <1>3, <1>4, <1>5, <1>6 DEF Tracked

LEMMA TrackedWatchFails ==
    ASSUME Ground, NEW d \in Dirs, WatchFails(d), ~lost', NEW t, NEW P, Tracked(t, P)
    PROVE  Tracked(t, P)'
<1>0. /\ UNCHANGED <<tree, changes, queue, emit, startChanges, kernel, watches, last, scan>>
      /\ todo' = todo \ {d} /\ ~Exists(d)
  BY DEF WatchFails, treeVars
<1>1. \A e : Exists(e)' = Exists(e) /\ Descriptor(e)' = Descriptor(e) /\ Old(e)' = Old(e)
  BY <1>0 DEF Exists, Descriptor, Incarnation, Old
<1>2. Renewals(t)'
  BY <1>0, <1>1 DEF Tracked, Renewals, Deletes
<1>3. Coming(P)'
  <2>1. d \notin P /\ d # Root
    BY <1>0 DEF Tracked, Coming, Exists
  <2> QED
    BY <1>0, <1>1, <2>1 DEF Tracked, Coming
<1>4. Settled(t, P)'
  BY <1>0, <1>1 DEF Tracked, Settled, Watched, Reported
<1>5. Removals(t)'
  <2>1. \A m \in Names : RemovalWaits(t, m) => RemovalWaits(t, m)'
    BY <1>0, <1>1 DEF RemovalWaits, Deletes
  <2> QED
    BY <1>0, <1>1, <2>1 DEF Tracked, Removals
<1> QED
  BY <1>2, <1>3, <1>4, <1>5 DEF Tracked

LEMMA TrackedScan ==
    ASSUME Ground, Scan, NEW t, NEW P, Tracked(t, P)
    PROVE  Tracked(t, P)'
<1>0. /\ UNCHANGED <<tree, changes, queue, emit, startChanges, kernel, watches, last>>
      /\ todo' = todo \cup Children(scan) /\ scan # Nowhere
  BY DEF Scan, treeVars
<1>1. \A e : Exists(e)' = Exists(e) /\ Descriptor(e)' = Descriptor(e) /\ Old(e)' = Old(e)
  BY <1>0 DEF Exists, Descriptor, Incarnation, Old
<1>2. Renewals(t)'
  BY <1>0, <1>1 DEF Tracked, Renewals, Deletes
<1>3. Coming(P)'
  <2>1. \A e \in P : e \in Dirs /\ Exists(e)
    BY DEF Tracked, Coming
  <2>2. \A m \in P \ {Root} : scan = Parent[m] => m \in Children(scan)
    BY <2>1 DEF Children, Exists, Dirs
  <2>3. \A m \in P \ {Root} : m \in todo' \/ Parent[m] \in P
    BY <1>0, <2>2 DEF Tracked, Coming
  <2> QED
    BY <1>0, <1>1, <2>1, <2>3 DEF Tracked, Coming
<1>4. Settled(t, P)'
  BY <1>0, <1>1 DEF Tracked, Settled, Watched, Reported
<1>5. Removals(t)'
  <2>1. \A m \in Names : RemovalWaits(t, m) => RemovalWaits(t, m)'
    BY <1>0, <1>1 DEF RemovalWaits, Deletes
  <2>2. \A m \in Names : emit /\ Old(Parent[m]) /\ m \in Children(scan) => Descriptor(Parent[m]) \in kernel
    BY <1>0 DEF Children, Ground, ScanIsWatched
  <2> QED
    BY <1>0, <1>1, <2>1, <2>2 DEF Tracked, Removals
<1> QED
  BY <1>2, <1>3, <1>4, <1>5 DEF Tracked

LEMMA TrackedRegistered ==
    ASSUME Ground, Registered, NEW t, NEW P, Tracked(t, P)
    PROVE  Tracked(t, P)'
<1>0. /\ UNCHANGED <<tree, changes, queue, kernel, watches, last, todo, scan>>
      /\ ~emit /\ emit' /\ startChanges' = changes /\ todo = {}
  BY DEF Registered, treeVars, Idle
<1>1. \A e : Exists(e)' = Exists(e) /\ Descriptor(e)' = Descriptor(e)
  BY <1>0 DEF Exists, Descriptor, Incarnation
<1>2. Renewals(t)'
  BY <1>0, <1>1 DEF Tracked, Renewals, Deletes
<1>3. Coming(P)'
  BY <1>0, <1>1 DEF Tracked, Coming
<1>4. \A m \in Names : last[m] = "none" /\ tree[m] <= changes + 1
  BY <1>0 DEF Ground, SilentAtFirst, Hierarchy
<1>5. Settled(t, P)'
  BY <1>0, <1>1, <1>4 DEF Tracked, Settled, Watched, Reported, Dirs
<1>6. Removals(t)'
  BY <1>0, <1>4 DEF Removals
<1> QED
  BY <1>2, <1>3, <1>5, <1>6 DEF Tracked
-----------------------------------------------------------------------------
(* Reading an event.                                                       *)

\* When no call of watch_dir is under way, none is to come.
LEMMA NothingComing ==
    ASSUME Idle, NEW P, Coming(P)
    PROVE  P = {}
<1>1. Root \notin P
  BY DEF Coming, Idle
<1>2. P \in SUBSET Names
  BY <1>1 DEF Coming, Dirs
<1>3. \A m \in P : Parent[m] \in P
  <2> SUFFICES ASSUME NEW m \in P PROVE Parent[m] \in P
    OBVIOUS
  <2>1. Parent[m] \in Dirs
    BY <1>2, ParentType
  <2> QED
    BY <1>1, <2>1, WatchAssumption DEF Coming, Idle
<1> QED
  BY <1>2, <1>3, HierarchyAssumption

\* An event a directory waits for is not skipped.
LEMMA FirstRenewal ==
    ASSUME Ground, Idle, NEW t, NEW P, Tracked(t, P), NEW n \in Names, Exists(n), t[n] = 1
    PROVE  queue[1].kind = "create" /\ queue[1].wd \in watches
<1>0. P = {} /\ t \in [Dirs -> 0..Len(queue)] /\ Len(queue) \in Nat
  BY NothingComing DEF Tracked, Renewals, Ground, Typed
<1> DEFINE S == {m \in Names : Exists(m) /\ t[m] = 1}
<1>1. S \in SUBSET Names /\ S # {}
  OBVIOUS
<1>2. PICK m \in S : Parent[m] \notin S
  BY <1>1, HierarchyAssumption
<1> PICK p \in Dirs : p = Parent[m]
  BY <1>2, ParentType
<1>3. Exists(p) /\ t[p] # 1
  BY <1>2 DEF Ground, Hierarchy, Dirs, Tracked, Renewals
<1>4. t[m] > t[p] /\ queue[t[m]] = [wd |-> Descriptor(p), kind |-> "create", name |-> m]
  BY <1>2, <1>3 DEF Tracked, Renewals
<1>5. t[p] = 0 /\ t[m] = 1
  BY <1>0, <1>2, <1>4
<1>6. Descriptor(p) \in watches
  BY <1>0, <1>3, <1>5 DEF Tracked, Settled, Watched
<1> QED
  BY <1>4, <1>5, <1>6

LEMMA TrackedRead ==
    ASSUME Ground, RemovalComesLast, MadeThenRemoved, Skip \/ Created \/ Deleted,
           NEW t, NEW P, Tracked(t, P)
    PROVE  (\E u, Q : Tracked(u, Q))'
<1>0. /\ UNCHANGED <<tree, changes, kernel, scan, emit, startChanges>>
      /\ emit /\ Idle /\ queue # <<>> /\ queue' = Tail(queue)
  BY DEF Skip, Created, Deleted, treeVars, watchVars
<1> PICK L : L = Len(queue')
  OBVIOUS
<1>1. /\ L \in Nat /\ Len(queue) = L + 1
      /\ \A k \in 1..L : k + 1 \in 1..(L + 1) /\ queue'[k] = queue[k + 1]
      /\ Head(queue) = queue[1]
  BY <1>0, Reading DEF Ground
<1>2. queue[1] \in Events /\ 1 \in 1..Len(queue)
  BY <1>0, <1>1, Reading DEF Ground
<1>3. \A e : Exists(e)' = Exists(e) /\ Descriptor(e)' = Descriptor(e) /\ Old(e)' = Old(e)
  BY <1>0 DEF Exists, Descriptor, Incarnation, Old
<1>4. P = {} /\ t \in [Dirs -> 0..(L + 1)] /\ t[Root] = 0
  BY <1>0, <1>1, NothingComing DEF Tracked, Renewals
<1>5. /\ Created => queue[1].wd \in watches /\ queue[1].kind = "create" /\ todo' = {queue[1].name}
      /\ ~Created => todo' = {} /\ (queue[1].wd \notin watches \/ queue[1].kind = "delete")
  BY <1>1 DEF Skip, Created, Deleted, watchVars, Idle
<1>6. /\ Deleted => /\ Deletes(queue[1].name, 1) /\ queue[1].wd \in watches
                    /\ watches' = {w \in watches : w[1] # queue[1].name}
                    /\ last' = [last EXCEPT ![queue[1].name] = "Removed"]
      /\ ~Deleted => watches' = watches /\ last' = last
      /\ Skip => queue[1].wd \notin watches
  BY <1>1 DEF Skip, Created, Deleted, watchVars, Deletes
<1>7. Skip => ~Deleted /\ ~Created
  BY <1>5, <1>6
<1>8. PICK u : /\ u \in [Dirs -> 0..L]
               /\ \A d \in Dirs : IF t[d] = 0 THEN u[d] = 0 ELSE u[d] = t[d] - 1
               /\ u[Root] = 0
  <2> DEFINE v == [d \in Dirs |-> IF t[d] = 0 THEN 0 ELSE t[d] - 1]
  <2>1. /\ v \in [Dirs -> 0..L]
        /\ \A d \in Dirs : IF t[d] = 0 THEN v[d] = 0 ELSE v[d] = t[d] - 1
        /\ v[Root] = 0
    BY <1>1, <1>4, ParentType
  <2> HIDE DEF v
  <2> QED
    BY <2>1
<1> PICK Q : Q = {d \in Dirs : Exists(d) /\ t[d] = 1}
  OBVIOUS
<1>9. \A d \in Q : d \in Dirs /\ Exists(d) /\ t[d] = 1 /\ d \in Names
  BY <1>4 DEF Dirs
<1>10. \A d \in Dirs : Exists(d) /\ t[d] = 1 => d \in Q
  OBVIOUS
<1>11. Renewals(u)'
  <2> SUFFICES ASSUME NEW m \in Names, Exists(m), NEW p \in Dirs, p = Parent[m]
               PROVE  /\ \/ u[m] = u[p]
                         \/ /\ u[m] > u[p]
                            /\ queue'[u[m]] = [wd |-> Descriptor(p), kind |-> "create", name |-> m]
                      /\ \A k \in 1..L : queue'[k].kind = "delete" /\ queue'[k].name = m => k <= u[m]
    BY <1>3, <1>8, ParentType DEF Renewals, Deletes
  <2>1. /\ \/ t[m] = t[p]
           \/ t[m] > t[p] /\ queue[t[m]] = [wd |-> Descriptor(p), kind |-> "create", name |-> m]
        /\ \A k \in 1..(L + 1) : Deletes(m, k) => k <= t[m]
    BY <1>1 DEF Tracked, Renewals
  <2>2. m \in Dirs /\ t[m] \in 0..(L + 1) /\ t[p] \in 0..(L + 1)
    BY <1>4, ParentType
  <2>3. /\ IF t[m] = 0 THEN u[m] = 0 ELSE u[m] = t[m] - 1
        /\ IF t[p] = 0 THEN u[p] = 0 ELSE u[p] = t[p] - 1
    BY <1>8, <2>2
  <2>4. t[m] > 1 => queue'[t[m] - 1] = queue[t[m]]
    <3> SUFFICES ASSUME t[m] > 1 PROVE queue'[t[m] - 1] = queue[t[m]]
      OBVIOUS
    <3>1. t[m] - 1 \in 1..L /\ (t[m] - 1) + 1 = t[m]
      BY <1>1, <2>2
    <3> QED
      BY <1>1, <3>1
  <2>a. u[m] \in 0..L /\ u[p] \in 0..L
    BY <1>8, <2>2
  <2>5. \/ u[m] = u[p]
        \/ u[m] > u[p] /\ queue'[u[m]] = [wd |-> Descriptor(p), kind |-> "create", name |-> m]
    <3>1. CASE t[m] = t[p]
      BY <2>3, <3>1
    <3>2. CASE t[m] > t[p] /\ t[m] = 1
      BY <2>2, <2>3, <3>2
    <3>3. CASE t[m] > t[p] /\ t[m] # 1
      <4>1. t[m] > 1 /\ u[m] = t[m] - 1 /\ u[m] > u[p]
        BY <2>2, <2>3, <3>3
      <4>2. queue[t[m]] = [wd |-> Descriptor(p), kind |-> "create", name |-> m]
        BY <2>1, <2>2, <3>3
      <4>3. queue'[u[m]] = queue[t[m]]
        BY <2>4, <4>1
      <4> QED
        BY <4>1, <4>2, <4>3
    <3>4. t[m] = t[p] \/ t[m] > t[p]
      BY <2>1
    <3> QED
      BY <3>1, <3>2, <3>3, <3>4
  <2>6. ASSUME NEW k \in 1..L, queue'[k].kind = "delete", queue'[k].name = m
        PROVE  k <= u[m]
    <3>1. k + 1 \in 1..(L + 1) /\ Deletes(m, k + 1)
      BY <1>1, <2>6 DEF Deletes
    <3>2. k + 1 <= t[m]
      BY <2>1, <3>1
    <3>3. t[m] # 0 /\ u[m] = t[m] - 1
      BY <1>1, <2>2, <2>3, <3>2
    <3> QED
      BY <1>1, <2>2, <3>2, <3>3
  <2> QED
    BY <2>5, <2>6
<1>12. Coming(Q)'
  <2>1. ASSUME NEW m \in Q PROVE m \in todo' \/ Parent[m] \in Q
    <3>1. Created
      BY <1>0, <1>5, <1>9, FirstRenewal
    <3> PICK p \in Dirs : p = Parent[m]
      BY <1>9, ParentType
    <3>2. Exists(p)
      BY <1>9 DEF Ground, Hierarchy
    <3>3. CASE t[p] = 1
      BY <1>10, <3>2, <3>3
    <3>4. CASE t[p] # 1
      <4>1. queue[1] = [wd |-> Descriptor(p), kind |-> "create", name |-> m]
        BY <1>9, <3>4 DEF Tracked, Renewals
      <4> QED
        BY <1>5, <3>1, <4>1
    <3> QED
      BY <3>3, <3>4
  <2>2. Root \notin Q
    BY <1>4, <1>9
  <2> QED
    BY <1>3, <1>9, <2>1, <2>2 DEF Coming
<1>13. Settled(u, Q)'
  <2> SUFFICES ASSUME NEW d \in Dirs, Exists(d), u[d] = 0, d \notin Q
               PROVE  Descriptor(d) \in kernel \cap watches' /\ (d # Root => Reported(d)')
    BY <1>0, <1>3 DEF Settled, Watched
  <2>1. t[d] = 0
    <3>1. t[d] \in 0..(L + 1) /\ t[d] # 1
      BY <1>4, <1>10
    <3> QED
      BY <1>1, <1>8, <3>1
  <2>2. Descriptor(d) \in kernel \cap watches /\ (d # Root => Reported(d))
    BY <1>4, <2>1 DEF Tracked, Settled, Watched
  <2>3. Deleted => d # queue[1].name
    <3> SUFFICES ASSUME Deleted, d = queue[1].name PROVE FALSE
      OBVIOUS
    <3>1. d \in Names /\ Deletes(d, 1)
      BY <1>2, <1>6, EventParts
    <3>2. 1 <= t[d]
      BY <1>2, <3>1 DEF Tracked, Renewals
    <3> QED
      BY <2>1, <3>2
  <2>4. Descriptor(d) \in watches' /\ (d # Root => last'[d] = last[d])
    BY <1>6, <2>2, <2>3 DEF Descriptor, Ground, Typed, Dirs
  <2> QED
    BY <1>0, <2>2, <2>4 DEF Reported
<1>14. Removals(u)'
  <2> SUFFICES ASSUME NEW m \in Names, NEW p \in Dirs, p = Parent[m], Old(p),
                      \/ last'[m] = "Added" /\ (~Exists(m) \/ Descriptor(p) \notin kernel)
                      \/ m \in todo' /\ Descriptor(p) \notin kernel
               PROVE  \E k \in 1..L :
                         /\ queue'[k].kind = "delete" /\ queue'[k].name = m
                         /\ \/ queue'[k].wd = Descriptor(p) /\ u[p] < k
                            \/ /\ queue'[k].wd \in watches'
                               /\ \A j \in 1..L : j < k =>
                                     ~(queue'[j].kind = "delete" /\ queue'[j].name = p)
    <3> SUFFICES ASSUME NEW m \in Names, emit, Old(Parent[m]),
                        \/ last'[m] = "Added" /\ (~Exists(m) \/ Descriptor(Parent[m]) \notin kernel)
                        \/ m \in todo' /\ Descriptor(Parent[m]) \notin kernel
                 PROVE  RemovalWaits(u, m)'
      BY <1>0, <1>3, Zenon DEF Removals
    <3> QED
      BY <1>3, ParentType DEF RemovalWaits, Deletes
  <2>0. t[p] \in 0..(L + 1) /\ (t[p] = 0 => u[p] = 0) /\ (t[p] # 0 => u[p] = t[p] - 1)
    BY <1>4, <1>8
  <2>1. ASSUME NEW k \in 2..(L + 1), Deletes(m, k),
               \/ queue[k].wd = Descriptor(p) /\ t[p] < k
               \/ /\ queue[k].wd \in watches /\ queue[k].wd[1] = p
                  /\ \A j \in 1..(L + 1) : j < k => ~Deletes(p, j)
        PROVE  \E i \in 1..L :
                  /\ queue'[i].kind = "delete" /\ queue'[i].name = m
                  /\ \/ queue'[i].wd = Descriptor(p) /\ u[p] < i
                     \/ /\ queue'[i].wd \in watches'
                        /\ \A j \in 1..L : j < i =>
                              ~(queue'[j].kind = "delete" /\ queue'[j].name = p)
    <3> PICK i \in 1..L : i = k - 1
      BY <1>1
    <3>1. queue'[i] = queue[k] /\ i + 1 = k
      BY <1>1
    <3>2. ASSUME queue[k].wd = Descriptor(p), t[p] < k PROVE u[p] < i
      BY <1>1, <2>0, <3>2
    <3>3. ASSUME queue[k].wd \in watches, queue[k].wd[1] = p,
                 \A j \in 1..(L + 1) : j < k => ~Deletes(p, j)
          PROVE  /\ queue[k].wd \in watches'
                 /\ \A j \in 1..L : j < i => ~(queue'[j].kind = "delete" /\ queue'[j].name = p)
      <4>1. ~Deletes(p, 1)
        BY <1>1, <3>3
      <4>2. queue[k].wd \in watches'
        BY <1>6, <3>3, <4>1 DEF Deletes
      <4>3. ASSUME NEW j \in 1..L, j < i PROVE ~(queue'[j].kind = "delete" /\ queue'[j].name = p)
        <5>1. j + 1 \in 1..(L + 1) /\ j + 1 < k /\ queue'[j] = queue[j + 1]
          BY <1>1, <4>3
        <5> QED
          BY <3>3, <5>1 DEF Deletes
      <4> QED
        BY <4>2, <4>3
    <3> QED
      BY <2>1, <3>1, <3>2, <3>3 DEF Deletes
  <2>2. CASE RemovalWaits(t, m) /\ last'[m] = "Added"
    <3>1. PICK k \in 1..(L + 1) : /\ Deletes(m, k)
                                  /\ \/ queue[k].wd = Descriptor(p) /\ t[p] < k
                                     \/ /\ queue[k].wd \in watches
                                        /\ \A j \in 1..(L + 1) : j < k => ~Deletes(p, j)
      BY <1>1, <2>2 DEF RemovalWaits
    <3>2. k # 1
      <4> SUFFICES ASSUME k = 1 PROVE FALSE
        OBVIOUS
      <4>1. ~Deleted
        BY <1>6, <2>2, <3>1 DEF Deletes, Ground, Typed
      <4>2. queue[1].wd \notin watches
        BY <1>5, <1>6, <3>1, <4>1 DEF Deletes
      <4>3. queue[1].wd = Descriptor(p) /\ t[p] = 0
        BY <2>0, <3>1, <4>2
      <4>4. Descriptor(p) \in watches
        BY <1>4, <4>3 DEF Tracked, Settled, Watched, Old
      <4> QED
        BY <4>2, <4>3, <4>4
    <3>3. k \in 2..(L + 1)
      BY <1>1, <3>2
    <3>4. queue[k].wd[1] = p
      BY <1>1, <3>1, EventFacts DEF Deletes
    <3> QED
      BY <2>1, <3>1, <3>3, <3>4
  <2>3. CASE m \in todo' /\ Descriptor(p) \notin kernel
    <3>1. Created /\ m = queue[1].name /\ queue[1].wd \in watches /\ queue[1].kind = "create"
      BY <1>5, <2>3
    <3>2. queue[1].wd[1] = p /\ queue[1].wd # Descriptor(p)
      BY <1>2, <2>3, <3>1, EventFacts
    <3>3. PICK k \in 1..(L + 1) : 1 < k /\ Deletes(m, k) /\ queue[k].wd = queue[1].wd
      BY <1>1, <1>2, <3>1, <3>2 DEF MadeThenRemoved
    <3>4. ASSUME NEW j \in 1..(L + 1), j < k, Deletes(p, j) PROVE FALSE
      <4>1. j # 1
        BY <3>1, <3>4 DEF Deletes
      <4>2. 1 < j
        BY <4>1
      <4>3. queue[k].wd # queue[1].wd
        BY <1>1, <1>2, <3>2, <3>4, <4>2 DEF RemovalComesLast
      <4> QED
        BY <3>3, <4>3
    <3>5. k \in 2..(L + 1)
      BY <1>1, <3>3
    <3> QED
      BY <2>1, <3>1, <3>2, <3>3, <3>4, <3>5
  <2>4. last'[m] = "Added" => last[m] = "Added"
    BY <1>2, <1>6, EventParts DEF Ground, Typed
  <2>5. last'[m] = "Added" /\ (~Exists(m) \/ Descriptor(p) \notin kernel) => RemovalWaits(t, m)
    BY <1>0, <2>4 DEF Tracked, Removals
  <2> QED
    BY <2>2, <2>3, <2>5
<1> QED
  BY <1>11, <1>12, <1>13, <1>14 DEF Tracked
-----------------------------------------------------------------------------
(* What is proved of the specification.                                    *)

LEMMA InitInvariant == Init => IInv
<1> SUFFICES ASSUME Init PROVE IInv
  OBVIOUS
<1>1. Ground
  BY GroundInit
<1>2. RemovalComesLast /\ MadeThenRemoved
  BY DEF Init, RemovalComesLast, MadeThenRemoved
<1> QED
  BY <1>1, <1>2, TrackedInit DEF IInv

LEMMA StepInvariant == IInv /\ [Next]_vars => IInv'
<1> SUFFICES ASSUME IInv, [Next]_vars PROVE IInv'
  OBVIOUS
<1>0. Ground
  BY DEF IInv
<1>a. ASSUME ~lost, ~unseen PROVE RemovalComesLast /\ MadeThenRemoved /\ \E t, P : Tracked(t, P)
  BY <1>a DEF IInv
<1>1. ASSUME NEW n \in Names, Create(n) PROVE IInv'
  <2>1. Ground'
    BY <1>0, <1>1, GroundCreate
  <2>2. ASSUME ~lost', ~unseen' PROVE (RemovalComesLast /\ MadeThenRemoved /\ \E t, P : Tracked(t, P))'
    <3>1. Seen(n, "create")
      BY <1>0, <1>1, <2>2, SeenCreate
    <3>2. ~lost /\ ~unseen
      BY <1>0, <1>1, <2>2 DEF Create, Notify, Ground, Typed
    <3>3. Beside(n)
      <4>1. /\ tree'[n] = changes + 2 /\ Exists(Parent[n]) /\ ~Exists(n)
            /\ \A m \in Names \ {n} : tree'[m] = tree[m]
        BY <1>0, <1>1, Making, <3>1 DEF Create, Ground, Seen
      <4>2. UNCHANGED <<kernel, watches, todo, scan, emit, last, startChanges>>
        BY <1>1 DEF Create, watchVars
      <4>3. changes \in Nat /\ startChanges \in 0..changes /\ n # Root
        BY <1>0, ParentType DEF Ground, Typed, TreeTypeOK
      <4>4. ~Old(n)'
        BY <4>1, <4>2, <4>3 DEF Old
      <4>5. Descriptor(n) \notin kernel
        BY <3>1 DEF Seen
      <4> QED
        BY <4>1, <4>2, <4>4, <4>5 DEF Beside
    <3> QED
      BY <1>0, <1>a, <3>1, <3>2, <3>3, OrderSeen, MadeSeen, TrackedSeen
  <2> QED
    BY <2>1, <2>2 DEF IInv
<1>2. ASSUME NEW n \in Names, Destroy(n) PROVE IInv'
  <2>1. Ground'
    BY <1>0, <1>2, GroundDestroy
  <2>2. ASSUME ~lost', ~unseen' PROVE (RemovalComesLast /\ MadeThenRemoved /\ \E t, P : Tracked(t, P))'
    <3>1. Seen(n, "delete")
      BY <1>0, <1>2, <2>2, SeenDestroy
    <3>2. ~lost /\ ~unseen
      BY <1>0, <1>2, <2>2 DEF Destroy, Notify, Ground, Typed
    <3>3. Beside(n)
      <4>1. tree[n] # 0 /\ \A m \in Names \ {n} : tree'[m] = tree[m]
        BY <1>0, <1>2, Removing DEF Destroy, Ground
      <4>2. Exists(Parent[n])
        BY <1>0, <4>1 DEF Ground, Hierarchy, Exists
      <4>3. ~Old(n)'
        BY <3>1 DEF Old, Seen
      <4> QED
        BY <1>2, <4>1, <4>2, <4>3 DEF Beside, Destroy
    <3> QED
      BY <1>0, <1>a, <3>1, <3>2, <3>3, OrderSeen, MadeSeen, TrackedSeen
  <2> QED
    BY <2>1, <2>2 DEF IInv
<1>3. ASSUME NEW d \in Dirs, Watch(d) PROVE IInv'
  <2>1. Ground'
    BY <1>0, <1>3, GroundWatch
  <2>2. UNCHANGED <<tree, queue, lost, unseen>>
    BY <1>3 DEF Watch, treeVars
  <2>3. (\E t, P : Tracked(t, P)) => (\E t, P : Tracked(t, P))'
    BY <1>0, <1>3, TrackedWatch
  <2> QED
    BY <1>a, <2>1, <2>2, <2>3, OrderUnchanged DEF IInv
<1>4. ASSUME NEW d \in Dirs, WatchFails(d) PROVE IInv'
  <2>1. Ground'
    BY <1>0, <1>4, GroundCalls
  <2>2. UNCHANGED <<tree, queue, unseen>> /\ (lost => lost')
    BY <1>4 DEF WatchFails, treeVars
  <2>3. ~lost' => ((\E t, P : Tracked(t, P)) => (\E t, P : Tracked(t, P))')
    BY <1>0, <1>4, TrackedWatchFails
  <2> QED
    BY <1>a, <2>1, <2>2, <2>3, OrderUnchanged DEF IInv
<1>5. ASSUME Scan \/ Registered PROVE IInv'
  <2>1. Ground'
    BY <1>0, <1>5, GroundCalls
  <2>2. UNCHANGED <<tree, queue, lost, unseen>>
    BY <1>5 DEF Scan, Registered, treeVars
  <2>3. (\E t, P : Tracked(t, P)) => (\E t, P : Tracked(t, P))'
    BY <1>0, <1>5, TrackedScan, TrackedRegistered
  <2> QED
    BY <1>a, <2>1, <2>2, <2>3, OrderUnchanged DEF IInv
<1>6. ASSUME Skip \/ Created \/ Deleted PROVE IInv'
  <2>1. Ground'
    BY <1>0, <1>6, GroundRead
  <2>2. UNCHANGED <<tree, lost, unseen>> /\ queue # <<>> /\ queue' = Tail(queue)
    BY <1>6 DEF Skip, Created, Deleted, treeVars
  <2>3. ASSUME ~lost, ~unseen PROVE (RemovalComesLast /\ MadeThenRemoved /\ \E t, P : Tracked(t, P))'
    <3>1. RemovalComesLast /\ MadeThenRemoved /\ \E t, P : Tracked(t, P)
      BY <1>a, <2>3
    <3>2. (\E t, P : Tracked(t, P))'
      BY <1>0, <1>6, <3>1, TrackedRead
    <3> QED
      BY <1>0, <2>2, <3>1, <3>2, OrderRead
  <2> QED
    BY <2>1, <2>2, <2>3 DEF IInv
<1>7. CASE UNCHANGED vars
  <2>1. UNCHANGED <<tree, changes, kernel, queue, watches, todo, scan, emit, last, lost, unseen, startChanges>>
    BY <1>7 DEF vars
  <2>2. Ground'
    BY <1>0, <2>1 DEF Ground, Typed, TreeTypeOK, Hierarchy, KernelIsCurrent, SilentAtFirst,
                      FromWatches, ScanIsWatched, Old, Exists, Descriptor, Incarnation
  <2>3. \A t, P : Tracked(t, P) => Tracked(t, P)'
    <3> SUFFICES ASSUME NEW t, NEW P, Tracked(t, P) PROVE Tracked(t, P)'
      OBVIOUS
    <3>1. \A d : Exists(d)' = Exists(d) /\ Descriptor(d)' = Descriptor(d) /\ Old(d)' = Old(d)
      BY <2>1 DEF Exists, Descriptor, Incarnation, Old
    <3>2. Renewals(t)'
      BY <2>1, <3>1 DEF Tracked, Renewals, Deletes
    <3>3. Coming(P)'
      BY <2>1, <3>1 DEF Tracked, Coming
    <3>4. Settled(t, P)'
      BY <2>1, <3>1 DEF Tracked, Settled, Watched, Reported
    <3>5. \A m \in Names : RemovalWaits(t, m) => RemovalWaits(t, m)'
      BY <2>1, <3>1 DEF RemovalWaits, Deletes
    <3>6. Removals(t)'
      BY <2>1, <3>1, <3>5 DEF Tracked, Removals
    <3> QED
      BY <3>2, <3>3, <3>4, <3>6 DEF Tracked
  <2> QED
    BY <1>a, <2>1, <2>2, <2>3, OrderUnchanged DEF IInv
<1> QED
  BY <1>1, <1>2, <1>3, <1>4, <1>5, <1>6, <1>7 DEF Next, WatcherStep

\* The induction invariant.
THEOREM CgroupWatchInvariant == Spec => []IInv
BY InitInvariant, StepInvariant, PTL DEF Spec

\* A watcher that has caught up has nothing to come and nothing to renew.
LEMMA CaughtUpSettled ==
    ASSUME IInv, CaughtUp
    PROVE  \E t : Settled(t, {}) /\ Removals(t) /\ (\A d \in Dirs : t[d] = 0) /\ queue = <<>>
<1> PICK t, P : Tracked(t, P)
  BY DEF IInv, CaughtUp
<1>1. P = {} /\ Idle /\ queue = <<>>
  BY NothingComing DEF Tracked, CaughtUp
<1>2. t \in [Dirs -> 0..0]
  BY <1>1 DEF Tracked, Renewals
<1> QED
  BY <1>1, <1>2 DEF Tracked

\* A watcher that has caught up watches every directory under its present
\* incarnation and knows its path, however often directories were removed and
\* made again while their events waited (watch_dir, run).
THEOREM CgroupWatchLeavesNoGap == Spec => []EveryDirectoryWatched
<1>1. IInv => EveryDirectoryWatched
  BY CaughtUpSettled DEF EveryDirectoryWatched, Settled, Watched
<1> QED
  BY <1>1, CgroupWatchInvariant, PTL

\* A watcher that has caught up has told of every cgroup that was not there
\* when its registration ended, and of none of them that it is gone.
THEOREM CgroupWatchReportsAll == Spec => []EveryCgroupReported
<1>1. IInv => EveryCgroupReported
  <2> SUFFICES ASSUME IInv, CaughtUp, NEW n \in Names, Exists(n)
               PROVE  last[n] = "Added" \/ (last[n] = "none" /\ tree[n] <= startChanges + 1)
    BY DEF EveryCgroupReported
  <2> PICK t : Settled(t, {}) /\ \A d \in Dirs : t[d] = 0
    BY CaughtUpSettled
  <2> QED
    BY ParentType DEF Settled, Reported, CaughtUp
<1> QED
  BY <1>1, CgroupWatchInvariant, PTL

\* A removal is missed only where the parent has gone or is new as well.
THEOREM CgroupWatchReportsRemovals == Spec => []RemovalMissedOnlyWithParent
<1>1. IInv => RemovalMissedOnlyWithParent
  <2> SUFFICES ASSUME IInv, CaughtUp, NEW n \in Names, last[n] = "Added", ~Exists(n)
               PROVE  /\ Parent[n] # Root
                      /\ ~Exists(Parent[n]) \/ tree[Parent[n]] > startChanges + 1
    BY DEF RemovalMissedOnlyWithParent
  <2> PICK t : Removals(t) /\ queue = <<>>
    BY CaughtUpSettled
  <2>1. ~RemovalWaits(t, n)
    BY DEF RemovalWaits
  <2>2. ~Old(Parent[n])
    BY <2>1 DEF Removals, CaughtUp
  <2>3. Parent[n] # Root
    BY <2>2 DEF Old, Exists
  <2>4. Parent[n] \in Names /\ tree[Parent[n]] \in Nat /\ startChanges \in Nat
    BY <2>3, ParentType DEF Dirs, IInv, Ground, Typed, TreeTypeOK
  <2> QED
    BY <2>2, <2>3, <2>4 DEF Old
<1> QED
  BY <1>1, CgroupWatchInvariant, PTL
=============================================================================
