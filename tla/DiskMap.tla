------------------------------- MODULE DiskMap ------------------------------
(***************************************************************************)
(* The disk map of MachineInfo (cadvisor-manager/src/manager.rs note_disks *)
(* and refresh_machine_info, cadvisor-host/src/machine.rs disk_map_at):    *)
(* major:minor numbers to device names, re-scanned by every sample that    *)
(* meets an unknown device and by the periodic refresh.  Block devices     *)
(* come and go, and a number may be given to another device.               *)
(*                                                                         *)
(* A device name is abstracted to the number of its attachment.  io.stat   *)
(* lists the attached devices the container does I/O on.                   *)
(***************************************************************************)
EXTENDS Integers, FiniteSets

CONSTANTS
    Keys,        \* major:minor numbers
    Filtered,    \* those of loop, ram, sr and fd devices, which no scan keeps
    Samplers,    \* housekeeping tasks
    Refresher,   \* the machine info refresh
    MaxChanges,  \* bound on the number of devices attached or detached
    MaxFailures  \* bound on the refreshes and the reads of scans that fail

ASSUME DiskAssumption ==
    /\ IsFiniteSet(Keys)    \* a pair of 32-bit numbers each
    /\ Filtered \subseteq Keys
    /\ Refresher \notin Samplers
    /\ MaxChanges \in Nat /\ MaxFailures \in Nat

VARIABLES
    block,       \* /sys/block: the attachment of each number, 0 if there is none
    changes,     \* number of changes so far; numbers the attachments
    disk_map,    \* MachineInfo::disk_map, 0 where it has no entry
    disk_misses, \* Manager::disk_misses
    task,        \* position and local variables of the tasks
    failures,    \* number of refreshes and reads that failed
    rescans      \* history: scans by samplers since disk_misses was cleared

diskVars == <<block, changes, disk_map, disk_misses, task, failures, rescans>>

Tasks == Samplers \cup {Refresher}

\* io: the unknown devices of this sample; left: the numbers not scanned yet;
\* map: the scan so far.
NoDisks == [k \in Keys |-> 0]
At(label) == [pc |-> label, io |-> {}, left |-> {}, map |-> NoDisks]
Scanning(t) == [t EXCEPT !.pc = "scan", !.left = Keys, !.map = NoDisks]

Attached == {k \in Keys : block[k] # 0}

\* Manager::new scans before any task runs.
DiskInit ==
    /\ changes = 0 /\ failures = 0 /\ rescans = 0
    /\ block \in [Keys -> 0..1]
    /\ disk_map = [k \in Keys |-> IF k \in Filtered THEN 0 ELSE block[k]]
    /\ disk_misses = {}
    /\ task = [p \in Tasks |-> At("idle")]
-----------------------------------------------------------------------------
(* The devices.                                                            *)

Attach(k) ==
    /\ changes < MaxChanges
    /\ block[k] = 0
    /\ block' = [block EXCEPT ![k] = changes + 2]
    /\ changes' = changes + 1
    /\ UNCHANGED <<disk_map, disk_misses, task, failures, rescans>>

Detach(k) ==
    /\ changes < MaxChanges
    /\ block[k] # 0
    /\ block' = [block EXCEPT ![k] = 0]
    /\ changes' = changes + 1
    /\ UNCHANGED <<disk_map, disk_misses, task, failures, rescans>>
-----------------------------------------------------------------------------
(* disk_map_at, on behalf of p: one entry of /sys/block at a time.         *)

Scanned(t, ks, map) ==
    [pc |-> IF t.left = ks THEN "write" ELSE "scan", io |-> t.io, left |-> t.left \ ks, map |-> map]

ScanEntry(p, k) ==
    /\ task[p].pc = "scan" /\ k \in task[p].left
    /\ task' = [task EXCEPT ![p] =
                  Scanned(@, {k}, [@.map EXCEPT ![k] = IF k \in Filtered THEN 0 ELSE block[k]])]
    /\ UNCHANGED <<block, changes, disk_map, disk_misses, failures, rescans>>

\* An entry whose dev cannot be read is left out, and so are all that are left
\* when the directory cannot: nobody is told.
ScanFails(p) ==
    /\ task[p].pc = "scan"
    /\ failures < MaxFailures
    /\ failures' = failures + 1
    /\ \E lost \in {{k} : k \in task[p].left} \cup {task[p].left} :
          task' = [task EXCEPT ![p] = Scanned(@, lost, @.map)]
    /\ UNCHANGED <<block, changes, disk_map, disk_misses, rescans>>
-----------------------------------------------------------------------------
(* note_disks, called by sample with the devices of io.stat.               *)

\* unknown_disks, under the read lock; nothing unknown, nothing to do.
Look(p, io) ==
    /\ task[p].pc = "idle"
    /\ LET unknown == {k \in io : disk_map[k] = 0}
       IN  task' = IF unknown = {} THEN task
                   ELSE [task EXCEPT ![p] = [At("note") EXCEPT !.io = unknown]]
    /\ UNCHANGED <<block, changes, disk_map, disk_misses, failures, rescans>>

\* Faulty variant of Note: a device that was missed before is scanned for again.
NoteAlways(p) ==
    /\ task[p].pc = "note"
    /\ disk_misses' = disk_misses \cup task[p].io
    /\ task' = [task EXCEPT ![p] = Scanning(task[p])]
    /\ rescans' = rescans + 1
    /\ UNCHANGED <<block, changes, disk_map, failures>>

\* disk_misses grows, or every unknown device has been scanned for before.
Note(p) ==
    /\ task[p].pc = "note"
    /\ disk_misses' = disk_misses \cup task[p].io
    /\ IF task[p].io \subseteq disk_misses
       THEN task' = [task EXCEPT ![p] = At("idle")] /\ UNCHANGED rescans
       ELSE task' = [task EXCEPT ![p] = Scanning(task[p])] /\ rescans' = rescans + 1
    /\ UNCHANGED <<block, changes, disk_map, failures>>

\* The map is replaced by the scan.
WriteMap(p) ==
    /\ task[p].pc = "write"
    /\ disk_map' = task[p].map
    /\ task' = [task EXCEPT ![p] = At("idle")]
    /\ UNCHANGED <<block, changes, disk_misses, failures, rescans>>
-----------------------------------------------------------------------------
(* refresh_machine_info.                                                   *)

RefreshTick ==
    /\ task[Refresher].pc = "idle"
    /\ task' = [task EXCEPT ![Refresher] = Scanning(At("scan"))]
    /\ UNCHANGED <<block, changes, disk_map, disk_misses, failures, rescans>>

\* Another part of machine_info fails: the old info is kept.
RefreshFails ==
    /\ task[Refresher].pc = "scan"
    /\ failures < MaxFailures
    /\ failures' = failures + 1
    /\ task' = [task EXCEPT ![Refresher] = At("idle")]
    /\ UNCHANGED <<block, changes, disk_map, disk_misses, rescans>>

\* Faulty variant of RefreshWrite: the disk map is carried over.
RefreshWriteKeeps ==
    /\ task[Refresher].pc = "write"
    /\ task' = [task EXCEPT ![Refresher] = At("clear")]
    /\ UNCHANGED <<block, changes, disk_map, disk_misses, failures, rescans>>

RefreshWrite ==
    /\ task[Refresher].pc = "write"
    /\ disk_map' = task[Refresher].map
    /\ task' = [task EXCEPT ![Refresher] = At("clear")]
    /\ UNCHANGED <<block, changes, disk_misses, failures, rescans>>

RefreshClear ==
    /\ task[Refresher].pc = "clear"
    /\ disk_misses' = {}
    /\ rescans' = 0
    /\ task' = [task EXCEPT ![Refresher] = At("idle")]
    /\ UNCHANGED <<block, changes, disk_map, failures>>

ScanStep(p) == \E k \in Keys : ScanEntry(p, k)
RefreshStep == RefreshTick \/ ScanStep(Refresher) \/ RefreshWrite \/ RefreshClear
NoteStep(p) == Note(p) \/ ScanStep(p) \/ WriteMap(p)

DiskNext ==
    \/ \E k \in Keys : Attach(k) \/ Detach(k)
    \/ \E p \in Samplers : NoteStep(p) \/ \E io \in SUBSET Attached : Look(p, io)
    \/ RefreshStep \/ RefreshFails
    \/ \E p \in Tasks : ScanFails(p)

DiskSpec == DiskInit /\ [][DiskNext]_diskVars

\* The tasks are polled, and the refresh ticks again and again.
FairDiskSpec == DiskSpec /\ WF_diskVars(RefreshStep) /\ \A p \in Samplers : WF_diskVars(NoteStep(p))
-----------------------------------------------------------------------------
(* Properties *)

\* Samples scan at most once for every device they miss between two refreshes,
\* however many samples miss it, at once or later: a device that is filtered
\* out does not make every sample scan (note_disks).
OncePerNewDevice == rescans <= Cardinality(disk_misses)

\* What a fresh scan would find.
Truth == [k \in Keys |-> IF k \in Filtered THEN 0 ELSE block[k]]

\* Once no device comes or goes the map becomes what a fresh scan would find
\* and stays so, whichever scans overtook each other or lost entries, and although a
\* number may have been given to another device (refresh_machine_info).
MapFollows == <>[](disk_map = Truth)
=============================================================================
