----------------------------- MODULE Filesystems -----------------------------
(***************************************************************************)
(* The file systems a sample tells about: FsService of                     *)
(* cadvisor-host/src/fs.rs, which reads /proc/self/mountinfo once, when    *)
(* the program starts.                                                     *)
(*                                                                         *)
(* A line of mountinfo is [at, type, source]: where, what and of which     *)
(* device.  Paths are sequences of characters.                             *)
(***************************************************************************)
EXTENDS Integers, Sequences, SequencesExt

Names == INSTANCE ContainerNames

\* supported_fs.
SupportedFs == {"btrfs", "ext2", "ext3", "ext4", "xfs", "zfs", "overlay", "tmpfs"}

\* A tmpfs is told by its mountpoint, since all have the same source.
DeviceOf(line) == IF line.type = "tmpfs" THEN line.at ELSE line.source

\* FsService::from_mountinfo: the first mount of each device, with its line.
Partitions(mountinfo) ==
    {[device |-> DeviceOf(mountinfo[i]), at |-> mountinfo[i].at, line |-> i] :
        i \in {j \in DOMAIN mountinfo :
                  /\ mountinfo[j].type \in SupportedFs
                  /\ \A k \in 1..(j - 1) : mountinfo[k].type \in SupportedFs
                                          => DeviceOf(mountinfo[k]) # DeviceOf(mountinfo[j])}}

\* Faulty variant of Covers: a mountpoint covers every path it begins.
CoversLetters(at, path) == IsPrefix(at, path)

\* The filter of partition_for_path.
Covers(at, path) == path = at \/ IsPrefix(Names!TrimEnd(at) \o <<"/">>, path)

\* FsService::partition_for_path, as a set of at most one partition; max_by_key
\* takes the last of the longest.
PartitionForPath(partitions, path) ==
    LET with == {p \in partitions : Covers(p.at, path)}
    IN  {p \in with :
            \A q \in with : Len(q.at) < Len(p.at) \/ (Len(q.at) = Len(p.at) /\ q.line <= p.line)}
-----------------------------------------------------------------------------
(* The kernel's mounts, in the order they were made.  Nothing is mounted   *)
(* over a directory that has another mount below it.                       *)

\* Path is the directory at, or below it.
Under(at, path) ==
    /\ IsPrefix(at, path)
    /\ at = path \/ at = Names!Root \/ path[Len(at) + 1] = "/"

\* The mount a path is on: the last one at the deepest mountpoint above it.
MountOf(mounts, path) ==
    LET above == {i \in DOMAIN mounts : Under(mounts[i].at, path)}
    IN  mounts[CHOOSE i \in above : \A j \in above :
                  \/ Len(mounts[j].at) < Len(mounts[i].at)
                  \/ Len(mounts[j].at) = Len(mounts[i].at) /\ j <= i]

\* statvfs, by the device whose figures it gives.
Statvfs(mounts, path) == DeviceOf(MountOf(mounts, path))
=============================================================================
