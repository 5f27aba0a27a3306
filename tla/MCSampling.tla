----------------------------- MODULE MCSampling -----------------------------
EXTENDS Sampling

MCFollow == [root |-> 2, raw |-> 3, runtime |-> 1]

\* In the layer 1: a directory 2 with a file 4 that has a second link 5 in the
\* layer, and a mount 3 with a file 6 of the same number on its device.
MCParent == <<1, 1, 1, 2, 1, 3>>
MCInode ==
    [n \in 1..6 |->
        [dev |-> IF n \in {3, 6} THEN 2 ELSE 1,
         ino |-> IF n \in {4, 5, 6} THEN 4 ELSE n,
         blocks |-> n - IF n = 5 THEN 1 ELSE 0,
         directory |-> n \in {1, 2, 3}]]

\* The layer is under /va; /v shares letters with it and is another directory.
V == <<"/", "v">>
Va == <<"/", "v", "a">>
MCLayer == <<"/", "v", "a", "/", "l">>
MountLine(at, type, source) == [at |-> at, type |-> type, source |-> source]
OnRoot == MountLine(<<"/">>, "ext4", <<"sda">>)
Disks == <<OnRoot, MountLine(V, "ext4", <<"sdb">>), MountLine(<<"/", "p">>, "proc", <<"proc">>)>>
Tmpfs == <<OnRoot, MountLine(V, "tmpfs", <<"tmpfs">>), MountLine(Va, "tmpfs", <<"tmpfs">>)>>
Bound == <<OnRoot, MountLine(V, "ext4", <<"sdb">>), MountLine(Va, "ext4", <<"sdb">>)>>
\* One device under another's mount and over it again, at one mountpoint.
Stacked == <<OnRoot, MountLine(V, "ext4", <<"sdb">>), MountLine(Va, "ext4", <<"sdc">>),
             MountLine(Va, "ext4", <<"sdd">>), MountLine(Va, "ext4", <<"sdc">>)>>
MCMountinfo == [root |-> {Tmpfs, Bound}, raw |-> {Disks}, runtime |-> {Disks, Bound, Stacked}]
MCMountable == {MountLine(V, "xfs", <<"sdc">>), MountLine(Va, "ext4", <<"sdb">>)}
=============================================================================
