----------------------------- MODULE CgroupTree -----------------------------
(***************************************************************************)
(* The cgroup-v2 hierarchy as cadvisor sees it: directories that other     *)
(* programs create and remove at any moment.  External to cadvisor; only   *)
(* what CgroupReader and CgroupWatcher ask of it is modelled (existence,   *)
(* the sub-directories of a directory, the identity of an incarnation).    *)
(* cgroup v2 has no rename, so a directory never moves.                    *)
(***************************************************************************)
EXTENDS Integers

CONSTANTS
    Names,       \* cgroups other than the root
    Root,        \* the root cgroup "/", which always exists
    Parent,      \* the cgroup a cgroup is a direct child of
    MaxChanges   \* bound on the number of directories created or removed

ASSUME TreeAssumption ==
    /\ Root \notin Names
    /\ Parent \in [Names -> Names \cup {Root}]
    /\ MaxChanges \in Nat

\* Whatever cgroups one takes, one of them is not below another of them.
ASSUME HierarchyAssumption ==
    \A S \in SUBSET Names : S # {} => \E n \in S : Parent[n] \notin S

VARIABLES
    tree,        \* the incarnation of each cgroup, 0 when it does not exist
    changes      \* number of changes so far; numbers the incarnations

treeVars == <<tree, changes>>

Exists(n) == n # Root => tree[n] # 0

Children(d) == {n \in Names : Parent[n] = d /\ tree[n] # 0}

TreeTypeOK ==
    /\ tree \in [Names -> Nat]
    /\ changes \in 0..MaxChanges

\* Any subset closed under parents may exist before cadvisor starts.
TreeInit ==
    /\ changes = 0
    /\ tree \in [Names -> 0..1]
    /\ \A n \in Names : tree[n] # 0 /\ Parent[n] # Root => tree[Parent[n]] # 0

Mkdir(n) ==
    /\ changes < MaxChanges
    /\ tree[n] = 0 /\ Exists(Parent[n])
    /\ tree' = [tree EXCEPT ![n] = changes + 2]
    /\ changes' = changes + 1

\* The kernel refuses to remove a cgroup that has children.
Rmdir(n) ==
    /\ changes < MaxChanges
    /\ tree[n] # 0 /\ Children(n) = {}
    /\ tree' = [tree EXCEPT ![n] = 0]
    /\ changes' = changes + 1
=============================================================================
