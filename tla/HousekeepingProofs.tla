------------------------- MODULE HousekeepingProofs -------------------------
(***************************************************************************)
(* Proofs about the two modules around a sample: Housekeeping, for any     *)
(* settings, any limits and anything that happens to the cgroup - what the *)
(* loop reports and how long it sleeps - and DiskMap, for any devices, any *)
(* number of tasks and any number of changes - what disk_misses saves      *)
(* note_disks from.                                                        *)
(***************************************************************************)
EXTENDS Housekeeping, DiskMap, FiniteSetTheorems, TLAPS

Pcs == {"top", "limits", "activity", "events", "publish", "check", "sleep", "returned"}
Reading == [inc : Nat, activity : Nat, oom : Nat]

\* The sample that counts: the one about to be published, or the last one that
\* was, if any.
Latest == IF pc = "publish" THEN {sample} ELSE prev

\* The reports made and the one that publishing makes.
Reports == IF pc = "publish" /\ OomWentUp THEN reported + 1 ELSE reported

Group(exists, inc, activity, oom, files) ==
    [exists |-> exists, inc |-> inc, activity |-> activity, oom |-> oom, files |-> files]

Types ==
    /\ pc \in Pcs
    /\ cgroup = Group(cgroup.exists, cgroup.inc, cgroup.activity, cgroup.oom, cgroup.files)
    /\ cgroup.exists \in BOOLEAN
    /\ cgroup.inc \in Nat \ {0} /\ cgroup.activity \in Nat /\ cgroup.oom \in Nat
    /\ sample \in Reading /\ prev \in SUBSET Reading
    /\ prev = {} \/ \E p \in prev : prev = {p}
    /\ reported \in Nat /\ kills \in Nat

\* No sample is of an incarnation to come.
Aged == \A p \in Latest : p.inc <= cgroup.inc

\* What the cgroup has counted since the sample, or all of it if the sample is
\* of another incarnation and the next one may be of this, is not reported yet.
Unreported ==
    /\ cgroup.oom <= kills /\ Reports <= kills
    /\ \A p \in Latest :
          p.inc = cgroup.inc => p.oom <= cgroup.oom /\ Reports <= kills - (cgroup.oom - p.oom)
    /\ cgroup.exists /\ (\A p \in Latest : p.inc # cgroup.inc) => Reports <= kills - cgroup.oom

IInv == Types /\ Aged /\ Unreported
-----------------------------------------------------------------------------
(* The types.                                                              *)

\* What happens to the cgroup, field by field.
LEMMA CgroupSteps ==
    ASSUME Types
    PROVE  /\ Work => cgroup' = Group(cgroup.exists, cgroup.inc, cgroup.activity + 1, cgroup.oom, cgroup.files)
           /\ Kill => cgroup' = Group(cgroup.exists, cgroup.inc, cgroup.activity, cgroup.oom + 1, cgroup.files)
           /\ Vanish => cgroup' = Group(FALSE, cgroup.inc, cgroup.activity, cgroup.oom, cgroup.files)
           /\ Reappear => cgroup' = Group(TRUE, cgroup.inc + 1, 0, 0, NewFiles)
<1>1. Work => cgroup' = Group(cgroup.exists, cgroup.inc, cgroup.activity + 1, cgroup.oom, cgroup.files)
  BY DEF Types, Work, Group
<1>2. Kill => cgroup' = Group(cgroup.exists, cgroup.inc, cgroup.activity, cgroup.oom + 1, cgroup.files)
  BY DEF Types, Kill, Group
<1>3. Vanish => cgroup' = Group(FALSE, cgroup.inc, cgroup.activity, cgroup.oom, cgroup.files)
  BY DEF Types, Vanish, Group
<1>4. Reappear => cgroup' = Group(TRUE, cgroup.inc + 1, 0, 0, NewFiles)
  BY DEF Types, Reappear, NewCgroup, Group
<1> QED
  BY <1>1, <1>2, <1>3, <1>4

LEMMA LimitSteps ==
    ASSUME Types, NEW limit, SetMemory(limit) \/ SetQuota(limit)
    PROVE  \E files : cgroup' = Group(cgroup.exists, cgroup.inc, cgroup.activity, cgroup.oom, files)
<1>1. CASE SetMemory(limit)
  <2>1. cgroup' = Group(cgroup.exists, cgroup.inc, cgroup.activity, cgroup.oom,
                        [cgroup.files EXCEPT !.memory_max = {limit}])
    BY <1>1 DEF Types, SetMemory, Group
  <2> QED
    BY <2>1
<1>2. CASE SetQuota(limit)
  <2>1. cgroup' = Group(cgroup.exists, cgroup.inc, cgroup.activity, cgroup.oom,
                        [cgroup.files EXCEPT !.cpu_max = {limit}])
    BY <1>2 DEF Types, SetQuota, Group
  <2> QED
    BY <2>1
<1> QED
  BY <1>1, <1>2

\* A cgroup of the right types is one again after it changed.
GroupTypes(g) ==
    /\ g = Group(g.exists, g.inc, g.activity, g.oom, g.files)
    /\ g.exists \in BOOLEAN /\ g.inc \in Nat \ {0} /\ g.activity \in Nat /\ g.oom \in Nat

LEMMA GroupIsTyped ==
    ASSUME NEW exists \in BOOLEAN, NEW inc \in Nat \ {0}, NEW activity \in Nat, NEW oom \in Nat, NEW files
    PROVE  GroupTypes(Group(exists, inc, activity, oom, files))
BY DEF GroupTypes, Group

LEMMA StepTypes == Types /\ [Next]_vars => Types'
<1> SUFFICES ASSUME Types, [Next]_vars PROVE Types'
  OBVIOUS
<1> USE DEF Types
<1>1. CASE Work \/ Kill \/ Vanish \/ Reappear
  <2>1. PICK exists \in BOOLEAN, inc \in Nat \ {0}, activity \in Nat, oom \in Nat, files \in {cgroup.files, NewFiles} :
           cgroup' = Group(exists, inc, activity, oom, files)
    <3>1. /\ cgroup.activity + 1 \in Nat /\ cgroup.oom + 1 \in Nat /\ cgroup.inc + 1 \in Nat \ {0}
          /\ 0 \in Nat
      OBVIOUS
    <3> QED
      BY <1>1, <3>1, CgroupSteps, Zenon
  <2>2. GroupTypes(cgroup')
    BY <2>1, GroupIsTyped, Zenon
  <2>3. UNCHANGED loopVars /\ kills' \in Nat
    BY <1>1 DEF Work, Kill, Vanish, Reappear, Happens
  <2> QED
    BY <2>2, <2>3 DEF GroupTypes, Group, loopVars
<1>2. ASSUME NEW limit, SetMemory(limit) \/ SetQuota(limit) PROVE Types'
  <2>1. PICK files : cgroup' = Group(cgroup.exists, cgroup.inc, cgroup.activity, cgroup.oom, files)
    BY <1>2, LimitSteps
  <2>2. GroupTypes(cgroup')
    BY <2>1, GroupIsTyped
  <2>3. UNCHANGED loopVars /\ kills' = kills
    BY <1>2 DEF SetMemory, SetQuota, Happens
  <2> QED
    BY <2>2, <2>3 DEF GroupTypes, Group, loopVars
<1>3. CASE MinutePasses \/ Refresh \/ RefreshLimits \/ ReadFails \/ CheckExists \/ Wake
  BY <1>3 DEF MinutePasses, Refresh, RefreshLimits, ReadFails, CheckExists, Wake, Pcs
<1>4. CASE ReadActivity
  <2>1. sample' = [Blank EXCEPT !.activity = IF cgroup.exists THEN cgroup.activity ELSE 0]
    BY <1>4 DEF ReadActivity
  <2>2. sample' \in Reading
    BY <2>1 DEF Blank, Reading
  <2> QED
    BY <1>4, <2>2 DEF ReadActivity, Pcs
<1>5. CASE ReadEvents
  <2>1. sample' = [inc |-> IF cgroup.exists THEN cgroup.inc ELSE 0, activity |-> sample.activity,
                   oom |-> IF cgroup.exists THEN cgroup.oom ELSE 0]
    BY <1>5 DEF ReadEvents, Reading
  <2>2. sample' \in Reading
    BY <2>1 DEF Reading
  <2> QED
    BY <1>5, <2>2 DEF ReadEvents, Pcs
<1>6. CASE Publish
  BY <1>6 DEF Publish, Pcs
<1>7. CASE UNCHANGED vars
  BY <1>7 DEF vars, loopVars
<1> QED
  BY <1>1, <1>2, <1>3, <1>4, <1>5, <1>6, <1>7 DEF Next, LoopStep
-----------------------------------------------------------------------------
(* The reports.                                                            *)

\* The cgroup, its samples and the reports stay as they are.
LEMMA SameReports ==
    ASSUME Aged /\ Unreported, UNCHANGED <<cgroup, kills>>, Latest' = Latest, Reports' = Reports
    PROVE  Aged' /\ Unreported'
BY DEF Aged, Unreported

LEMMA Untouched ==
    ASSUME UNCHANGED <<prev, sample, reported, pc>>
    PROVE  Latest' = Latest /\ Reports' = Reports
BY DEF Latest, Reports, OomWentUp

LEMMA ReportTypes ==
    ASSUME Types
    PROVE  Reports \in Nat /\ Latest \in SUBSET Reading
BY DEF Types, Latest, Reports

LEMMA ChangeUnreported ==
    ASSUME IInv, Work \/ Kill \/ Vanish \/ Reappear
    PROVE  Aged' /\ Unreported'
<1>1. Latest' = Latest /\ Reports' = Reports
  BY Untouched DEF Work, Kill, Vanish, Reappear, Happens, loopVars
<1>2. PICK R \in Nat : Reports = R
  BY ReportTypes DEF IInv
<1>3. PICK L \in SUBSET Reading : Latest = L
  BY ReportTypes DEF IInv
<1>4. PICK i \in Nat, o \in Nat, k \in Nat : cgroup.inc = i /\ cgroup.oom = o /\ kills = k
  BY DEF IInv, Types
<1>5. /\ o <= k /\ R <= k
      /\ \A p \in L : p.inc <= i
      /\ \A p \in L : p.inc = i => p.oom <= o /\ R <= k - (o - p.oom)
      /\ cgroup.exists /\ (\A p \in L : p.inc # i) => R <= k - o
  BY <1>2, <1>3, <1>4 DEF IInv, Aged, Unreported
<1>6. \A p \in L : p.inc \in Nat /\ p.oom \in Nat
  BY DEF Reading
<1> SUFFICES /\ cgroup'.oom <= kills' /\ R <= kills'
             /\ \A p \in L : p.inc <= cgroup'.inc
             /\ \A p \in L : p.inc = cgroup'.inc =>
                               p.oom <= cgroup'.oom /\ R <= kills' - (cgroup'.oom - p.oom)
             /\ cgroup'.exists /\ (\A p \in L : p.inc # cgroup'.inc) => R <= kills' - cgroup'.oom
  BY <1>1, <1>2, <1>3 DEF Aged, Unreported
<1>7. CASE Work
  <2>1. cgroup'.exists = cgroup.exists /\ cgroup'.inc = i /\ cgroup'.oom = o /\ kills' = k
    BY <1>4, <1>7, CgroupSteps DEF Work, Group, IInv
  <2> QED
    BY <1>5, <2>1
<1>8. CASE Kill
  <2>1. cgroup'.exists = cgroup.exists /\ cgroup'.inc = i /\ cgroup'.oom = o + 1 /\ kills' = k + 1
    BY <1>4, <1>8, CgroupSteps DEF Kill, Group, IInv
  <2> QED
    BY <1>5, <1>6, <2>1
<1>9. CASE Vanish
  <2>1. cgroup'.exists = FALSE /\ cgroup'.inc = i /\ cgroup'.oom = o /\ kills' = k
    BY <1>4, <1>9, CgroupSteps DEF Vanish, Group, IInv
  <2> QED
    BY <1>5, <2>1
<1>10. CASE Reappear
  <2>1. cgroup'.exists = TRUE /\ cgroup'.inc = i + 1 /\ cgroup'.oom = 0 /\ kills' = k
    BY <1>4, <1>10, CgroupSteps DEF Reappear, Group, IInv
  <2> QED
    BY <1>5, <1>6, <2>1
<1> QED
  BY <1>7, <1>8, <1>9, <1>10

\* The sample that is read says how many kills of this incarnation the cgroup
\* has counted; more than the last one said, and publishing it makes a report.
LEMMA ReadUnreported ==
    ASSUME IInv, ReadEvents
    PROVE  Aged' /\ Unreported'
<1>1. PICK i \in Nat, o \in Nat, k \in Nat, R \in Nat :
         cgroup.inc = i /\ cgroup.oom = o /\ kills = k /\ reported = R
  BY DEF IInv, Types
<1>2. i # 0 /\ prev \in SUBSET Reading /\ (prev = {} \/ \E p \in prev : prev = {p})
  BY <1>1 DEF IInv, Types
<1>3. Latest = prev /\ Reports = R
  BY <1>1 DEF ReadEvents, Latest, Reports
<1>4. /\ o <= k /\ R <= k
      /\ \A p \in prev : p.inc <= i
      /\ \A p \in prev : p.inc = i => p.oom <= o /\ R <= k - (o - p.oom)
      /\ cgroup.exists /\ (\A p \in prev : p.inc # i) => R <= k - o
  BY <1>1, <1>3 DEF IInv, Aged, Unreported
<1>5. \A p \in prev : p.inc \in Nat /\ p.oom \in Nat
  BY <1>2 DEF Reading
<1>6. sample' = [inc |-> IF cgroup.exists THEN i ELSE 0, activity |-> sample.activity,
                 oom |-> IF cgroup.exists THEN o ELSE 0]
  BY <1>1 DEF ReadEvents, Reading, IInv, Types
<1>7. Latest' = {sample'} /\ Reports' = (IF \E p \in prev : sample'.oom > p.oom THEN R + 1 ELSE R)
  BY <1>1 DEF ReadEvents, Latest, Reports, OomWentUp
<1>8. cgroup' = cgroup /\ kills' = k
  BY <1>1 DEF ReadEvents
<1>9. CASE cgroup.exists
  <2>1. sample'.inc = i /\ sample'.oom = o
    BY <1>6, <1>9
  <2>2. Reports' <= k
    <3>1. CASE \E p \in prev : o > p.oom
      <4>1. PICK p \in prev : o > p.oom
        BY <3>1
      <4>2. CASE p.inc = i
        BY <1>4, <1>5, <1>7, <2>1, <4>1, <4>2
      <4>3. CASE p.inc # i
        <5>1. \A q \in prev : q.inc # i
          BY <1>2, <4>1, <4>3
        <5> QED
          BY <1>4, <1>5, <1>7, <1>9, <2>1, <4>1, <5>1
      <4> QED
        BY <4>2, <4>3
    <3>2. CASE ~\E p \in prev : o > p.oom
      BY <1>4, <1>7, <2>1, <3>2
    <3> QED
      BY <3>1, <3>2
  <2> QED
    BY <1>1, <1>4, <1>7, <1>8, <2>1, <2>2 DEF Aged, Unreported
<1>10. CASE ~cgroup.exists
  <2>1. sample'.inc = 0 /\ sample'.oom = 0
    BY <1>6, <1>10
  <2>2. Reports' = R
    BY <1>5, <1>7, <2>1
  <2> QED
    BY <1>1, <1>2, <1>4, <1>7, <1>8, <1>10, <2>1, <2>2 DEF Aged, Unreported
<1> QED
  BY <1>9, <1>10

LEMMA StepUnreported == IInv /\ [Next]_vars => Aged' /\ Unreported'
<1> SUFFICES ASSUME IInv, [Next]_vars PROVE Aged' /\ Unreported'
  OBVIOUS
<1>1. ASSUME NEW limit, SetMemory(limit) \/ SetQuota(limit) PROVE Aged' /\ Unreported'
  <2>1. Latest' = Latest /\ Reports' = Reports
    BY <1>1, Untouched DEF SetMemory, SetQuota, Happens, loopVars
  <2>2. cgroup'.exists = cgroup.exists /\ cgroup'.inc = cgroup.inc /\ cgroup'.oom = cgroup.oom
    BY <1>1, LimitSteps DEF IInv, Group
  <2>3. kills' = kills
    BY <1>1 DEF SetMemory, SetQuota
  <2> QED
    BY <2>1, <2>2, <2>3 DEF IInv, Aged, Unreported
<1>2. CASE MinutePasses \/ UNCHANGED vars
  BY <1>2, Untouched, SameReports DEF IInv, MinutePasses, vars, loopVars
<1>3. CASE Refresh \/ RefreshLimits \/ ReadActivity \/ ReadFails \/ CheckExists \/ Wake
  <2>1. Latest' = Latest /\ Reports' = Reports
    BY <1>3 DEF Refresh, RefreshLimits, ReadActivity, ReadFails, CheckExists, Wake, Latest, Reports
  <2>2. UNCHANGED <<cgroup, kills>>
    BY <1>3 DEF Refresh, RefreshLimits, ReadActivity, ReadFails, CheckExists, Wake
  <2> QED
    BY <2>1, <2>2, SameReports DEF IInv
<1>4. CASE Publish
  <2>1. Latest' = Latest /\ Reports' = Reports
    BY <1>4 DEF Publish, Latest, Reports
  <2> QED
    BY <1>4, <2>1, SameReports DEF IInv, Publish
<1> QED
  BY <1>1, <1>2, <1>3, <1>4, ChangeUnreported, ReadUnreported DEF Next, LoopStep

LEMMA InitInvariant == Init => IInv
<1> SUFFICES ASSUME Init PROVE IInv
  OBVIOUS
<1>1. cgroup = Group(TRUE, 1, 0, 0, NewFiles)
  BY DEF Init, NewCgroup, Group
<1>2. GroupTypes(cgroup)
  BY <1>1 DEF GroupTypes, Group
<1>3. Types
  BY <1>2 DEF Init, Types, GroupTypes, Pcs, Blank, Reading
<1>4. Latest = {} /\ Reports = 0
  BY DEF Init, Latest, Reports
<1> QED
  BY <1>1, <1>3, <1>4 DEF IInv, Aged, Unreported, Init, Group

\* Whatever is killed, removed and made again between the reads of an
\* iteration, there are never more oom/oomKill pairs than kills (housekeeping,
\* the comparison with the previous sample).
THEOREM HousekeepingReportsTrueKills == Spec => []NoPhantomKill
<1>1. IInv /\ [Next]_vars => IInv'
  BY StepTypes, StepUnreported DEF IInv
<1>2. IInv => NoPhantomKill
  BY DEF IInv, Types, Unreported, Reports, NoPhantomKill
<1> QED
  BY InitInvariant, <1>1, <1>2, PTL DEF Spec
-----------------------------------------------------------------------------
(* The interval.                                                           *)

\* A power of two counts the subsets of 1..n: every subset of 1..n+1 either is
\* one of them or one of them with n+1 added.
LEMMA PowerDoubles ==
    ASSUME NEW n \in Nat
    PROVE  2^n \in Nat /\ 2^(n + 1) = 2 * 2^n
<1> DEFINE Few == SUBSET (1..n)
           Added == {T \cup {n + 1} : T \in Few}
           add == [T \in Few |-> T \cup {n + 1}]
<1>1. IsFiniteSet(1..n) /\ Cardinality(1..n) = n
  BY FS_Interval
<1>2. IsFiniteSet(1..(n + 1)) /\ Cardinality(1..(n + 1)) = n + 1
  BY FS_Interval
<1>3. IsFiniteSet(Few) /\ Cardinality(Few) = 2^n
  BY <1>1, FS_SUBSET
<1>4. Cardinality(SUBSET (1..(n + 1))) = 2^(n + 1)
  BY <1>2, FS_SUBSET
<1>5. add \in Bijection(Few, Added)
  <2>1. add \in [Few -> Added]
    OBVIOUS
  <2>2. \A T \in Few : n + 1 \notin T
    OBVIOUS
  <2>3. \A T, U \in Few : add[T] = add[U] => T = U
    BY <2>2
  <2>4. \A U \in Added : \E T \in Few : add[T] = U
    OBVIOUS
  <2> QED
    BY <2>1, <2>3, <2>4 DEF Bijection, Injection, Surjection, IsInjective
<1>6. IsFiniteSet(Added) /\ Cardinality(Added) = Cardinality(Few)
  BY <1>3, <1>5, FS_Bijection DEF ExistsBijection
<1>7. SUBSET (1..(n + 1)) = Few \cup Added
  <2>1. ASSUME NEW T \in SUBSET (1..(n + 1)), T \notin Few PROVE T \in Added
    <3>1. n + 1 \in T
      BY <2>1
    <3>2. T \ {n + 1} \in Few
      BY <2>1
    <3>3. T = (T \ {n + 1}) \cup {n + 1}
      BY <3>1
    <3> QED
      BY <3>2, <3>3
  <2>2. 1..n \subseteq 1..(n + 1) /\ n + 1 \in 1..(n + 1)
    OBVIOUS
  <2>3. Few \subseteq SUBSET (1..(n + 1)) /\ Added \subseteq SUBSET (1..(n + 1))
    BY <2>2, Zenon
  <2> QED
    BY <2>1, <2>3
<1>8. Few \cap Added = {}
  OBVIOUS
<1> HIDE DEF Few, Added, add
<1>9. Cardinality(Few \cup Added) = Cardinality(Few) + Cardinality(Added) - Cardinality({})
  BY <1>3, <1>6, <1>8, FS_Union
<1>10. Cardinality({}) = 0 /\ Cardinality(Few) \in Nat
  BY <1>3, FS_EmptySet, FS_CardinalityType
<1>11. Cardinality(Few \cup Added) = 2 * Cardinality(Few)
  <2>1. PICK c \in Nat : Cardinality(Few) = c
    BY <1>10, Zenon
  <2>2. Cardinality(Few \cup Added) = c + c - 0
    BY <1>6, <1>9, <1>10, <2>1, Zenon
  <2> QED
    BY <2>1, <2>2
<1> QED
  BY <1>3, <1>4, <1>7, <1>10, <1>11, Zenon

\* The settings are those of the flags, and the count of idle samples is cut
\* where the interval has reached the maximum.
Paced == cfg \in Configs /\ idle \in 0..MaxIdle /\ IntervalDoubles

\* One doubling more, of an interval that may have been cut already.
LEMMA DoubledOnceMore ==
    ASSUME NEW base \in Nat \ {0}, NEW max \in Nat \ {0}, base * 2^MaxIdle >= max,
           NEW n \in 0..MaxIdle,
           NEW now, now = IF n = 0 THEN base ELSE Lesser(base * 2^n, max)
    PROVE  Lesser(now * 2, max) = Lesser(base * 2^Lesser(n + 1, MaxIdle), max)
<1>1. n \in Nat /\ MaxIdle \in Nat \ {0} /\ 0 \in Nat
  BY HousekeepingAssumption
<1>2. 2^0 = 1
  OBVIOUS
<1>3. CASE n = 0
  <2>1. Lesser(n + 1, MaxIdle) = 0 + 1
    BY <1>1, <1>3 DEF Lesser
  <2>2. PICK q : q = 2^(0 + 1)
    OBVIOUS
  <2>3. q = 2 * 2^0
    BY <1>1, <2>2, PowerDoubles, Zenon
  <2>4. q = 2
    BY <1>2, <2>3
  <2>5. now = base
    BY <1>3
  <2>6. now * 2 = base * q
    BY <2>4, <2>5
  <2> QED
    BY <2>1, <2>2, <2>6, Zenon
<1>4. CASE n # 0 /\ n < MaxIdle
  <2>1. Lesser(n + 1, MaxIdle) = n + 1
    BY <1>1, <1>4 DEF Lesser
  <2>2. PICK p \in Nat : p = 2^n
    BY <1>1, PowerDoubles, Zenon
  <2>3. PICK q : q = 2^(n + 1)
    OBVIOUS
  <2>4. q = 2 * p
    BY <1>1, <2>2, <2>3, PowerDoubles, Zenon
  <2>5. now = Lesser(base * p, max)
    BY <1>4, <2>2, Zenon
  <2>6. PICK b \in Nat : b = base * p
    BY <2>2
  <2>7. base * q = b * 2
    BY <2>4, <2>6
  <2>8. Lesser(Lesser(b, max) * 2, max) = Lesser(b * 2, max)
    BY DEF Lesser
  <2> QED
    BY <2>1, <2>3, <2>5, <2>6, <2>7, <2>8, Zenon
<1>5. CASE n = MaxIdle
  <2>1. Lesser(n + 1, MaxIdle) = MaxIdle
    BY <1>1, <1>5 DEF Lesser
  <2>2. PICK p \in Nat : p = 2^MaxIdle
    BY <1>1, PowerDoubles, Zenon
  <2>3. base * p >= max
    BY <2>2, Zenon
  <2>4. Lesser(base * p, max) = max
    BY <2>2, <2>3 DEF Lesser
  <2>5. n # 0
    BY <1>1, <1>5
  <2>6. now = max
    BY <1>5, <2>2, <2>4, <2>5, Zenon
  <2>7. Lesser(max * 2, max) = max
    BY DEF Lesser
  <2> QED
    BY <2>1, <2>2, <2>4, <2>6, <2>7, Zenon
<1> QED
  BY <1>1, <1>3, <1>4, <1>5

LEMMA StepPaced == Paced /\ [Next]_vars => Paced'
<1> SUFFICES ASSUME Paced, [Next]_vars PROVE Paced'
  OBVIOUS
<1>1. CASE UNCHANGED <<cfg, interval, idle>>
  BY <1>1 DEF Paced, IntervalDoubles
<1>2. CASE Publish
  <2>1. cfg' = cfg /\ interval' = IF cfg.dynamic THEN NextInterval ELSE interval
    BY <1>2 DEF Publish
  <2>2. cfg.base \in Nat \ {0} /\ cfg.max \in Nat \ {0} /\ cfg.base * 2^MaxIdle >= cfg.max
    BY HousekeepingAssumption DEF Paced
  <2>3. CASE ~Unchanged
    <3>1. idle' = 0 /\ 0 \in 0..MaxIdle
      BY <1>2, <2>3, HousekeepingAssumption DEF Publish
    <3>2. interval' = cfg.base
      BY <2>1, <2>3 DEF NextInterval, Paced, IntervalDoubles
    <3> QED
      BY <2>1, <3>1, <3>2 DEF Paced, IntervalDoubles
  <2>4. CASE Unchanged
    <3>1. idle' = Lesser(idle + 1, MaxIdle)
      BY <1>2, <2>4 DEF Publish
    <3>2. idle' \in 0..MaxIdle /\ idle' # 0
      BY <3>1, HousekeepingAssumption DEF Lesser, Paced
    <3>3. CASE ~cfg.dynamic
      BY <2>1, <3>2, <3>3 DEF Paced, IntervalDoubles
    <3>4. CASE cfg.dynamic
      <4>1. interval = IF idle = 0 THEN cfg.base ELSE Lesser(cfg.base * 2^idle, cfg.max)
        BY <3>4 DEF Paced, IntervalDoubles
      <4>2. Lesser(interval * 2, cfg.max) = Lesser(cfg.base * 2^Lesser(idle + 1, MaxIdle), cfg.max)
        BY <2>2, <4>1, DoubledOnceMore DEF Paced
      <4>3. interval' = Lesser(interval * 2, cfg.max)
        BY <2>1, <2>4, <3>4 DEF NextInterval
      <4>4. interval' = Lesser(cfg'.base * 2^idle', cfg'.max)
        BY <2>1, <3>1, <4>2, <4>3, Zenon
      <4> QED
        BY <2>1, <3>2, <3>4, <4>4 DEF Paced, IntervalDoubles
    <3> QED
      BY <3>3, <3>4
  <2> QED
    BY <2>3, <2>4
<1>3. \/ UNCHANGED <<cfg, interval, idle>>
      \/ Publish
  BY DEF Next, LoopStep, vars, loopVars, Work, Kill, Vanish, Reappear, SetMemory, SetQuota, Happens,
         MinutePasses, Refresh, RefreshLimits, ReadActivity, ReadEvents, ReadFails, CheckExists, Wake
<1> QED
  BY <1>1, <1>2, <1>3

\* The interval is the base doubled once for every sample in a row that changed
\* nothing, cut at the maximum, and a change brings it back to the base, for
\* any settings: a base above the maximum, too (housekeeping).
THEOREM HousekeepingDoubles == Spec => []IntervalDoubles
<1>1. Init => Paced
  BY HousekeepingAssumption DEF Init, Paced, IntervalDoubles
<1>2. Paced => IntervalDoubles
  BY DEF Paced
<1> QED
  BY <1>1, <1>2, StepPaced, PTL DEF Spec
-----------------------------------------------------------------------------
(* DiskMap.                                                                *)

\* Only device numbers are noted, by a task or for all of them.
Noted ==
    /\ disk_misses \subseteq Keys
    /\ DOMAIN task = Tasks
    /\ \A p \in Tasks : "io" \in DOMAIN task[p] /\ task[p].io \subseteq Keys

DiskInv == Noted /\ rescans \in Nat /\ OncePerNewDevice

\* Sets of device numbers are finite, and one that is extended by a number it
\* lacked is larger than before.
LEMMA NotedIsFinite ==
    ASSUME NEW S \in SUBSET Keys
    PROVE  IsFiniteSet(S) /\ Cardinality(S) \in Nat
BY DiskAssumption, FS_Subset, FS_CardinalityType

LEMMA NotedGrows ==
    ASSUME NEW S \in SUBSET Keys, NEW T \in SUBSET Keys, ~(T \subseteq S)
    PROVE  Cardinality(S) + 1 <= Cardinality(S \cup T)
<1>1. PICK k \in T : k \notin S
  OBVIOUS
<1>2. Cardinality(S \cup {k}) = Cardinality(S) + 1
  BY <1>1, NotedIsFinite, FS_AddElement
<1>3. Cardinality(S \cup {k}) <= Cardinality(S \cup T)
  BY NotedIsFinite, FS_Subset
<1> QED
  BY <1>2, <1>3

\* A task that goes on scanning keeps what it has noted, an idle one has noted
\* nothing.
LEMMA ScanningKeeps ==
    \A t : "io" \in DOMAIN t => "io" \in DOMAIN Scanning(t) /\ Scanning(t).io = t.io
BY DEF Scanning

LEMMA IdleNotes ==
    \A label : "io" \in DOMAIN At(label) /\ At(label).io = {}
BY DEF At

LEMMA DiskInitInvariant == DiskInit => DiskInv
<1> SUFFICES ASSUME DiskInit PROVE DiskInv
  OBVIOUS
<1>1. Cardinality({}) = 0
  BY FS_EmptySet
<1> QED
  BY <1>1 DEF DiskInit, DiskInv, Noted, OncePerNewDevice, At

\* A task moves, keeping the devices it has noted or noting others; nothing is
\* said of them yet.
LEMMA TaskInvariant ==
    ASSUME DiskInv, UNCHANGED <<disk_misses, rescans>>,
           DOMAIN task' = Tasks,
           \A p \in Tasks : "io" \in DOMAIN task'[p] /\ task'[p].io \subseteq Keys
    PROVE  DiskInv'
BY DEF DiskInv, Noted, OncePerNewDevice

\* What a task does in which it does not touch disk_misses.
LEMMA QuietInvariant ==
    ASSUME DiskInv, NEW p \in Tasks,
           \/ \E k \in Keys : ScanEntry(p, k)
           \/ ScanFails(p)
           \/ \E io \in SUBSET Attached : Look(p, io)
           \/ WriteMap(p) \/ RefreshTick \/ RefreshFails \/ RefreshWrite
    PROVE  DiskInv'
<1>0. /\ DOMAIN task = Tasks /\ Refresher \in Tasks
      /\ \A q \in Tasks : "io" \in DOMAIN task[q] /\ task[q].io \subseteq Keys
  BY DEF DiskInv, Noted, Tasks
<1>1. ASSUME NEW k \in Keys, ScanEntry(p, k) PROVE DiskInv'
  <2>1. UNCHANGED <<disk_misses, rescans>> /\ DOMAIN task' = Tasks
    BY <1>0, <1>1 DEF ScanEntry
  <2>2. \A q \in Tasks : "io" \in DOMAIN task'[q] /\ task'[q].io = task[q].io
    BY <1>0, <1>1 DEF ScanEntry, Scanned
  <2> QED
    BY <1>0, <2>1, <2>2, TaskInvariant
<1>2. ASSUME NEW io \in SUBSET Attached, Look(p, io) PROVE DiskInv'
  <2>1. UNCHANGED <<disk_misses, rescans>> /\ DOMAIN task' = Tasks
    BY <1>0, <1>2 DEF Look
  <2>2. \A q \in Tasks : "io" \in DOMAIN task'[q] /\ task'[q].io \subseteq Keys
    BY <1>0, <1>2 DEF Look, At, Attached
  <2> QED
    BY <2>1, <2>2, TaskInvariant
<1>3. CASE WriteMap(p) \/ RefreshTick \/ RefreshFails \/ RefreshWrite
  <2>1. UNCHANGED <<disk_misses, rescans>> /\ DOMAIN task' = Tasks
    BY <1>0, <1>3 DEF WriteMap, RefreshTick, RefreshFails, RefreshWrite
  <2>2. \A q \in Tasks : "io" \in DOMAIN task'[q] /\ task'[q].io \subseteq Keys
    BY <1>0, <1>3, ScanningKeeps, IdleNotes DEF WriteMap, RefreshTick, RefreshFails, RefreshWrite
  <2> QED
    BY <2>1, <2>2, TaskInvariant
<1>4. CASE ScanFails(p)
  <2>1. PICK lost : task' = [task EXCEPT ![p] = Scanned(@, lost, @.map)]
    BY <1>4 DEF ScanFails
  <2>2. UNCHANGED <<disk_misses, rescans>> /\ DOMAIN task' = Tasks
    BY <1>0, <1>4, <2>1 DEF ScanFails
  <2>3. \A q \in Tasks : "io" \in DOMAIN task'[q] /\ task'[q].io = task[q].io
    BY <1>0, <2>1 DEF Scanned
  <2> QED
    BY <1>0, <2>2, <2>3, TaskInvariant
<1> QED
  BY <1>1, <1>2, <1>3, <1>4

\* A scan is only begun for a device that disk_misses lacks.
LEMMA NoteInvariant ==
    ASSUME DiskInv, NEW p \in Samplers, Note(p)
    PROVE  DiskInv'
<1>0. /\ DOMAIN task = Tasks /\ p \in Tasks /\ disk_misses \subseteq Keys
      /\ \A q \in Tasks : "io" \in DOMAIN task[q] /\ task[q].io \subseteq Keys
      /\ rescans \in Nat /\ rescans <= Cardinality(disk_misses)
  BY DEF DiskInv, Noted, Tasks, OncePerNewDevice
<1>1. /\ DOMAIN task' = Tasks /\ disk_misses' = disk_misses \cup task[p].io
      /\ \A q \in Tasks : "io" \in DOMAIN task'[q] /\ task'[q].io \subseteq Keys
  BY <1>0, ScanningKeeps, IdleNotes DEF Note
<1>2. Cardinality(disk_misses) \in Nat /\ Cardinality(disk_misses') \in Nat
  BY <1>0, <1>1, NotedIsFinite
<1>3. CASE task[p].io \subseteq disk_misses
  <2>1. disk_misses' = disk_misses /\ rescans' = rescans
    BY <1>1, <1>3 DEF Note
  <2> QED
    BY <1>0, <1>1, <2>1 DEF DiskInv, Noted, OncePerNewDevice
<1>4. CASE ~(task[p].io \subseteq disk_misses)
  <2>1. Cardinality(disk_misses) + 1 <= Cardinality(disk_misses')
    BY <1>0, <1>1, <1>4, NotedGrows
  <2>2. rescans' = rescans + 1
    BY <1>4 DEF Note
  <2> QED
    BY <1>0, <1>1, <1>2, <2>1, <2>2 DEF DiskInv, Noted, OncePerNewDevice
<1> QED
  BY <1>3, <1>4

\* The refresh forgets the misses, and the scans made for them.
LEMMA ClearInvariant == DiskInv /\ RefreshClear => DiskInv'
<1> SUFFICES ASSUME DiskInv, RefreshClear PROVE DiskInv'
  OBVIOUS
<1>1. Cardinality({}) = 0
  BY FS_EmptySet
<1>2. /\ disk_misses' = {} /\ rescans' = 0 /\ DOMAIN task' = Tasks
      /\ \A q \in Tasks : "io" \in DOMAIN task'[q] /\ task'[q].io \subseteq Keys
  BY DEF DiskInv, Noted, RefreshClear, At
<1> QED
  BY <1>1, <1>2 DEF DiskInv, Noted, OncePerNewDevice

LEMMA DiskStepInvariant == DiskInv /\ [DiskNext]_diskVars => DiskInv'
<1> SUFFICES ASSUME DiskInv, [DiskNext]_diskVars PROVE DiskInv'
  OBVIOUS
<1>1. ASSUME NEW k \in Keys, Attach(k) \/ Detach(k) PROVE DiskInv'
  BY <1>1 DEF Attach, Detach, DiskInv, Noted, OncePerNewDevice
<1>2. ASSUME NEW p \in Samplers, NoteStep(p) \/ \E io \in SUBSET Attached : Look(p, io) PROVE DiskInv'
  BY <1>2, NoteInvariant, QuietInvariant DEF NoteStep, ScanStep, Tasks
<1>3. CASE RefreshStep \/ RefreshFails
  BY <1>3, QuietInvariant, ClearInvariant DEF RefreshStep, ScanStep, Tasks
<1>4. ASSUME NEW p \in Tasks, ScanFails(p) PROVE DiskInv'
  BY <1>4, QuietInvariant
<1>5. CASE UNCHANGED diskVars
  BY <1>5 DEF diskVars, DiskInv, Noted, OncePerNewDevice
<1> QED
  BY <1>1, <1>2, <1>3, <1>4, <1>5 DEF DiskNext

\* Between two refreshes samples scan /sys/block at most once for every device
\* they miss, however many tasks miss it, at once or one after the other: a
\* device no scan keeps does not make every sample scan (note_disks).
THEOREM DiskMapScansOnce == DiskSpec => []OncePerNewDevice
<1>1. DiskSpec => []DiskInv
  BY DiskInitInvariant, DiskStepInvariant, PTL DEF DiskSpec
<1>2. DiskInv => OncePerNewDevice
  BY DEF DiskInv
<1> QED
  BY <1>1, <1>2, PTL
=============================================================================
