---------------------------- MODULE Housekeeping ----------------------------
(***************************************************************************)
(* The housekeeping loop of one container (cadvisor-manager/src/manager.rs *)
(* housekeeping and sample, cadvisor-host/src/cgroup.rs read_spec and      *)
(* read_stats): an iteration refreshes the spec when that is due, reads    *)
(* the cgroup's files one after the other, reports OOM kills, adapts the   *)
(* interval and stores the sample.  The cgroup changes, is removed and is  *)
(* made again at any moment in between, and the files of its memory        *)
(* controller appear after it does.                                        *)
(*                                                                         *)
(* A sample is abstracted to the activity it shows (cpu.stat and           *)
(* memory.current) and the oom_kill count of memory.events.                *)
(***************************************************************************)
EXTENDS CgroupFiles

CONSTANTS
    Configs,     \* flag settings: base and max interval, allow_dynamic_housekeeping
    Limits,      \* what memory.max and the quota of cpu.max may hold
    MaxIdle,     \* enough doublings to reach every max interval
    MaxEnv       \* bound on what happens to the cgroup

ASSUME HousekeepingAssumption ==
    /\ Configs \subseteq [base : Nat \ {0}, max : Nat \ {0}, dynamic : BOOLEAN]
    /\ MaxIdle \in Nat \ {0} /\ MaxEnv \in Nat
    /\ \A c \in Configs : c.base * 2^MaxIdle >= c.max

VARIABLES
    cfg,         \* ManagerConfig
    cgroup,      \* the cgroup: existence, incarnation, counters, limit files
    env,         \* number of things that happened to it
    pc,          \* position in the loop
    slow,        \* first_iteration, or a minute has passed since last_slow
    seen,        \* the incarnation this iteration began to read, 0 if none
    has_memory,  \* local variable of read_spec
    sample,      \* the sample being read
    prev,        \* Option: the set of the last sample, empty at first
    interval,    \* how long the loop sleeps
    spec,        \* ContainerHandle::spec: its limits
    reported,    \* number of oom + oomKill pairs recorded
    kills,       \* history: number of OOM kills
    pending,     \* history: kills of this incarnation that are not reported
    idle         \* history: samples in a row that changed nothing, up to MaxIdle

loopVars == <<pc, slow, seen, has_memory, sample, prev, interval, spec, reported, idle>>
vars == <<cfg, cgroup, env, loopVars, kills, pending>>

Blank == [inc |-> 0, activity |-> 0, oom |-> 0]

\* Without the files of the memory controller.
NewFiles == [memory_max |-> {}, cpu_max |-> {MaxWord}, cpu_weight |-> {100}]
NewCgroup(inc) == [exists |-> TRUE, inc |-> inc, activity |-> 0, oom |-> 0, files |-> NewFiles]

\* The files there are to read now.
Files == IF cgroup.exists THEN cgroup.files
         ELSE [memory_max |-> {}, cpu_max |-> {}, cpu_weight |-> {}]

\* The spec of the files, read at once.
Current == BuildSpec(ReadSpec(Files, Files.memory_max # {}))

Init ==
    /\ cfg \in Configs
    /\ cgroup = NewCgroup(1)
    /\ env = 0
    /\ pc = "top" /\ slow = TRUE /\ seen = 0 /\ has_memory = FALSE
    /\ sample = Blank /\ prev = {}
    /\ interval = cfg.base
    /\ spec = Current
    /\ reported = 0 /\ kills = 0 /\ idle = 0
    /\ pending = "no"
-----------------------------------------------------------------------------
(* The cgroup.                                                             *)

Happens == env < MaxEnv /\ env' = env + 1 /\ UNCHANGED <<cfg, loopVars>>

Work ==
    /\ Happens /\ cgroup.exists
    /\ cgroup' = [cgroup EXCEPT !.activity = @ + 1]
    /\ UNCHANGED <<kills, pending>>

\* systemd enables the memory controller, or sets or lifts a limit.
SetMemory(limit) ==
    /\ Happens /\ cgroup.exists
    /\ {limit} # cgroup.files.memory_max
    /\ cgroup' = [cgroup EXCEPT !.files.memory_max = {limit}]
    /\ UNCHANGED <<kills, pending>>

SetQuota(quota) ==
    /\ Happens /\ cgroup.exists
    /\ {quota} # cgroup.files.cpu_max
    /\ cgroup' = [cgroup EXCEPT !.files.cpu_max = {quota}]
    /\ UNCHANGED <<kills, pending>>

\* A kill is late once the loop has sampled this incarnation.
Kill ==
    /\ Happens /\ cgroup.exists
    /\ cgroup' = [cgroup EXCEPT !.oom = @ + 1]
    /\ kills' = kills + 1
    /\ pending' = IF \E p \in prev : p.inc = cgroup.inc THEN "late"
                  ELSE IF pending = "late" THEN "late" ELSE "early"

Vanish ==
    /\ Happens /\ cgroup.exists
    /\ cgroup' = [cgroup EXCEPT !.exists = FALSE]
    /\ pending' = "no"
    /\ UNCHANGED kills

\* A cgroup of the same name is made: its counters start at 0.
Reappear ==
    /\ Happens /\ ~cgroup.exists
    /\ cgroup' = NewCgroup(cgroup.inc + 1)
    /\ UNCHANGED <<kills, pending>>
-----------------------------------------------------------------------------
(* The loop.                                                               *)

MinutePasses ==
    /\ ~slow
    /\ slow' = TRUE
    /\ UNCHANGED <<cfg, cgroup, env, pc, seen, has_memory, sample, prev, interval, spec, reported, kills,
                   pending, idle>>

\* The slow path.  read_spec fails when the directory is gone, and asks
\* whether memory.max is there before it reads the limits.
Refresh ==
    /\ pc = "top"
    /\ slow' = FALSE
    /\ seen' = IF cgroup.exists THEN cgroup.inc ELSE 0
    /\ has_memory' = (Files.memory_max # {})
    /\ pc' = IF slow /\ cgroup.exists THEN "limits" ELSE "activity"
    /\ UNCHANGED <<cfg, cgroup, env, sample, prev, interval, spec, reported, kills, pending, idle>>

\* The limits.  A file that was open when its cgroup went fails to read, and
\* the spec is left as it is.
RefreshLimits ==
    /\ pc = "limits"
    /\ \/ spec' = RefreshedSpec(spec, ReadSpec(Files, has_memory))
       \/ (~cgroup.exists \/ cgroup.inc # seen) /\ UNCHANGED spec
    /\ pc' = "activity"
    /\ UNCHANGED <<cfg, cgroup, env, slow, seen, has_memory, sample, prev, interval, reported,
                   kills, pending, idle>>

\* cpu.stat and memory.current.  Missing files leave the defaults (read_opt).
ReadActivity ==
    /\ pc = "activity"
    /\ sample' = [Blank EXCEPT !.activity = IF cgroup.exists THEN cgroup.activity ELSE 0]
    /\ pc' = "events"
    /\ UNCHANGED <<cfg, cgroup, env, slow, seen, has_memory, prev, interval, spec, reported, kills,
                   pending, idle>>

\* memory.events.
ReadEvents ==
    /\ pc = "events"
    /\ sample' = [sample EXCEPT !.inc = IF cgroup.exists THEN cgroup.inc ELSE 0,
                                !.oom = IF cgroup.exists THEN cgroup.oom ELSE 0]
    /\ pc' = "publish"
    /\ UNCHANGED <<cfg, cgroup, env, slow, seen, has_memory, prev, interval, spec, reported, kills,
                   pending, idle>>

\* A file that was open when its cgroup was removed fails to read.
ReadFails ==
    /\ pc \in {"activity", "events"}
    /\ seen # 0 /\ (~cgroup.exists \/ cgroup.inc # seen)
    /\ pc' = "check"
    /\ UNCHANGED <<cfg, cgroup, env, slow, seen, has_memory, sample, prev, interval, spec, reported,
                   kills, pending, idle>>

\* The error branch: the loop ends if the directory is gone.
CheckExists ==
    /\ pc = "check"
    /\ pc' = IF cgroup.exists THEN "sleep" ELSE "returned"
    /\ UNCHANGED <<cfg, cgroup, env, slow, seen, has_memory, sample, prev, interval, spec, reported,
                   kills, pending, idle>>

Lesser(x, y) == IF x <= y THEN x ELSE y

Unchanged == \E p \in prev : p.activity = sample.activity

\* Faulty variant of NextInterval: a change does not reset the interval.
NextIntervalSticky ==
    IF Unchanged THEN Lesser(interval * 2, cfg.max) ELSE interval

NextInterval ==
    IF Unchanged THEN Lesser(interval * 2, cfg.max) ELSE cfg.base

\* Faulty variants of OomWentUp: a count above zero is enough; a single kill is
\* not.
OomNotZero == prev # {} /\ sample.oom > 0
OomJumped == \E p \in prev : sample.oom > p.oom + 1

OomWentUp == \E p \in prev : sample.oom > p.oom

\* The sample is read: OOM events, interval, prev, and the store (TimedStore).
Publish ==
    /\ pc = "publish"
    /\ reported' = IF OomWentUp THEN reported + 1 ELSE reported
    /\ pending' = IF OomWentUp THEN "no" ELSE pending
    /\ interval' = IF cfg.dynamic THEN NextInterval ELSE interval
    /\ idle' = IF Unchanged THEN Lesser(idle + 1, MaxIdle) ELSE 0
    /\ prev' = {sample}
    /\ pc' = "sleep"
    /\ UNCHANGED <<cfg, cgroup, env, slow, seen, has_memory, sample, spec, kills>>

Wake ==
    /\ pc = "sleep"
    /\ pc' = "top"
    /\ UNCHANGED <<cfg, cgroup, env, slow, seen, has_memory, sample, prev, interval, spec, reported,
                   kills, pending, idle>>

LoopStep ==
    \/ Refresh \/ RefreshLimits \/ ReadActivity \/ ReadEvents \/ ReadFails \/ CheckExists \/ Publish \/ Wake

Next ==
    \/ Work \/ Kill \/ Vanish \/ Reappear
    \/ (\E limit \in Limits : SetMemory(limit)) \/ (\E quota \in Limits : SetQuota(quota))
    \/ MinutePasses \/ LoopStep

Spec == Init /\ [][Next]_vars

\* The task is polled, its sleeps end, and a minute passes again and again.
FairSpec == Spec /\ WF_vars(LoopStep) /\ WF_vars(MinutePasses)
-----------------------------------------------------------------------------
(* Properties *)

\* No OOM kill is made up or reported twice: there are never more oom/oomKill
\* pairs than kills, although the counter restarts at 0 with a new incarnation
\* and reads as 0 while the cgroup is missing (housekeeping compares with the
\* previous sample).
NoPhantomKill == reported <= kills

\* The interval is the base doubled once for every sample in a row that changed
\* nothing, cut at the maximum; a change brings it back to the base; samples
\* that failed do not count (housekeeping).
IntervalDoubles ==
    interval = IF ~cfg.dynamic \/ idle = 0 THEN cfg.base
               ELSE Lesser(cfg.base * 2^idle, cfg.max)

\* A kill in a cgroup the loop has already sampled is reported, unless the
\* cgroup is gone first, wherever in an iteration it happens.
LateKillIsReported == (pending = "late") ~> (pending # "late")

\* Once a cgroup is there to stay its limits reach the spec and stay there,
\* unless the loop has returned: limits that are set or lifted, files that
\* appear after the cgroup, files read while it was replaced, half a spec read
\* before a change and half after it (the slow path of housekeeping).
SpecFollows == <>[]cgroup.exists => <>[](spec = Current \/ pc = "returned")
=============================================================================
