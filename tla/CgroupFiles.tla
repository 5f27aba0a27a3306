----------------------------- MODULE CgroupFiles -----------------------------
(***************************************************************************)
(* What cadvisor-host/src/cgroup.rs makes of the files of a cgroup, with   *)
(* the parsers of parse.rs: read_opt, read_stats and read_spec, and what   *)
(* Manager keeps of a spec.                                                *)
(*                                                                         *)
(* A file that may be missing is a set of at most one content; a flat-     *)
(* keyed file is the sequence of its lines, each a key and a value, where  *)
(* a value is a sequence of at most one number (<<>> does not parse).  A   *)
(* limit is a number, or the word max.                                     *)
(***************************************************************************)
EXTENDS Integers, Sequences, SequencesExt

\* read_opt, read_u64_or_max(..).unwrap_or(0): a missing file is the default.
OrElse(file, default) == IF file = {} THEN default ELSE CHOOSE x \in file : TRUE

\* u64_field: what does not parse is 0.
Field(value) == IF value = <<>> THEN 0 ELSE value[1]

\* parse_cpu_stat, parse_memory_stat and the loop over memory.events: a key
\* that is missing is 0, and of a repeated one the last counts.
FlatKeyed(lines, key) ==
    LET with == {i \in DOMAIN lines : lines[i].key = key}
    IN  IF with = {} THEN 0 ELSE Field(lines[CHOOSE i \in with : \A j \in with : j <= i].value)

\* current.saturating_sub(inactive_file).
WorkingSet(current, inactive) == IF inactive >= current THEN 0 ELSE current - inactive
-----------------------------------------------------------------------------
(* Limits.                                                                 *)

MaxWord == -1            \* the word max, in a file
U64Max == 2^30           \* stands for u64::MAX: above every limit in a file

\* parse_u64_or_max, and the default of read_u64_or_max(..).unwrap_or(0).
U64OrMax(file) ==
    LET content == OrElse(file, 0) IN IF content = MaxWord THEN U64Max ELSE content

\* cpu_weight_to_shares; a missing cpu.weight leaves the default, 0.
CpuShares(file) ==
    LET weight == OrElse(file, 0)
    IN  IF weight = 0 THEN 0 ELSE 2 + ((weight - 1) * 262142) \div 9999

\* parse_cpu_max, the quota: none ({}) without the file or with max.
CpuQuota(file) == file \ {MaxWord}

\* read_spec, on the files [memory_max, cpu_max, cpu_weight] of a cgroup;
\* has_memory is asked first.
ReadSpec(files, has_memory) ==
    [has_memory |-> has_memory, memory_limit |-> U64OrMax(files.memory_max),
     cpu_shares |-> CpuShares(files.cpu_weight), cpu_quota |-> CpuQuota(files.cpu_max)]

\* build_spec: what add_container starts from.
BuildSpec(cg) ==
    [has_memory |-> cg.has_memory, limit |-> cg.memory_limit, shares |-> cg.cpu_shares,
     quota |-> OrElse(cg.cpu_quota, 0)]

\* Faulty variant of RefreshedSpec: a quota that is lifted stays.
RefreshedSpecKeeps(spec, cg) ==
    [has_memory |-> cg.has_memory, limit |-> cg.memory_limit, shares |-> cg.cpu_shares,
     quota |-> OrElse(cg.cpu_quota, spec.quota)]

\* The slow path of housekeeping, on the handle's spec.
RefreshedSpec(spec, cg) ==
    [spec EXCEPT !.has_memory = cg.has_memory, !.limit = cg.memory_limit,
                 !.shares = cg.cpu_shares, !.quota = OrElse(cg.cpu_quota, 0)]
=============================================================================
