----------------------------- MODULE Exposition -----------------------------
(***************************************************************************)
(* The metrics of one scrape: cadvisor-metrics/src/collect.rs and          *)
(* families.rs, from what render has read of each container to what it     *)
(* serves.                                                                 *)
(*                                                                         *)
(* A container c is its own labels, its spec, its latest samples (none or  *)
(* one) and the block devices the disk map named when it was rendered.  A  *)
(* series is its labels (a function) and where its value came from; the    *)
(* values themselves and their formatting are left out.                    *)
(***************************************************************************)
EXTENDS Integers, Sequences, SequencesExt, Functions

CONSTANTS
    DisableMetrics,  \* the groups of --disable_metrics
    EnableMetrics    \* the groups of --enable_metrics

AllDefaultEnabled == {"cpu", "percpu", "memory", "cpuLoad", "disk", "diskIO", "network", "app",
                      "perf_event", "oom_event", "pressure"}

\* MetricsOpts::disabled_groups: enable overrides disable when it is set.
Disabled ==
    IF EnableMetrics = {} THEN DisableMetrics ELSE AllDefaultEnabled \ EnableMetrics

Enabled(group) == group \notin Disabled

\* main leaves out what is empty between the commas of --disable_metrics.
ASSUME GroupsAssumption == "" \notin DisableMetrics

\* FAMILIES, by what they are about.
SpecCpu == {"container_spec_cpu_period", "container_spec_cpu_shares"}
SpecMemory == {"container_spec_memory_limit_bytes", "container_spec_memory_swap_limit_bytes",
               "container_spec_memory_reservation_limit_bytes"}
Seen == {"container_start_time_seconds", "container_last_seen"}
CpuTimes == {"container_cpu_user_seconds_total", "container_cpu_system_seconds_total"}
CpuUsage == {"container_cpu_usage_seconds_total"}
Load == {"container_cpu_load_average_10s"}
TaskStates == {"container_tasks_state"}
Memory == {"container_memory_cache", "container_memory_rss", "container_memory_kernel_usage",
           "container_memory_mapped_file", "container_memory_swap", "container_memory_failcnt",
           "container_memory_usage_bytes", "container_memory_max_usage_bytes",
           "container_memory_working_set_bytes"}
MemoryFailures == {"container_memory_failures_total"}
Space == {"container_fs_inodes_free", "container_fs_inodes_total",
          "container_fs_limit_bytes", "container_fs_usage_bytes"}
Blkio == {"container_blkio_device_usage_total"}
ReadBytes == {"container_fs_reads_bytes_total"}
WriteBytes == {"container_fs_writes_bytes_total"}
Reads == {"container_fs_reads_total"}
Writes == {"container_fs_writes_total"}
FsIo == {"container_fs_reads_merged_total", "container_fs_sector_reads_total",
         "container_fs_read_seconds_total", "container_fs_writes_merged_total",
         "container_fs_sector_writes_total", "container_fs_write_seconds_total",
         "container_fs_io_current", "container_fs_io_time_seconds_total",
         "container_fs_io_time_weighted_seconds_total"}
Network ==
    {"container_network_receive_bytes_total", "container_network_transmit_bytes_total",
     "container_network_receive_packets_total", "container_network_transmit_packets_total",
     "container_network_receive_packets_dropped_total",
     "container_network_transmit_packets_dropped_total",
     "container_network_receive_errors_total", "container_network_transmit_errors_total"}
Oom == {"container_oom_events_total"}
Version == {"cadvisor_version_info"}
ScrapeErrors == {"container_scrape_error", "machine_scrape_error"}
Machine == {"machine_cpu_physical_cores", "machine_cpu_cores", "machine_cpu_sockets",
            "machine_memory_bytes", "machine_swap_bytes", "machine_nvm_avg_power_budget_watts"}
Nvm == {"machine_nvm_capacity"}

\* The families that FAMILIES lists, by class: render pushes
\* the same series, apart from their values, into the families of a class.
Classes ==
    {SpecCpu, SpecMemory, Seen, CpuTimes, CpuUsage, Load, TaskStates, Memory, MemoryFailures,
     Space, Blkio, ReadBytes, WriteBytes, Reads, Writes, FsIo, Network, Oom,
     Version, ScrapeErrors, Machine, Nvm}

\* What render pushes for a container with a CPU quota, and FAMILIES lacks.
Quota == {"container_spec_cpu_quota"}
Cfs == {"container_cpu_cfs_periods_total", "container_cpu_cfs_throttled_periods_total",
        "container_cpu_cfs_throttled_seconds_total"}

\* family_group: the -disable_metrics group a family belongs to ("" for none).
FamilyGroup(f) ==
    CASE f \in Load \cup TaskStates -> "cpuLoad"
      [] f \in CpuTimes \cup CpuUsage \cup Cfs -> "cpu"
      [] f \in Memory \cup MemoryFailures -> "memory"
      [] f \in Space -> "disk"
      [] f \in Blkio \cup ReadBytes \cup WriteBytes \cup Reads \cup Writes \cup FsIo -> "diskIO"
      [] f \in Network -> "network"
      [] f \in Oom -> "oom_event"
      [] OTHER -> ""
-----------------------------------------------------------------------------
(* Labels.  A key is a tuple of words, a value too; <<>> is the empty one. *)

CONSTANT Alnum       \* the characters a label name may have

\* sanitize_label_name.
Sanitize(key) == [i \in DOMAIN key |-> IF key[i] \in Alnum THEN key[i] ELSE "_"]

\* Labels or env variables under a prefix; when two sanitise to the same name
\* one of them stays.
Prefixed(prefix, m, keys) ==
    [k \in {<<prefix>> \o Sanitize(r) : r \in keys} |->
        m[CHOOSE r \in keys : <<prefix>> \o Sanitize(r) = k]]

\* ContainerLabels::own_from, for opts = [store, whitelist]; alias and image
\* are tuples of at most one value.
OwnLabels(id, meta, opts) ==
    [k \in {<<"id">>} |-> id]
      @@ [k \in {<<"name">> : x \in Range(meta.alias)} |-> meta.alias[1]]
      @@ [k \in {<<"image">> : x \in Range(meta.image)} |-> meta.image[1]]
      @@ Prefixed("label", meta.labels,
                  {l \in DOMAIN meta.labels : opts.store \/ l \in opts.whitelist})
      @@ Prefixed("env", meta.envs, {e \in DOMAIN meta.envs : opts.store})

\* ContainerLabels::unioned: every key any container has, empty by default.
Unioned(own, union) == [k \in union |-> IF k \in DOMAIN own THEN own[k] ELSE <<>>]
-----------------------------------------------------------------------------
(* What render pushes for container c.                                     *)

\* ContainerLabels::with; no label of a container has the name of an extra one.
With(labels, extra) ==
    [k \in DOMAIN labels \cup DOMAIN extra |-> IF k \in DOMAIN labels THEN labels[k] ELSE extra[k]]

\* A series, with a word that says where the value is from.
Series(c, extra, from) == [labels |-> With(c.labels, extra), from |-> from]

When(present, series) == IF present THEN <<series>> ELSE <<>>
One(c, present) == When(present, Series(c, <<>>, <<"one">>))
Label(key, value) == [k \in {<<key>>} |-> value]
Each(c, key, values, from) ==
    [i \in DOMAIN values |-> Series(c, Label(key, values[i]), <<from, i>>)]

\* Series for cpus with usage, or for the total when there are none.
UsageSeries(c, s) ==
    LET cpu(value) == Series(c, Label("cpu", value), <<"cpu">>)
    IN  IF s.per_cpu = <<>> THEN When(s.total > 0, cpu(<<"total">>))
        ELSE FlattenSeq([i \in DOMAIN s.per_cpu |-> When(s.per_cpu[i] > 0, cpu(<<"cpu", i>>))])

\* The name of a device: the entry's own, or the disk map's, or none.
Device(c, e) ==
    IF e.device # <<>> THEN e.device
    ELSE IF e.number \in c.disks THEN <<"dev", e.number>> ELSE <<>>

\* The entries of an io list that have this operation, by device.
IoSeries(c, entries, op) ==
    FlattenSeq([i \in DOMAIN entries |->
        When(op \in entries[i].ops,
             Series(c, Label("device", Device(c, entries[i])), <<op, i>>))])

BlkioSeries(c, entries) ==
    FlattenSeq([i \in DOMAIN entries |->
        LET e == entries[i]
            device == With(Label("device", Device(c, e)), Label("number", <<e.number>>))
        IN  SetToSeq({Series(c, With(device, Label("operation", <<op>>)), <<"blkio">>) : op \in e.ops})])

\* Faulty variant of SpecRows: the limits are gated as family_group says, not
\* at all.
SpecRowsUngated(c) ==
    <<[group |-> "", of |-> SpecCpu, series |-> One(c, c.spec.has_cpu)],
      [group |-> "", of |-> SpecMemory, series |-> One(c, c.spec.has_memory)],
      [group |-> "", of |-> Seen, series |-> One(c, TRUE)]>>

\* In the order of render: a row pushes its series into each of its families
\* when its group ("" for none) is enabled.
SpecRows(c) ==
    <<[group |-> "cpu", of |-> SpecCpu, series |-> One(c, c.spec.has_cpu)],
      [group |-> "cpu", of |-> Quota, series |-> One(c, c.spec.has_cpu /\ c.spec.quota # 0)],
      [group |-> "memory", of |-> SpecMemory, series |-> One(c, c.spec.has_memory)],
      [group |-> "", of |-> Seen, series |-> One(c, TRUE)]>>

SampleRows(c, s) ==
    <<[group |-> "cpu", of |-> CpuTimes, series |-> One(c, TRUE)],
      [group |-> "cpu", of |-> CpuUsage, series |-> UsageSeries(c, s)],
      [group |-> "cpu", of |-> Cfs, series |-> One(c, c.spec.quota # 0)],
      [group |-> "cpuLoad", of |-> Load, series |-> One(c, TRUE)],
      [group |-> "cpuLoad", of |-> TaskStates, series |->
          Each(c, "state", <<"sleeping", "running", "stopped", "uninterruptible",
                             "iowaiting">>, "task")],
      [group |-> "memory", of |-> Memory, series |-> One(c, TRUE)],
      [group |-> "memory", of |-> MemoryFailures, series |->
          Each(c, "failure", <<<<"pgfault", "container">>, <<"pgmajfault", "container">>,
                               <<"pgfault", "hierarchy">>, <<"pgmajfault", "hierarchy">>>>,
               "failure")],
      [group |-> "disk", of |-> Space, series |-> Each(c, "device", s.fs, "fs")],
      [group |-> "diskIO", of |-> Blkio, series |-> BlkioSeries(c, s.io)],
      [group |-> "diskIO", of |-> ReadBytes, series |-> IoSeries(c, s.io, "Read")],
      [group |-> "diskIO", of |-> WriteBytes, series |-> IoSeries(c, s.io, "Write")],
      [group |-> "diskIO", of |-> Reads, series |-> IoSeries(c, s.serviced, "Read")],
      [group |-> "diskIO", of |-> Writes, series |-> IoSeries(c, s.serviced, "Write")],
      [group |-> "diskIO", of |-> Reads \cup Writes \cup FsIo, series |->
          Each(c, "device", s.fs, "fs")],
      [group |-> "network", of |-> Network, series |-> Each(c, "interface", s.net, "net")],
      [group |-> "oom_event", of |-> Oom, series |-> One(c, TRUE)]>>

Rows(c) ==
    SpecRows(c) \o (IF c.latest = <<>> THEN <<>> ELSE SampleRows(c, c.latest[1]))

\* What render pushes once, with the labels of cadvisor or of the machine.
OwnRows ==
    LET labelled(key) == [labels |-> Label(key, <<>>)]
    IN  <<[group |-> "", of |-> Version, series |-> One(labelled("version"), TRUE)],
          [group |-> "", of |-> ScrapeErrors, series |-> One([labels |-> <<>>], TRUE)],
          [group |-> "", of |-> Machine, series |-> One(labelled("machine"), TRUE)],
          [group |-> "", of |-> Nvm, series |->
              Each(labelled("machine"), "mode", <<"app_direct_mode", "memory_mode">>, "nvm")]>>

\* Output::push, for the containers cs in the order they were rendered: the
\* series of each family of a class.
Pushed(cs, class) ==
    LET of(rows) ==
            FlattenSeq([j \in DOMAIN rows |->
                IF class \subseteq rows[j].of /\ Enabled(rows[j].group)
                THEN rows[j].series ELSE <<>>])
    IN  FlattenSeq([i \in DOMAIN cs |-> of(Rows(cs[i]))]) \o of(OwnRows)

\* Faulty variant of Rendered: equal neighbours are merged without sorting.
RenderedUnsorted(series) ==
    FlattenSeq([i \in DOMAIN series |->
        When(i = 1 \/ series[i - 1].labels # series[i].labels, series[i])])

\* Output::render on one family: a stable sort by labels brings equal series
\* together, and dedup_by keeps the first of them.  Their order is left out.
Rendered(series) ==
    FlattenSeq([i \in DOMAIN series |->
        When(\A j \in 1..(i - 1) : series[j].labels # series[i].labels, series[i])])
=============================================================================
