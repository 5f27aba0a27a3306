------------------------------- MODULE Derived -------------------------------
(***************************************************************************)
(* What cadvisor-manager/src/derive.rs and cadvisor-api/src/v2.rs derive   *)
(* from the samples of a container.  A sample is [t, total, working_set];  *)
(* samples are in the order of the store.                                  *)
(***************************************************************************)
EXTENDS Integers, Sequences, FiniteSets, SequencesExt

CONSTANT Scale    \* what a rate of one second per second is

ASSUME ScaleAssumption == Scale \in Nat \ {0}

\* Faulty variant of InstCpu: the counter's change in either direction.
InstCpuAbs(last, cur) ==
    IF cur.t <= last.t THEN {}
    ELSE LET d == cur.total - last.total
         IN  {((IF d < 0 THEN -d ELSE d) * Scale) \div (cur.t - last.t)}

\* inst_cpu: none if time or the counter went back.
InstCpu(last, cur) ==
    IF cur.t <= last.t \/ cur.total < last.total THEN {}
    ELSE {((cur.total - last.total) * Scale) \div (cur.t - last.t)}

\* What is at position k, counted from 1, when the values are sorted.
Ranked(values, k) ==
    CHOOSE x \in Range(values) :
        /\ Cardinality({i \in DOMAIN values : values[i] < x}) < k
        /\ k <= Cardinality({i \in DOMAIN values : values[i] <= x})

\* The rates of derived_stats, one for every two samples in a row that have one.
CpuRates(samples) ==
    LET rate(i) == InstCpu(samples[i], samples[i + 1])
        some == {i \in 1..(Len(samples) - 1) : rate(i) # {}}
        pair(k) == Ranked([i \in some |-> i], k)
    IN  [k \in 1..Cardinality(some) |-> CHOOSE r \in rate(pair(k)) : TRUE]

Total(values) ==
    LET sum[i \in 0..Len(values)] == IF i = 0 THEN 0 ELSE sum[i - 1] + values[i]
    IN  sum[Len(values)]

\* percentiles_from; {} for present: false.
Percentiles(values) ==
    LET n == Len(values)
        pick(p) == Ranked(values, ((n - 1) * p) \div 100 + 1)
    IN  IF n = 0 THEN {}
        ELSE {[mean |-> Total(values) \div n, max |-> Ranked(values, n),
               fifty |-> pick(50), ninety |-> pick(90), ninety_five |-> pick(95)]}

\* derived_stats.  latest_usage.cpu is the last rate there is, which is an
\* older one when the newest two samples have none.
DerivedStats(samples) ==
    LET rates == CpuRates(samples)
        mem == [i \in DOMAIN samples |-> samples[i].working_set]
    IN  [latest |-> [cpu |-> IF rates = <<>> THEN 0 ELSE Last(rates),
                     memory |-> IF samples = <<>> THEN 0 ELSE Last(mem)],
         cpu |-> Percentiles(rates), memory |-> Percentiles(mem)]
=============================================================================
