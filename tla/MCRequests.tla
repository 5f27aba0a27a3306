----------------------------- MODULE MCRequests -----------------------------
EXTENDS Requests

A == <<<<"a">>>>
AB == <<<<"a">>, <<"b">>>>
Aab == <<<<"a", "b">>>>      \* shares its first letter with A, and is no child

MCPaths == {<<>>, A, AB, Aab}
MCPresent == {MCPaths, {<<>>, AB}, {<<>>, A, Aab}}

Plain == [namespace |-> "", id |-> <<>>, aliases |-> {}, alias |-> <<>>, image |-> <<>>,
          labels |-> [k \in {} |-> <<>>], envs |-> [k \in {} |-> <<>>]]
MCMeta ==
    [p \in MCPaths |->
        CASE p = A -> [namespace |-> "crio", id |-> <<"x", "y">>, aliases |-> {<<"n">>, <<"x", "y">>},
                       alias |-> <<<<"n">>>>, image |-> <<<<"i">>>>,
                       labels |-> [k \in {<<"l", ".">>, <<"l", "-">>} |-> k],
                       envs |-> [k \in {<<"e">>} |-> k]]
          [] p = AB -> [namespace |-> "containerd", id |-> <<"x", "z">>, aliases |-> {<<"x", "z">>},
                        alias |-> <<<<"x", "z">>>>, image |-> <<>>,
                        labels |-> [k \in {<<"m">>} |-> k], envs |-> [k \in {<<"f">>} |-> k]]
          [] OTHER -> Plain]
MCOpts == [store |-> FALSE, whitelist |-> {<<"l", ".">>, <<"m">>}]
MCSpecs == {[has_cpu |-> m, has_memory |-> m, quota |-> 0] : m \in BOOLEAN}
MCGiven == [p \in MCPaths |-> [has_cpu |-> p = A, has_memory |-> p = A, quota |-> 0]]
MCQuotaSpecs == {[has_cpu |-> TRUE, has_memory |-> TRUE, quota |-> q] : q \in {0, 1}}
MCQuotaGiven == [p \in MCPaths |-> [has_cpu |-> TRUE, has_memory |-> TRUE, quota |-> 0]]

Io(n) == [device |-> <<>>, number |-> n, ops |-> {"Read", "Write"}]
\* The root's sample has two devices and a file system on one of them.
MCSampleAt(p, n) ==
    [per_cpu |-> IF n = 1 THEN <<>> ELSE <<1, 0>>, total |-> n,
     fs |-> IF p = <<>> THEN <<<<"dev", 1>>>> ELSE <<>>,
     io |-> <<Io(1), Io(3), Io(2)>>, serviced |-> <<Io(1), Io(2)>>,
     net |-> IF p = <<>> THEN <<"eth0", "eth1">> ELSE <<>>]

Ask(version, type, args) ==
    [version |-> version, type |-> type, args |-> args, id_type |-> "name",
     recursive |-> FALSE, count |-> 1, count_parses |-> TRUE]
Rec(r) == [r EXCEPT !.recursive = TRUE]
ById(r) == [r EXCEPT !.id_type = "docker"]

MCAsked ==
    {Ask("metrics", "", <<>>), Ask("v1.0", "machine", <<>>), Ask("v1.1", "", <<>>), Ask("v3", "", <<>>),
     Ask("v1.0", "containers", <<<<>>>>), Ask("v1.3", "containers", A),
     Ask("v1.0", "subcontainers", A),
     Ask("v1.1", "subcontainers", Append(A, <<>>)), Ask("v1.2", "subcontainers", <<>>),
     Ask("v1.2", "docker", <<<<"x">>>>), Ask("v1.3", "docker", <<<<"n">>>>),
     Rec(Ask("v1.3", "events", <<>>)), Rec(Ask("v1.3", "events", A)), Ask("v2.0", "events", A),
     Ask("v2.0", "stats", A), Rec(Ask("v2.1", "stats", <<>>)), Ask("v2.1", "stats", <<<<>>>>),
     Ask("v2.1", "machinestats", A), Ask("v2.0", "machinestats", A),
     ById(Rec(Ask("v2.1", "spec", <<<<"x">>>>))), Rec(Ask("v2.0", "spec", A)),
     Rec(Ask("v2.0", "summary", AB)), Ask("v2.0", "ps", A), Ask("v2.1", "ps", <<<<"z">>>>),
     [Ask("v2.0", "version", <<>>) EXCEPT !.count_parses = FALSE],
     Ask("v2.0", "storage", <<>>), Ask("v2.1", "attributes", <<>>)}
MCScrapes == {Ask("metrics", "", <<>>)}
=============================================================================
