----------------------------- MODULE MCServing ------------------------------
EXTENDS Serving

Good == [durations |-> TRUE, cert |-> "good", key |-> "good", token_file |-> TRUE,
         cgroup2 |-> TRUE, port_free |-> TRUE]
MCFlags ==
    {Good, [Good EXCEPT !.cert = "none", !.key = "none"],
     [Good EXCEPT !.cert = "none", !.key = "none", !.token_file = FALSE],
     [Good EXCEPT !.key = "none"], [Good EXCEPT !.cert = "none"], [Good EXCEPT !.cert = "bad"],
     [Good EXCEPT !.durations = FALSE], [Good EXCEPT !.cgroup2 = FALSE], [Good EXCEPT !.port_free = FALSE]}

Request(path, scheme, token) == [path |-> path, scheme |-> scheme, token |-> token]
MCAsks ==
    {Request("/healthz", "", ""), Request("/metrics", "bearer", "t1"), Request("/events", "Bearer", "t2"),
     Request("/machine", "Bearer", "t2"), Request("/nothing", "Basic", "t1")}
MCContents == {{"# none"}, {"t1", "# one"}, {"t2"}}
=============================================================================
