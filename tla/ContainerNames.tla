--------------------------- MODULE ContainerNames ---------------------------
(***************************************************************************)
(* What the API makes of a request before it looks anything up: container  *)
(* names, the tests the code does on them as strings, the routes of        *)
(* cadvisor-api/src/v1.rs and v2.rs and the options of a v2 request.       *)
(*                                                                         *)
(* A name is a sequence of characters, "/" one of them, since the code     *)
(* tells a container's descendants by a prefix of its name.                *)
(***************************************************************************)
EXTENDS Integers, Sequences, SequencesExt

Root == <<"/">>

\* Segments, each after a slash.
Joined(segments) == FlattenSeq([i \in DOMAIN segments |-> <<"/">> \o segments[i]])

\* The name of the cgroup whose path has these segments.
Name(path) == IF path = <<>> THEN Root ELSE Joined(path)

\* What the names of a container's descendants begin with.
Prefix(name) == IF name = Root THEN Root ELSE name \o <<"/">>

\* The filter of subcontainers_info and resolve.
InSubtree(n, name) == n = name \/ IsPrefix(Prefix(name), n)

\* Faulty variant of DirectChild: a grandchild counts too.
DescendantChild(n, name) ==
    IsPrefix(Prefix(name), n) /\ Len(n) > Len(Prefix(name))

\* The filter of direct_children.
DirectChild(n, name) ==
    /\ IsPrefix(Prefix(name), n)
    /\ Len(n) > Len(Prefix(name))
    /\ \A i \in (Len(Prefix(name)) + 1)..Len(n) : n[i] # "/"

\* trim_end_matches('/') and trim_start_matches('/').
TrimEnd(s) ==
    LET last == CHOOSE i \in 0..Len(s) :
                    /\ i = 0 \/ s[i] # "/"
                    /\ \A j \in (i + 1)..Len(s) : s[j] = "/"
    IN  SubSeq(s, 1, last)

TrimStart(s) ==
    LET first == CHOOSE i \in 1..(Len(s) + 1) :
                    /\ i = Len(s) + 1 \/ s[i] # "/"
                    /\ \A j \in 1..(i - 1) : s[j] = "/"
    IN  SubSeq(s, first, Len(s))

\* EventQuery::matches, on the name of an event's container.
EventInScope(n, name, subcontainers) ==
    n = name \/ (subcontainers /\ IsPrefix(TrimEnd(name) \o <<"/">>, n))

\* dispatch: the container a request names, from what follows its type.
ContainerName(args) ==
    LET joined == TrimEnd(Joined(args))
    IN  IF args \in {<<>>, <<<<>>>>} \/ joined = <<>> THEN Root ELSE joined

\* docker_containers and the docker and podman types of resolve: the container
\* has metadata, and the id is empty, begins its id or is one of its aliases.
Named(ref, id) ==
    /\ ref.namespace # ""
    /\ id = <<>> \/ IsPrefix(id, ref.id) \/ id \in ref.aliases
-----------------------------------------------------------------------------
(* Routes.                                                                 *)

V1 == {"v1.0", "v1.1", "v1.2", "v1.3"}
V2 == {"v2.0", "v2.1"}

\* handle_v1: "" is the listing of request types, "unknown" an error.
HandleV1(version, type) ==
    CASE type = "" -> "listing"
      [] type \in {"machine", "containers"} -> type
      [] type = "subcontainers" /\ version # "v1.0" -> type
      [] type = "docker" /\ version \in {"v1.2", "v1.3"} -> type
      [] type = "events" /\ version = "v1.3" -> type
      [] OTHER -> "unknown"

\* handle_v2; appmetrics, attributes, storage and version look up nothing.
HandleV2(version, type) ==
    CASE type \in {"version", "machine", "attributes", "spec", "summary",
                   "ps", "storage", "appmetrics"} -> type
      [] type = "stats" -> IF version = "v2.1" THEN "stats21" ELSE "stats20"
      [] type = "machinestats" /\ version = "v2.1" -> type
      [] OTHER -> "unknown"

\* RequestOptions::parse fails on a type or a count it does not know, whatever
\* the request is.
OptionsOk(r) == r.id_type \in {"name", "docker", "podman"} /\ r.count_parses

\* dispatch.
Route(r) ==
    CASE r.version \in V1 -> HandleV1(r.version, r.type)
      [] r.version \in V2 ->
            CASE r.type = "events" -> "events"
              [] r.type = "" -> "listing"
              [] OTHER -> IF OptionsOk(r) THEN HandleV2(r.version, r.type) ELSE "unknown"
      [] r.version = "metrics" -> "metrics"
      [] OTHER -> "unknown"
=============================================================================
