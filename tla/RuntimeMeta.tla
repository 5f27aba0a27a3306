---------------------------- MODULE RuntimeMeta ----------------------------
(***************************************************************************)
(* Manager::runtime_meta (cadvisor-manager/src/manager.rs) and the two     *)
(* clients of cadvisor-runtime it asks: CRI-O, a connection per request,   *)
(* and containerd, one client that the first caller connects and every     *)
(* other shares (a OnceCell).                                              *)
(*                                                                         *)
(* The callers are the consumer of watch events and the sweep.  A step is  *)
(* one await: an answer of a runtime, the end of a sleep, the cell.  The   *)
(* runtimes come, go, fail and stop answering between any two of them.     *)
(***************************************************************************)
EXTENDS Naturals, Sequences, SequencesExt

CONSTANTS
    Callers,     \* the tasks that call add_container
    Basenames,   \* names of cgroups, as sequences of tokens
    IdLen,       \* length of a container id (64)
    Sandboxes,   \* ids of pod sandboxes, which own the pod's network
    Named,       \* ids of CRI-O containers that have a name
    Layered,     \* ids of CRI-O containers whose writable layer is a directory
    MaxChanges   \* bound on the runtimes' changes of mode

ASSUME RuntimeMetaAssumption == IdLen \in Nat \ {0} /\ MaxChanges \in Nat

VARIABLES
    mode,        \* each runtime: down, up, failing every request, or hung
    container,   \* each container, as its runtime knows it
    cell,        \* Manager::containerd: empty, init (being connected), none, client
    changes,     \* history: mode changes so far
    call         \* each caller's runtime_meta

vars == <<mode, changes, container, cell, call>>

Hex == {"a", "b"}
Attempts == 3
Modes == {"down", "up", "failing", "hung"}
-----------------------------------------------------------------------------
(* Pure parts: ids in names, and what a client makes of an answer.         *)

NoId == <<>>

\* The loop of extract_container_id: run counts hex digits, and a run that
\* ends with IdLen of them is the id.
ExtractContainerId(basename) ==
    LET run[i \in 0..Len(basename)] ==
            IF i = 0 \/ basename[i] \notin Hex THEN 0 ELSE run[i - 1] + 1
        ends == {i \in 1..Len(basename) :
                    run[i] = IdLen /\ (i = Len(basename) \/ basename[i + 1] \notin Hex)}
        first == CHOOSE i \in ends : \A j \in ends : i <= j
    IN  IF IsSuffix(<<".mount">>, basename) \/ ends = {}
        THEN NoId
        ELSE SubSeq(basename, first - IdLen + 1, first)

Conmon(basename) == IsPrefix(<<"crio-", "conmon-">>, basename)
IsCrio(basename) == IsPrefix(<<"crio-">>, basename)
Runtime(basename) == IF IsCrio(basename) THEN "crio" ELSE "containerd"
Ids == {ExtractContainerId(b) : b \in Basenames} \ {NoId}

\* What add_container keeps of the metadata, without labels, image and env.
NoMeta == [id |-> NoId, namespace |-> "", aliases |-> <<>>,
           init_pid |-> FALSE, reports_network |-> FALSE, rootfs_diff |-> FALSE]

CrioMeta(id, pid) ==
    [id |-> id, namespace |-> "crio",
     aliases |-> (IF id \in Named THEN <<"name">> ELSE <<>>) \o <<"id">>,
     init_pid |-> pid, reports_network |-> id \in Sandboxes,
     rootfs_diff |-> id \in Layered]

ContainerdMeta(id, pid) ==
    [id |-> id, namespace |-> "containerd", aliases |-> <<"id">>,
     init_pid |-> pid, reports_network |-> id \in Sandboxes, rootfs_diff |-> FALSE]
-----------------------------------------------------------------------------
Known(id) == container[id] \in {"created", "running"}
Running(id) == container[id] = "running"

\* slept is in units of 100 ms; broken: the runtime went down during the
\* request.  up, knew, ran are history: since the call began the runtime has
\* been up, has known the container, and the container has run.
Idle == [pc |-> "idle", id |-> NoId, is_crio |-> FALSE, attempt |-> 0,
         slept |-> 0, broken |-> FALSE, up |-> FALSE, knew |-> FALSE, ran |-> FALSE, meta |-> NoMeta]

\* One of the runtimes at least serves the node when the program starts.
Init ==
    /\ mode \in [{"crio", "containerd"} -> Modes]
    /\ "up" \in {mode["crio"], mode["containerd"]}
    /\ changes = 0
    /\ container = [id \in Ids |-> "unknown"]
    /\ cell = "empty"
    /\ call = [c \in Callers |-> Idle]

-----------------------------------------------------------------------------
(* The runtimes.                                                           *)

Asked(c) == IF call[c].is_crio THEN "crio" ELSE "containerd"
Busy(c, r) == call[c].pc \notin {"idle", "done"} /\ Asked(c) = r

\* Requests under way are lost when the runtime goes down.
ModeChanges(r, m) ==
    /\ m # mode[r]
    /\ changes < MaxChanges
    /\ changes' = changes + 1
    /\ mode' = [mode EXCEPT ![r] = m]
    /\ call' = [c \in Callers |->
                   IF Busy(c, r)
                   THEN [call[c] EXCEPT !.up = FALSE, !.broken = @ \/ m = "down"]
                   ELSE call[c]]
    /\ UNCHANGED <<container, cell>>

\* A container is created, started and removed, while its runtime runs.
Lives(b) ==
    LET id == ExtractContainerId(b)
        next == CASE container[id] = "unknown" -> "created"
                  [] container[id] = "created" -> "running"
                  [] OTHER -> "gone"
    IN  /\ id # NoId
        /\ mode[Runtime(b)] = "up"
        /\ container[id] # "gone"
        /\ container' = [container EXCEPT ![id] = next]
        /\ call' = [c \in Callers |->
                       IF call[c].pc # "done" /\ call[c].id = id /\ next = "gone"
                       THEN [call[c] EXCEPT !.knew = FALSE, !.ran = FALSE] ELSE call[c]]
        /\ UNCHANGED <<mode, changes, cell>>
-----------------------------------------------------------------------------
(* runtime_meta.                                                           *)

Return(c, meta) ==
    call' = [call EXCEPT ![c].pc = "done", ![c].attempt = 0, ![c].broken = FALSE,
                         ![c].meta = meta]

\* conmon's cgroups and names without an id have no metadata: the call
\* returns at once.
Begin(c, b) ==
    LET id == ExtractContainerId(b)
    IN  /\ call[c].pc = "idle"
        /\ call' = [call EXCEPT ![c] =
                       IF Conmon(b) \/ id = NoId THEN Idle
                       ELSE [Idle EXCEPT !.pc = "attempt", !.id = id,
                                         !.is_crio = IsCrio(b),
                                         !.up = mode[Runtime(b)] = "up",
                                         !.knew = Known(id), !.ran = Running(id)]]
        /\ UNCHANGED <<mode, changes, container, cell>>

\* Faulty variant of Retry: the loop ends one attempt early.
RetryTwice(c) ==
    IF call[c].attempt + 1 < Attempts - 1
    THEN call' = [call EXCEPT ![c].pc = "attempt", ![c].attempt = @ + 1]
    ELSE Return(c, NoMeta)

\* continue, and the end of the loop.
Retry(c) ==
    IF call[c].attempt + 1 < Attempts
    THEN call' = [call EXCEPT ![c].pc = "attempt", ![c].attempt = @ + 1]
    ELSE Return(c, NoMeta)

\* The delay before an attempt, and what has been slept after it.
Slept(c) == call[c].slept + IF call[c].attempt > 0 THEN 2 ^ call[c].attempt ELSE 0

Send(c, pc) == call' = [call EXCEPT ![c].pc = pc, ![c].slept = Slept(c), ![c].broken = FALSE]

\* The end of the delay; a CRI-O without a socket is not asked.
AttemptCrio(c) ==
    /\ call[c].pc = "attempt" /\ call[c].is_crio
    /\ IF mode["crio"] = "down" THEN Return(c, NoMeta) ELSE Send(c, "crio")
    /\ UNCHANGED <<mode, changes, container, cell>>

\* CrioClient::inspect: only NotFound is tried again.
CrioReply(c) ==
    LET id == call[c].id
        ok == mode["crio"] = "up" /\ ~call[c].broken
    IN  /\ call[c].pc = "crio"
        /\ mode["crio"] # "hung" \/ call[c].broken
        /\ \/ ok /\ Known(id) /\ Return(c, CrioMeta(id, Running(id)))
           \/ ok /\ ~Known(id) /\ Retry(c)
           \/ ~ok /\ Return(c, NoMeta)
        /\ UNCHANGED <<mode, changes, container, cell>>

\* Faulty variant of AttemptContainerd: a cell that is being initialised is
\* taken as one without a client.
AttemptContainerdGet(c) ==
    /\ call[c].pc = "attempt" /\ ~call[c].is_crio
    /\ \/ /\ cell = "empty"
          /\ cell' = "init"
          /\ Send(c, "connect")
       \/ /\ cell = "client"
          /\ Send(c, "get")
          /\ UNCHANGED cell
       \/ /\ cell \in {"none", "init"}
          /\ Return(c, NoMeta)
          /\ UNCHANGED cell
    /\ UNCHANGED <<mode, changes, container>>

\* containerd(): get_or_init lets one caller connect; the others wait for it
\* (no disjunct is enabled while cell is "init").
AttemptContainerd(c) ==
    /\ call[c].pc = "attempt" /\ ~call[c].is_crio
    /\ \/ /\ cell = "empty"
          /\ cell' = "init"
          /\ Send(c, "connect")
       \/ /\ cell = "client"
          /\ Send(c, "get")
          /\ UNCHANGED cell
       \/ /\ cell = "none"
          /\ Return(c, NoMeta)
          /\ UNCHANGED cell
    /\ UNCHANGED <<mode, changes, container>>

\* Faulty variant of Connect: a failure is not stored, and the waiting
\* callers are not woken.
ConnectLost(c) ==
    /\ call[c].pc = "connect"
    /\ IF mode["containerd"] = "down" \/ call[c].broken
       THEN UNCHANGED cell /\ Return(c, NoMeta)
       ELSE cell' = "client" /\ call' = [call EXCEPT ![c].pc = "get"]
    /\ UNCHANGED <<mode, changes, container>>

\* The result of the connection is kept, a failure too.  A hung containerd
\* still has its socket: the connection may succeed (its fairness says when
\* it must end).
Connect(c) ==
    /\ call[c].pc = "connect"
    /\ IF mode["containerd"] = "down" \/ call[c].broken
       THEN cell' = "none" /\ Return(c, NoMeta)
       ELSE cell' = "client" /\ call' = [call EXCEPT ![c].pc = "get"]
    /\ UNCHANGED <<mode, changes, container>>

\* ContainerdClient::inspect: containers.get, whose NotFound is final and
\* whose other errors are tried again, ...
ContainersGet(c) ==
    LET ok == mode["containerd"] = "up" /\ ~call[c].broken
    IN  /\ call[c].pc = "get"
        /\ mode["containerd"] # "hung" \/ call[c].broken
        /\ \/ ok /\ Known(call[c].id) /\ call' = [call EXCEPT ![c].pc = "task"]
           \/ ok /\ ~Known(call[c].id) /\ Return(c, NoMeta)
           \/ ~ok /\ Retry(c)
        /\ UNCHANGED <<mode, changes, container, cell>>

\* ... then tasks.get, whose failure only means that there is no pid.
TasksGet(c) ==
    LET ok == mode["containerd"] = "up" /\ ~call[c].broken
    IN  /\ call[c].pc = "task"
        /\ mode["containerd"] # "hung" \/ call[c].broken
        /\ Return(c, ContainerdMeta(call[c].id, ok /\ Running(call[c].id)))
        /\ UNCHANGED <<mode, changes, container, cell>>

\* add_container builds its handle from the metadata.
Use(c) ==
    /\ call[c].pc = "done"
    /\ call' = [call EXCEPT ![c] = Idle]
    /\ UNCHANGED <<mode, changes, container, cell>>

Step(c) ==
    \/ AttemptCrio(c) \/ CrioReply(c)
    \/ AttemptContainerd(c) \/ Connect(c) \/ ContainersGet(c) \/ TasksGet(c)
    \/ Use(c)

Next ==
    \/ \E r \in {"crio", "containerd"}, m \in Modes : ModeChanges(r, m)
    \/ \E b \in Basenames : Lives(b)
    \/ \E c \in Callers : Step(c) \/ \E b \in Basenames : Begin(c, b)

\* Answers come from a runtime that does not hang; the code has no timeout.
Answering(c) ==
    \/ call[c].pc \in {"attempt", "done"}
    \/ mode[Asked(c)] # "hung"
    \/ call[c].broken

Fairness == \A c \in Callers : SF_vars(Answering(c) /\ Step(c))

Spec == Init /\ [][Next]_vars /\ Fairness
-----------------------------------------------------------------------------
(* Properties.                                                             *)

Finished(c) == call[c].pc = "done"
Missed(c) == Finished(c) /\ call[c].meta = NoMeta

\* A container its runtime knew, and could be asked about, during the whole
\* call gets its metadata, except from a containerd that could not be reached
\* when the first container needed it: runtime_meta's errors, the retry loop
\* and the shared cell lose nothing else.
MetaIsFound ==
    \A c \in Callers :
        Missed(c) /\ call[c].up /\ call[c].knew =>
            ~call[c].is_crio /\ cell = "none"

\* "with retries for registration races": runtime_meta gives up on a CRI-O
\* container that is not registered only after the delays of all attempts
\* (200 and 400 ms), or when CRI-O went away or failed in the meantime.
CrioRaceIsWaitedFor ==
    \A c \in Callers :
        Missed(c) /\ call[c].is_crio /\ call[c].up => call[c].slept = 6

\* A pod sandbox that runs during the whole call is registered with its pid:
\* without it (nothing sets init_pid later) sample never reads its network.
SandboxHasPid ==
    \A c \in Callers :
        Finished(c) /\ call[c].up /\ call[c].ran /\ call[c].meta.reports_network => call[c].meta.init_pid

\* A container known throughout is found, with the pid it needs.
KnownIsFound == MetaIsFound /\ SandboxHasPid

\* A call returns when its runtime is not hung for ever; a hung containerd,
\* with the shared cell half way, does not hold a CRI-O container's call.
EveryCallReturns ==
    \A c \in Callers, r \in {"crio", "containerd"} :
        []<>(mode[r] # "hung") => (Busy(c, r) ~> ~Busy(c, r))
=============================================================================
