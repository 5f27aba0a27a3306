------------------------------- MODULE Serving ------------------------------
(***************************************************************************)
(* The server around the handlers: the startup of cadvisor/src/main.rs,    *)
(* the accept loop and TLS handshakes of secure.rs serve_tls (or axum's    *)
(* plain server), the bearer check of require_bearer, and shutdown.        *)
(*                                                                         *)
(* The tokens are a file that is replaced while requests come; how they    *)
(* are reloaded is what Reloaded says (Watched implements it).  The        *)
(* handlers themselves are in Requests, the event stream in EventLog.      *)
(***************************************************************************)
EXTENDS Integers, Sequences

CONSTANTS
    Flags,       \* the command lines and hosts: see Step
    Clients,     \* who connects, once each
    Asks,        \* the requests they make: path and authorization
    Tokens,      \* tokens
    Contents,    \* sets of lines the token file may hold
    Absent,      \* the token file does not exist
    MaxWrites,   \* bound on the replacements of the token file
    MaxErrors    \* bound on the errors of accept

VARIABLES
    flags,       \* Args, and the state of the host
    boot,        \* how many of the startup steps are done, or "exited"
    file, writes, phase, value,   \* the token file and the tokens: see Reloaded
    loop,        \* the accept loop
    errors,      \* errors of accept so far
    signalled,   \* SIGINT has come
    conn,        \* client -> its connection
    during       \* history: the tokens in use since a client asked

tokenVars == <<file, writes, phase, value>>
servingVars == <<flags, boot, tokenVars, loop, errors, signalled, conn, during>>

\* parse_tokens: comments and blank lines are no tokens.
ParseTokens(lines) == lines \cap Tokens

\* load_tokens: a file without tokens is an error.
LoadTokens == {[i \in 1..1 |-> c] : c \in {d \in Contents : ParseTokens(d) # {}}}

Watch == INSTANCE Reloaded WITH N <- 1, Good <- LoadTokens

\* The tokens in use.
InUse == ParseTokens(value[1].content)

Conn(pc, ask, answer) == [pc |-> pc, ask |-> ask, answer |-> answer]
NoAsk == [path |-> "", scheme |-> "", token |-> ""]
Closed == Conn("closed", NoAsk, 0)

ServingInit ==
    /\ flags \in Flags
    /\ boot = 0
    /\ Watch!Init
    /\ loop = "idle" /\ errors = 0 /\ signalled = FALSE
    /\ conn = [c \in Clients |-> Conn("away", NoAsk, 0)]
    /\ during = [c \in Clients |-> {}]
-----------------------------------------------------------------------------
(* main.                                                                   *)

\* In order; the certificate is loaded last, when the port is already bound.
Startup == <<"durations", "pairing", "tokens", "manager", "bind", "certificate">>
Serving == boot = Len(Startup)
Bound == boot \in 5..Len(Startup)
Tls == flags.cert # "none"

\* Faulty variant of StepOk: a certificate without a key is as good as none.
StepOkUnpaired(step) ==
    CASE step = "durations" -> flags.durations
      [] step = "manager" -> flags.cgroup2
      [] step = "bind" -> flags.port_free
      [] step = "certificate" -> ~Tls \/ flags.key = "none" \/ (flags.cert = "good" /\ flags.key = "good")
      [] OTHER -> TRUE

\* parse_duration; --tls-cert-file and --tls-key-file go together; Manager::new
\* (check_cgroup2) and start; bind; acceptor.
StepOk(step) ==
    CASE step = "durations" -> flags.durations
      [] step = "pairing" -> (flags.cert = "none") = (flags.key = "none")
      [] step = "manager" -> flags.cgroup2
      [] step = "bind" -> flags.port_free
      [] step = "certificate" -> ~Tls \/ (flags.cert = "good" /\ flags.key = "good")
      [] OTHER -> TRUE

\* An error of any step ends the program, and with it every connection.
Boot ==
    /\ boot \in 0..(Len(Startup) - 1) /\ Startup[boot + 1] # "tokens"
    /\ IF StepOk(Startup[boot + 1])
       THEN /\ boot' = boot + 1
            /\ loop' = IF boot' = Len(Startup) THEN "accepting" ELSE loop
            /\ UNCHANGED conn
       ELSE /\ boot' = -1
            /\ conn' = [c \in Clients |-> Closed]
            /\ UNCHANGED loop
    /\ UNCHANGED <<flags, tokenVars, errors, signalled, during>>

\* secure::tokens, when a file is given.
BootTokens ==
    /\ boot \in 0..(Len(Startup) - 1) /\ Startup[boot + 1] = "tokens"
    /\ \/ ~flags.token_file /\ boot' = boot + 1 /\ UNCHANGED tokenVars
       \/ flags.token_file /\ value' = file /\ Watch!Take /\ boot' = boot + 1
       \/ /\ flags.token_file /\ [i \in 1..1 |-> file[i].content] \notin LoadTokens
          /\ Watch!Fail /\ boot' = -1
    /\ UNCHANGED <<flags, loop, errors, signalled, conn, during>>

\* The token file is replaced; a get reloads it.
Rotate(content) ==
    /\ flags.token_file /\ Watch!Replace(1, content)
    /\ UNCHANGED <<flags, boot, loop, errors, signalled, conn, during>>

Reload ==
    /\ Serving /\ flags.token_file /\ value # file /\ value' = file /\ Watch!Take
    /\ during' = [c \in Clients |-> IF conn[c].pc = "asked"
                                    THEN during[c] \cup ParseTokens(file[1].content) ELSE during[c]]
    /\ UNCHANGED <<flags, boot, loop, errors, signalled, conn>>
-----------------------------------------------------------------------------
(* The accept loop.                                                        *)

\* A client connects as soon as the port is bound; the kernel queues it.
Connect(c) ==
    /\ Bound /\ loop \in {"idle", "accepting", "backoff"}
    /\ conn[c].pc = "away"
    /\ conn' = [conn EXCEPT ![c] = Conn("queued", NoAsk, 0)]
    /\ UNCHANGED <<flags, boot, tokenVars, loop, errors, signalled, during>>

\* The connection becomes a task of its own.
Accept(c) ==
    /\ loop = "accepting" /\ conn[c].pc = "queued"
    /\ conn' = [conn EXCEPT ![c].pc = IF Tls THEN "handshake" ELSE "open"]
    /\ UNCHANGED <<flags, boot, tokenVars, loop, errors, signalled, during>>

\* EMFILE and friends.  The sleep is inside the select's arm, so shutdown is
\* not looked at until it ends.
AcceptFails ==
    /\ loop = "accepting" /\ errors < MaxErrors
    /\ \E c \in Clients : conn[c].pc = "queued"
    /\ loop' = "backoff" /\ errors' = errors + 1
    /\ UNCHANGED <<flags, boot, tokenVars, signalled, conn, during>>

BackOffEnds ==
    /\ loop = "backoff"
    /\ loop' = "accepting"
    /\ UNCHANGED <<flags, boot, tokenVars, errors, signalled, conn, during>>

Signal ==
    /\ Serving /\ ~signalled
    /\ signalled' = TRUE
    /\ UNCHANGED <<flags, boot, tokenVars, loop, errors, conn, during>>

Stop ==
    /\ loop' = "stopped"
    /\ conn' = [c \in Clients |-> Closed]
    /\ UNCHANGED <<flags, boot, tokenVars, errors, signalled, during>>

\* What of a connection waits for its client: the rest of a head, the body that
\* the handlers under /api await, an answer longer than what the socket takes,
\* an event stream.  None of them has a timeout.
OfClient == {"sending", "body", "answering", "streaming"}

Busy == {c \in Clients : conn[c].pc \in {"asked", "running"} \cup OfClient}

\* Faulty variant of Shutdown: the TLS server waits for its connections, too.
ShutdownDrains ==
    /\ signalled /\ loop = "accepting"
    /\ loop' = "draining"
    /\ UNCHANGED <<flags, boot, tokenVars, errors, signalled, conn, during>>

\* serve_tls returns; the plain server stops accepting.
Shutdown ==
    /\ signalled /\ loop = "accepting"
    /\ \/ Tls /\ Stop
       \/ /\ ~Tls /\ loop' = "draining"
          /\ UNCHANGED <<flags, boot, tokenVars, errors, signalled, conn, during>>

\* with_graceful_shutdown: the requests under way are answered first.
Drained ==
    /\ loop = "draining" /\ Busy = {}
    /\ Stop
-----------------------------------------------------------------------------
(* A connection.                                                           *)

To(c, from, pc) ==
    /\ conn[c].pc = from
    /\ conn' = [conn EXCEPT ![c].pc = pc]
    /\ UNCHANGED <<flags, boot, tokenVars, loop, errors, signalled, during>>

\* The client finishes the handshake, or is no TLS client.
Handshake(c) == To(c, "handshake", "open") \/ To(c, "handshake", "closed")

\* Faulty variant of HandshakeTimesOut: there is no timeout.
HandshakeWaits(c) == conn[c].pc = "handshake" /\ UNCHANGED servingVars

HandshakeTimesOut(c) == To(c, "handshake", "closed")

Hangup(c) ==
    /\ conn[c].pc \in {"queued", "handshake", "open", "asked"} \cup OfClient
    /\ conn' = [conn EXCEPT ![c] = Closed]
    /\ UNCHANGED <<flags, boot, tokenVars, loop, errors, signalled, during>>

\* Half of a request's head has come.  graceful_shutdown closes the connections
\* that have none.
Begin(c) == loop # "draining" /\ To(c, "open", "sending")

\* The head is complete; so is its middleware's view of the request.
Ask(c, ask) ==
    /\ conn[c].pc = "sending"
    /\ conn' = [conn EXCEPT ![c] = Conn("asked", ask, 0)]
    /\ during' = [during EXCEPT ![c] = InUse]
    /\ UNCHANGED <<flags, boot, tokenVars, loop, errors, signalled>>

HealthPaths == {"/healthz", "/-/healthy", "/-/ready"}
Known == HealthPaths \cup {"/metrics", "/machine", "/events"}

\* Routes of dispatch, whose extractors take the whole body first.
Api == {"/machine", "/events"}

\* bearer: the scheme in any case, and a token.
Bearer(ask) == IF ask.scheme \in {"Bearer", "bearer"} /\ ask.token # "" THEN {ask.token} ELSE {}

\* Faulty variant of Accepted: a token is not compared with the scheme.
AcceptedAnyScheme(ask) == ask.token \in InUse

\* accepted(tokens.get(), bearer(..)).
Accepted(ask) == Bearer(ask) \cap InUse # {}

\* require_bearer, and the route after it.
Check(c) ==
    LET ask == conn[c].ask
        next == IF ~flags.token_file \/ ask.path \in HealthPaths \/ Accepted(ask)
                THEN Conn(IF ask.path \in Api THEN "body" ELSE "running", ask, 0)
                ELSE Conn("answered", ask, 401)
    IN  /\ conn[c].pc = "asked"
        /\ conn' = [conn EXCEPT ![c] = next]
        /\ UNCHANGED <<flags, boot, tokenVars, loop, errors, signalled, during>>

\* The client sends the rest of the body; most have none.
Send(c) == To(c, "body", "running")

\* /events streams; a line or two always fits into the socket.
Written(path) ==
    CASE path = "/events" -> {"streaming"}
      [] path \in {"/metrics", "/machine"} -> {"answering", "answered"}
      [] OTHER -> {"answered"}

\* The route's handler answers.
Answer(c) ==
    LET ask == conn[c].ask
    IN  /\ conn[c].pc = "running"
        /\ \E pc \in Written(ask.path) :
              conn' = [conn EXCEPT ![c] = Conn(pc, ask, IF ask.path \in Known THEN 200 ELSE 404)]
        /\ UNCHANGED <<flags, boot, tokenVars, loop, errors, signalled, during>>

\* The client reads the rest of its answer.
Receive(c) == To(c, "answering", "answered")

ServerStep ==
    \/ Boot \/ BootTokens \/ BackOffEnds \/ Shutdown \/ Drained
    \/ \E c \in Clients : Accept(c)

ConnectionStep(c) == HandshakeTimesOut(c) \/ Check(c) \/ Answer(c)

ServingNext ==
    \/ ServerStep \/ AcceptFails \/ Signal \/ Reload
    \/ \E content \in Contents \cup {Absent} : Rotate(content)
    \/ \E c \in Clients :
          \/ ConnectionStep(c) \/ Connect(c) \/ Handshake(c) \/ Hangup(c)
          \/ Begin(c) \/ Send(c) \/ Receive(c)
          \/ \E ask \in Asks : Ask(c, ask)

\* The program's tasks run, and its timers fire; clients and SIGINT need not
\* come, and no client has to hang up, to finish its handshake or its request,
\* or to read its answer.
ServingSpec ==
    /\ ServingInit /\ [][ServingNext]_servingVars
    /\ WF_servingVars(ServerStep) /\ WF_servingVars(Shutdown)
    /\ \A c \in Clients : WF_servingVars(ConnectionStep(c))
-----------------------------------------------------------------------------
(* Properties                                                              *)

Served(c) == conn[c].answer # 0

\* With a token file nothing but health is told to a client without a bearer
\* token that was in use at some moment since it asked, known path or not,
\* however often the file is replaced meanwhile (require_bearer); and health is
\* told to everyone.
ContentNeedsToken ==
    \A c \in Clients : Served(c) /\ flags.token_file =>
        IF conn[c].ask.path \in HealthPaths THEN conn[c].answer = 200
        ELSE conn[c].answer # 401 => Bearer(conn[c].ask) \cap during[c] # {}

\* "At startup a bad file is fatal": although clients connect before the
\* certificate is read, none is ever answered by a server with a certificate or
\* key that is missing or bad, or without the TLS it was asked for; and a token
\* file that is emptied later does not leave the server without tokens.
BadFilesNeverServe ==
    \A c \in Clients : Served(c) =>
        /\ <<flags.cert, flags.key>> \in {<<"none", "none">>, <<"good", "good">>}
        /\ flags.token_file => InUse # {}

\* A client is not left waiting by another one that is silent, by errors of
\* accept or by a replaced token file, nor by one that stops in the middle of a
\* request or of an answer: it gets a connection, its answer or an end, or the
\* next word is its own.
NobodyWaitsForEver ==
    \A c \in Clients :
        conn[c].pc \in {"queued", "handshake", "asked", "running"}
            ~> (conn[c].pc \in {"open", "answered", "closed"} \cup OfClient \/ loop = "draining")

\* SIGINT ends the program although accept fails, handshakes are silent and
\* requests are under way.  Only the plain server may be held up, since
\* with_graceful_shutdown has no timeout, and then it is by one client that for
\* ever leaves its request half sent, its answer unread or its event stream
\* open; serve_tls waits for nobody.
ShutdownEnds ==
    <>signalled =>
        \/ <>(loop = "stopped")
        \/ ~Tls /\ \E c \in Clients : <>[](conn[c].pc \in OfClient)
=============================================================================
