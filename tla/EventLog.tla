------------------------------ MODULE EventLog ------------------------------
(***************************************************************************)
(* Events: record_event, events and subscribe_events of                    *)
(* cadvisor-manager/src/manager.rs and the streaming handle_events of      *)
(* cadvisor-api/src/v1.rs.                                                 *)
(*                                                                         *)
(* record_event is called by the consumer, the sweep and every             *)
(* housekeeping loop.  It first sends the event to the open streams        *)
(* (tokio's broadcast channel, external) and then, under a lock, puts it   *)
(* into the history, in timestamp order, limited in age and in number.  A  *)
(* creation carries the creation time of its cgroup, so timestamps arrive  *)
(* in any order.  A stream forwards the events that match its query to a   *)
(* client that reads at its own pace and may disconnect.                   *)
(***************************************************************************)
EXTENDS Integers, Sequences, SequencesExt

CONSTANTS
    Recorders,   \* threads that call record_event
    Streams,     \* requests with ?stream=true
    Kinds,       \* event types
    Wanted,      \* the event types every stream asks for
    Times,       \* the timestamps an event may carry
    Age,         \* history age limit: 24 hours
    Cap,         \* history length limit: 100 000
    RingCap,     \* capacity of the broadcast channel: 1024
    OutCap,      \* capacity of a stream's response channel: 16
    DefaultMax,  \* the number of events a query with max_events = 0 returns: 10
    MaxEvents    \* bound on the number of events

ASSUME EventAssumption ==
    /\ Wanted \subseteq Kinds
    /\ Times \subseteq Nat \ {0}
    /\ Age \in Nat /\ MaxEvents \in Nat
    /\ Cap \in Nat \ {0} /\ RingCap \in Nat \ {0} /\ OutCap \in Nat \ {0}
    /\ DefaultMax \in Nat \ {0}

VARIABLES
    sent,        \* every event sent to the broadcast channel, oldest first
    local,       \* the event each recorder has sent and not yet inserted, as a set
    events,      \* Manager::events, the history
    inserted,    \* history variable: every event ever inserted, in that order
    stream       \* the streams

vars == <<sent, local, events, inserted, stream>>

\* pc: new, waiting in recv, waiting in send (tx.send with the event held), or
\* ended.  next is the position in sent it receives next, out the response
\* channel, got what the client has read; first is history: where it began.
Closed == [pc |-> "new", first |-> 0, next |-> 0, held |-> <<>>, out |-> <<>>, got |-> <<>>,
           client |-> TRUE]

Init ==
    /\ sent = <<>>
    /\ local = [p \in Recorders |-> {}]
    /\ events = <<>>
    /\ inserted = <<>>
    /\ stream = [s \in Streams |-> Closed]
-----------------------------------------------------------------------------
(* record_event.                                                           *)

\* event_tx.send; it overwrites the oldest of RingCap events and never waits.
Send(p, t, k) ==
    /\ Len(sent) < MaxEvents
    /\ local[p] = {}
    /\ LET e == [id |-> Len(sent) + 1, t |-> t, kind |-> k] IN
         /\ sent' = Append(sent, e)
         /\ local' = [local EXCEPT ![p] = {e}]
    /\ UNCHANGED <<events, inserted, stream>>

\* In a sequence in timestamp order: how many events are not later than t.
UpTo(s, t) == CHOOSE n \in 0..Len(s) : \A i \in DOMAIN s : s[i].t <= t <=> i <= n

\* Faulty variant of Place: the event goes before those of the same time.
PlaceBefore(s, e) == InsertAt(s, UpTo(s, e.t - 1) + 1, e)

\* partition_point and insert; the history is in timestamp order.
Place(s, e) == InsertAt(s, UpTo(s, e.t) + 1, e)

\* The last max elements of s: all, once the excess is drained from the front.
LastOf(s, max) == IF Len(s) > max THEN SubSeq(s, Len(s) - max + 1, Len(s)) ELSE s

\* The age limit is relative to the newest event; then comes the length limit.
Trim(s) == LastOf(SubSeq(s, UpTo(s, s[Len(s)].t - Age - 1) + 1, Len(s)), Cap)

Insert(p) ==
    \E e \in local[p] :
        /\ local' = [local EXCEPT ![p] = {}]
        /\ events' = Trim(Place(events, e))
        /\ inserted' = Append(inserted, e)
        /\ UNCHANGED <<sent, stream>>
-----------------------------------------------------------------------------
(* A stream: the task spawned by handle_events, and its client.            *)

\* subscribe_events: only events sent from now on.
Subscribe(s) ==
    /\ stream[s].pc = "new"
    /\ stream' = [stream EXCEPT ![s].pc = "recv", ![s].first = Len(sent) + 1,
                                ![s].next = Len(sent) + 1]
    /\ UNCHANGED <<sent, local, events, inserted>>

\* More than RingCap events wait: the next one has been overwritten.
Lagging(s) == Len(sent) - stream[s].next + 1 > RingCap

\* rx.recv(): the next event, forwarded if it matches the query.
Recv(s) ==
    /\ stream[s].pc = "recv" /\ stream[s].next <= Len(sent) /\ ~Lagging(s)
    /\ LET e == sent[stream[s].next] IN
         stream' = [stream EXCEPT
                      ![s].next = @ + 1,
                      ![s].pc = IF e.kind \in Wanted THEN "send" ELSE "recv",
                      ![s].held = IF e.kind \in Wanted THEN <<e>> ELSE <<>>]
    /\ UNCHANGED <<sent, local, events, inserted>>

\* Faulty variant of RecvLagged: the loop goes on with the oldest event left.
RecvLaggedContinues(s) ==
    /\ stream[s].pc = "recv" /\ Lagging(s)
    /\ stream' = [stream EXCEPT ![s].next = Len(sent) - RingCap + 1]
    /\ UNCHANGED <<sent, local, events, inserted>>

\* Faulty variant of RecvLagged: the error is ignored.
RecvLaggedStuck(s) == stream[s].pc = "recv" /\ Lagging(s) /\ UNCHANGED vars

\* rx.recv() returns Lagged, which is not Ok: the loop ends.
RecvLagged(s) ==
    /\ stream[s].pc = "recv" /\ Lagging(s)
    /\ stream' = [stream EXCEPT ![s].pc = "ended"]
    /\ UNCHANGED <<sent, local, events, inserted>>

\* tx.send(line).await: it waits for room, and fails without a client.
Forward(s) ==
    /\ stream[s].pc = "send"
    /\ \/ /\ stream[s].client /\ Len(stream[s].out) < OutCap
          /\ stream' = [stream EXCEPT ![s].pc = "recv", ![s].held = <<>>,
                                      ![s].out = @ \o stream[s].held]
       \/ /\ ~stream[s].client
          /\ stream' = [stream EXCEPT ![s].pc = "ended", ![s].held = <<>>]
    /\ UNCHANGED <<sent, local, events, inserted>>

ClientReads(s) ==
    /\ stream[s].client /\ stream[s].out # <<>>
    /\ stream' = [stream EXCEPT ![s].out = Tail(@), ![s].got = Append(@, Head(stream[s].out))]
    /\ UNCHANGED <<sent, local, events, inserted>>

Disconnect(s) ==
    /\ stream[s].client /\ stream[s].pc # "new"
    /\ stream' = [stream EXCEPT ![s].client = FALSE, ![s].out = <<>>]
    /\ UNCHANGED <<sent, local, events, inserted>>

StreamStep(s) == Recv(s) \/ RecvLagged(s) \/ Forward(s)

Next ==
    \/ \E p \in Recorders : Insert(p) \/ \E t \in Times, k \in Kinds : Send(p, t, k)
    \/ \E s \in Streams : Subscribe(s) \/ StreamStep(s) \/ ClientReads(s) \/ Disconnect(s)

Spec == Init /\ [][Next]_vars

\* The runtime polls the stream's task; a client that is connected reads on.
FairSpec ==
    /\ Spec
    /\ \A s \in Streams : WF_vars(StreamStep(s)) /\ WF_vars(ClientReads(s))
-----------------------------------------------------------------------------
(* A query of the history.                                                 *)

\* EventQuery::matches, on an event's type and time; 0 is an unbounded side.
Matches(q, e) ==
    /\ e.kind \in q.kinds
    /\ q.start = 0 \/ e.t >= q.start
    /\ q.end = 0 \/ e.t <= q.end

\* Manager::events: the last max of the matching events.
Query(q) ==
    LET matching[n \in 0..Len(events)] ==
            IF n = 0 THEN <<>>
            ELSE IF Matches(q, events[n]) THEN Append(matching[n - 1], events[n])
            ELSE matching[n - 1]
    IN  LastOf(matching[Len(events)], IF q.max = 0 THEN DefaultMax ELSE q.max)
-----------------------------------------------------------------------------
(* Properties *)

\* The order of the history: by timestamp, then by insertion.  Every event is
\* inserted once.
Earlier(e, f) ==
    \E i, j \in DOMAIN inserted :
        /\ inserted[i] = e /\ inserted[j] = f
        /\ e.t < f.t \/ (e.t = f.t /\ i < j)

\* s lists the max latest of the events in S, in order.
ListsTheLatest(s, S, max) ==
    /\ Len(s) <= max
    /\ \A i, j \in DOMAIN s : i < j => Earlier(s[i], s[j])
    /\ Range(s) \subseteq S
    /\ \A e \in S \ Range(s) : Len(s) = max /\ \A i \in DOMAIN s : Earlier(e, s[i])

Recent(e) == \A f \in Range(inserted) : e.t >= f.t - Age

Queries == [kinds : SUBSET Kinds, start : {0} \cup Times, end : {0} \cup Times, max : 0..1]

\* The history is what an unlimited log would show: the Cap latest events of
\* those within Age of the newest one, whatever the order they were recorded
\* in; dropping on every insertion never loses an event a later one would have
\* left in (record_event).  And a query returns the most recent matching events
\* of it, however many that do not match are newer (events).
HistoryIsTheLatest ==
    /\ ListsTheLatest(events, {e \in Range(inserted) : Recent(e)}, Cap)
    /\ \A q \in Queries :
          ListsTheLatest(Query(q), {e \in Range(events) : Matches(q, e)},
                         IF q.max = 0 THEN DefaultMax ELSE q.max)

\* A stream has no gap and no duplicate: what its client has read, what waits in
\* its channel and what it holds are the matching events sent since it was
\* opened, up to where it has come; a stream that falls behind ends, it does
\* not skip (the loop of handle_events over a lossy channel).
StreamHasNoGap ==
    \A s \in Streams :
        LET st == stream[s]
            forwarded == st.got \o st.out \o st.held
        IN  st.client /\ st.pc # "new" =>
            /\ \A i, j \in DOMAIN forwarded : i < j => forwarded[i].id < forwarded[j].id
            /\ Range(forwarded) = {sent[i] : i \in {j \in st.first..(st.next - 1) : sent[j].kind \in Wanted}}

\* Every matching event sent while a stream is open reaches its client, unless
\* the client leaves or the stream ends (handle_events under lag and back
\* pressure).
StreamDelivers ==
    \A s \in Streams : \A i \in 1..MaxEvents :
        (stream[s].pc \in {"recv", "send"}
            /\ \E j \in stream[s].first..Len(sent) : j = i /\ sent[j].kind \in Wanted)
          ~> \/ i \in {stream[s].got[j].id : j \in DOMAIN stream[s].got}
             \/ ~stream[s].client \/ stream[s].pc = "ended"
=============================================================================
