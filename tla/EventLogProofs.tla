--------------------------- MODULE EventLogProofs ---------------------------
(***************************************************************************)
(* Proofs about EventLog, for any events in any order, any limits of age   *)
(* and number, and any streams: what the history, the queries of it and    *)
(* the streams show.                                                       *)
(***************************************************************************)
EXTENDS EventLog, WellFoundedInduction, NaturalsInduction, SequenceTheorems, TLAPS

Event == [id : Nat, t : Nat, kind : Kinds]

\* In timestamp order.
Sorted(s) == \A i, j \in 1..Len(s) : i < j => s[i].t <= s[j].t

\* A set of naturals that is not empty has a least element.
LEMMA LeastNat ==
    ASSUME NEW S \in SUBSET Nat, S # {}
    PROVE  \E m \in S : \A k \in S : m <= k
<1>1. PICK m \in S : \A k \in S : ~(<<k, m>> \in OpToRel(<, Nat))
  BY NatLessThanWellFounded, WFMin
<1>2. ASSUME NEW k \in S PROVE m <= k
  <2>1. k < m => <<k, m>> \in OpToRel(<, Nat)
    <3>1. <<k, m>> \in Nat \X Nat /\ <<k, m>>[1] = k /\ <<k, m>>[2] = m
      OBVIOUS
    <3> QED
      BY <3>1, Zenon DEF OpToRel
  <2>2. k \in Nat /\ m \in Nat /\ ~(k < m)
    BY <2>1, <1>1
  <2> QED
    BY <2>2
<1> QED
  BY <1>2
-----------------------------------------------------------------------------
(* The operators of the history.                                           *)

LEMMA EventType == \A e \in Event : e.t \in Nat /\ e.t \in Int /\ e.id \in Nat
BY DEF Event

\* In a sequence in timestamp order the events not later than t are a prefix.
LEMMA UpToCorrect ==
    ASSUME NEW s \in Seq(Event), NEW t \in Int, Sorted(s)
    PROVE  /\ UpTo(s, t) \in 0..Len(s)
           /\ \A i \in 1..Len(s) : s[i].t <= t <=> i <= UpTo(s, t)
<1> DEFINE S == {n \in 0..Len(s) : \A i \in (n + 1)..Len(s) : ~(s[i].t <= t)}
<1>0. Len(s) \in Nat /\ DOMAIN s = 1..Len(s) /\ \A i \in 1..Len(s) : s[i].t \in Int
  BY EventType
<1>1. S \in SUBSET Nat /\ Len(s) \in S
  BY <1>0
<1>2. PICK n \in S : \A m \in S : n <= m
  BY <1>1, LeastNat
<1>3. n \in 0..Len(s) /\ \A i \in (n + 1)..Len(s) : ~(s[i].t <= t)
  BY <1>2
<1>4. ASSUME n > 0 PROVE s[n].t <= t
  <2>0. n - 1 \in 0..Len(s) /\ ~(n <= n - 1)
    BY <1>0, <1>3, <1>4
  <2>1. n - 1 \notin S
    BY <1>2, <2>0
  <2>2. PICK i \in n..Len(s) : s[i].t <= t
    <3>1. (n - 1) + 1 = n
      BY <1>3
    <3> QED
      BY <2>0, <2>1, <3>1
  <2> QED
    BY <1>3, <1>0, <2>2, <1>4
<1>5. \A i \in 1..Len(s) : s[i].t <= t <=> i <= n
  <2> SUFFICES ASSUME NEW i \in 1..Len(s) PROVE s[i].t <= t <=> i <= n
    OBVIOUS
  <2>1. CASE i <= n
    <3>1. s[n].t <= t /\ n \in 1..Len(s)
      BY <1>0, <1>3, <1>4, <2>1
    <3>2. i = n \/ s[i].t <= s[n].t
      BY <1>0, <2>1, <3>1 DEF Sorted
    <3> QED
      BY <1>0, <2>1, <3>1, <3>2
  <2>2. CASE ~(i <= n)
    BY <1>0, <1>3, <2>2
  <2> QED
    BY <2>1, <2>2
<1>6. \E m \in 0..Len(s) : \A i \in DOMAIN s : s[i].t <= t <=> i <= m
  BY <1>0, <1>3, <1>5
<1> QED
  BY <1>0, <1>6 DEF UpTo

\* Where an insertion puts the new event and what it leaves where it was.
LEMMA PlaceCorrect ==
    ASSUME NEW s \in Seq(Event), NEW x \in Event, Sorted(s)
    PROVE  \E k \in 0..Len(s) :
              /\ \A i \in 1..Len(s) : s[i].t <= x.t <=> i <= k
              /\ Place(s, x) \in Seq(Event)
              /\ Len(Place(s, x)) = Len(s) + 1
              /\ \A i \in 1..(Len(s) + 1) :
                    Place(s, x)[i] = IF i <= k THEN s[i] ELSE IF i = k + 1 THEN x ELSE s[i - 1]
<1> DEFINE k == UpTo(s, x.t)
           front == SubSeq(s, 1, k)
           back == SubSeq(s, k + 1, Len(s))
<1>1. k \in 0..Len(s) /\ \A i \in 1..Len(s) : s[i].t <= x.t <=> i <= k
  BY UpToCorrect, EventType
<1>2. Place(s, x) = front \o <<x>> \o back
  <2>1. (k + 1) - 1 = k
    BY <1>1
  <2> QED
    BY <2>1 DEF Place, InsertAt
<1> HIDE DEF k
<1>3. /\ front \in Seq(Event) /\ Len(front) = k
      /\ \A i \in 1..k : front[i] = s[i]
  BY <1>1
<1>4. /\ back \in Seq(Event) /\ Len(back) = Len(s) - k
      /\ \A i \in 1..(Len(s) - k) : back[i] = s[k + i]
  BY <1>1
<1> HIDE DEF front, back
<1>5. /\ <<x>> \in Seq(Event) /\ Len(<<x>>) = 1 /\ <<x>>[1] = x
  OBVIOUS
<1>6. PICK f : f = front \o <<x>>
  OBVIOUS
<1>7. /\ f \in Seq(Event) /\ Len(f) = k + 1
      /\ \A i \in 1..(k + 1) : f[i] = IF i <= k THEN s[i] ELSE x
  BY <1>1, <1>3, <1>5, <1>6
<1>8. PICK r : r = f \o back
  OBVIOUS
<1>9. /\ r \in Seq(Event) /\ Len(r) = Len(s) + 1
      /\ \A i \in 1..(Len(s) + 1) : r[i] = IF i <= k + 1 THEN f[i] ELSE back[i - (k + 1)]
  <2>1. Len(f) + Len(back) = Len(s) + 1
    BY <1>1, <1>4, <1>7
  <2> QED
    BY <1>4, <1>7, <1>8, <2>1, ConcatProperties
<1>10. ASSUME NEW i \in 1..(Len(s) + 1)
       PROVE  r[i] = IF i <= k THEN s[i] ELSE IF i = k + 1 THEN x ELSE s[i - 1]
  <2>1. CASE i <= k + 1
    BY <1>1, <1>7, <1>9, <2>1
  <2>2. CASE i > k + 1
    <3>1. i - (k + 1) \in 1..(Len(s) - k) /\ k + (i - (k + 1)) = i - 1
      BY <1>1, <2>2
    <3> QED
      BY <1>1, <1>4, <1>9, <2>2, <3>1
  <2> QED
    BY <1>1, <2>1, <2>2
<1> QED
  BY <1>1, <1>2, <1>6, <1>8, <1>9, <1>10

\* The last max elements.
LEMMA LastOfCorrect ==
    ASSUME NEW s \in Seq(Event), NEW max \in Nat
    PROVE  \E m \in 0..Len(s) :
              /\ LastOf(s, max) \in Seq(Event)
              /\ Len(LastOf(s, max)) = Len(s) - m /\ Len(s) - m <= max
              /\ m = 0 \/ Len(s) - m = max
              /\ \A i \in 1..(Len(s) - m) : LastOf(s, max)[i] = s[m + i]
<1>1. CASE Len(s) > max
  <2>3. Len(s) - max \in 0..Len(s)
    BY <1>1
  <2>0. PICK m \in 0..Len(s) : m = Len(s) - max
    BY <2>3
  <2>1. LastOf(s, max) = SubSeq(s, m + 1, Len(s)) /\ Len(s) - m = max
    BY <1>1, <2>0 DEF LastOf
  <2>2. /\ SubSeq(s, m + 1, Len(s)) \in Seq(Event)
        /\ Len(SubSeq(s, m + 1, Len(s))) = Len(s) - m
        /\ \A i \in 1..(Len(s) - m) : SubSeq(s, m + 1, Len(s))[i] = s[m + i]
    OBVIOUS
  <2> QED
    BY <2>1, <2>2
<1>2. CASE ~(Len(s) > max)
  <2>1. LastOf(s, max) = s
    BY <1>2 DEF LastOf
  <2> WITNESS 0 \in 0..Len(s)
  <2>2. Len(s) \in Nat /\ Len(s) - 0 = Len(s) /\ \A i \in 1..Len(s) : 0 + i = i
    OBVIOUS
  <2> QED
    BY <1>2, <2>1, <2>2
<1> QED
  BY <1>1, <1>2

\* The two limits leave a suffix: all that is within Age of the newest event,
\* or the last Cap of it.
LEMMA TrimCorrect ==
    ASSUME NEW r \in Seq(Event), r # <<>>, Sorted(r)
    PROVE  \E m \in 0..(Len(r) - 1) :
              /\ Trim(r) \in Seq(Event)
              /\ Len(Trim(r)) = Len(r) - m /\ Len(r) - m <= Cap
              /\ \A i \in 1..(Len(r) - m) : Trim(r)[i] = r[m + i]
              /\ \A i \in 1..Len(r) : i > m => r[i].t >= r[Len(r)].t - Age
              /\ \A i \in 1..m : r[i].t >= r[Len(r)].t - Age => Len(r) - m = Cap
<1> DEFINE c == r[Len(r)].t - Age - 1
           n == UpTo(r, c)
           u == SubSeq(r, n + 1, Len(r))
<1>0. /\ Len(r) \in Nat /\ Len(r) \in 1..Len(r) /\ Cap \in Nat \ {0} /\ Age \in Nat
      /\ \A i \in 1..Len(r) : r[i].t \in Nat
      /\ c \in Int
  BY EventType, EventAssumption
<1>1. n \in 0..Len(r) /\ \A i \in 1..Len(r) : r[i].t <= c <=> i <= n
  BY <1>0, UpToCorrect
<1>2. Trim(r) = LastOf(u, Cap)
  BY DEF Trim
<1> HIDE DEF n
<1>3. \A i \in 1..Len(r) : r[i].t >= r[Len(r)].t - Age <=> i > n
  BY <1>0, <1>1
<1>4. n < Len(r)
  BY <1>0, <1>1, <1>3
<1>5. /\ u \in Seq(Event) /\ Len(u) = Len(r) - n
      /\ \A i \in 1..(Len(r) - n) : u[i] = r[n + i]
  BY <1>1
<1> HIDE DEF u, c
<1>6. PICK m \in 0..Len(u) :
          /\ LastOf(u, Cap) \in Seq(Event)
          /\ Len(LastOf(u, Cap)) = Len(u) - m /\ Len(u) - m <= Cap
          /\ m = 0 \/ Len(u) - m = Cap
          /\ \A i \in 1..(Len(u) - m) : LastOf(u, Cap)[i] = u[m + i]
  BY <1>0, <1>5, LastOfCorrect
<1>7. n + m \in 0..(Len(r) - 1) /\ Len(u) - m = Len(r) - (n + m)
  BY <1>0, <1>1, <1>4, <1>5, <1>6
<1>8. \A i \in 1..(Len(r) - (n + m)) : LastOf(u, Cap)[i] = r[(n + m) + i]
  <2> SUFFICES ASSUME NEW i \in 1..(Len(r) - (n + m)) PROVE LastOf(u, Cap)[i] = r[(n + m) + i]
    OBVIOUS
  <2>1. m + i \in 1..(Len(r) - n) /\ n + (m + i) = (n + m) + i
    BY <1>0, <1>1, <1>6, <1>7, SMTT(30)
  <2> QED
    BY <1>5, <1>6, <1>7, <2>1
<1>9. \A i \in 1..(n + m) : r[i].t >= r[Len(r)].t - Age => Len(r) - (n + m) = Cap
  <2> SUFFICES ASSUME NEW i \in 1..(n + m), r[i].t >= r[Len(r)].t - Age
               PROVE  Len(u) - m = Cap
    BY <1>7
  <2>1. i \in 1..Len(r)
    BY <1>0, <1>1, <1>7
  <2>2. i > n
    BY <1>3, <2>1
  <2>3. m # 0
    BY <1>1, <1>6, <2>1, <2>2
  <2> QED
    BY <1>6, <2>3
<1>10. \A i \in 1..Len(r) : i > n + m => r[i].t >= r[Len(r)].t - Age
  BY <1>0, <1>1, <1>3, <1>6
<1> QED
  BY <1>2, <1>6, <1>7, <1>8, <1>9, <1>10
-----------------------------------------------------------------------------
(* The induction invariant.                                                *)

Pcs == {"new", "recv", "send", "ended"}
StreamStates == [pc : Pcs, first : Nat, next : Nat, held : Seq(Event), out : Seq(Event),
                 got : Seq(Event), client : BOOLEAN]

Typed ==
    /\ sent \in Seq(Event)
    /\ local \in [Recorders -> SUBSET Event]
    /\ events \in Seq(Event) /\ inserted \in Seq(Event)
    /\ stream \in [Streams -> StreamStates]

\* The history has an event as soon as one was inserted, and the newest of all
\* is its last: the age limit is relative to it.
History ==
    /\ ListsTheLatest(events, {e \in Range(inserted) : Recent(e)}, Cap)
    /\ inserted # <<>> =>
          events # <<>> /\ \A f \in Range(inserted) : f.t <= events[Len(events)].t

\* The number of an event is its position in sent.
Numbered == \A i \in 1..Len(sent) : sent[i].id = i

\* The number of an event tells it from all others that are or will be
\* inserted, so that it has one place in the order of the history.
Once ==
    /\ \A p \in Recorders : \A e \in local[p] :
          e.id <= Len(sent) /\ \A i \in 1..Len(inserted) : inserted[i].id # e.id
    /\ \A p, q \in Recorders : \A e \in local[p], f \in local[q] : e.id = f.id => p = q /\ e = f
    /\ \A i, j \in 1..Len(inserted) : inserted[i].id = inserted[j].id => i = j
    /\ \A i \in 1..Len(inserted) : inserted[i].id <= Len(sent)

Forwarded(st) == st.got \o st.out \o st.held
Due(st) == {sent[i] : i \in {j \in st.first..(st.next - 1) : sent[j].kind \in Wanted}}
Ascending(s) == \A i, j \in 1..Len(s) : i < j => s[i].id < s[j].id

\* A stream that is open reads on from where it began, and holds an event only
\* while it waits for room in its channel.
Follows(st) ==
    /\ st.pc = "new" => st.got = <<>> /\ st.out = <<>>
    /\ st.pc # "send" => st.held = <<>>
    /\ st.pc # "new" => 1 <= st.first /\ st.first <= st.next /\ st.next <= Len(sent) + 1
    /\ st.pc # "new" /\ st.client =>
          Ascending(Forwarded(st)) /\ Range(Forwarded(st)) = Due(st)

Streaming == \A s \in Streams : Follows(stream[s])

IInv == Typed /\ History /\ Numbered /\ Once /\ Streaming

LEMMA InRange ==
    ASSUME NEW s \in Seq(Event)
    PROVE  /\ Len(s) \in Nat /\ DOMAIN s = 1..Len(s)
           /\ \A i \in 1..Len(s) : s[i] \in Event /\ s[i] \in Range(s)
           /\ \A e \in Range(s) : e \in Event /\ \E i \in 1..Len(s) : s[i] = e
BY DEF Range

\* Initially nothing was recorded.
LEMMA InitInvariant == Init => IInv
<1> SUFFICES ASSUME Init PROVE IInv
  OBVIOUS
<1>0. /\ <<>> \in Seq(Event) /\ Len(<<>>) = 0 /\ Range(<<>>) = {}
      /\ sent = <<>> /\ events = <<>> /\ inserted = <<>>
      /\ local = [p \in Recorders |-> {}] /\ stream = [s \in Streams |-> Closed]
  BY DEF Init, Range
<1>1. Closed \in StreamStates
  BY <1>0 DEF Closed, StreamStates, Pcs
<1>2. Typed
  BY <1>0, <1>1 DEF Typed
<1>3. History
  BY <1>0, EventAssumption DEF History, ListsTheLatest
<1>4. Numbered /\ Once
  BY <1>0 DEF Numbered, Once
<1>5. Streaming
  BY <1>0 DEF Streaming, Follows, Closed
<1> QED
  BY <1>2, <1>3, <1>4, <1>5 DEF IInv
-----------------------------------------------------------------------------
(* record_event.                                                           *)

\* The order among the inserted events is not changed by a later one, which
\* comes after all that are not newer.
LEMMA OrderGrows ==
    ASSUME inserted \in Seq(Event), NEW x \in Event, inserted' = Append(inserted, x)
    PROVE  /\ inserted' \in Seq(Event)
           /\ Range(inserted') = Range(inserted) \cup {x}
           /\ \A e, f : Earlier(e, f) => Earlier(e, f)'
           /\ \A e \in Range(inserted) : e.t <= x.t => Earlier(e, x)'
           /\ \A e \in Range(inserted) : ~(e.t <= x.t) => Earlier(x, e)'
<1> DEFINE n == Len(inserted)
<1>1. /\ n \in Nat /\ inserted' \in Seq(Event) /\ Len(inserted') = n + 1
      /\ \A i \in 1..n : inserted'[i] = inserted[i]
      /\ inserted'[n + 1] = x
      /\ DOMAIN inserted = 1..n /\ DOMAIN inserted' = 1..(n + 1)
  OBVIOUS
<1> HIDE DEF n
<1>2. Range(inserted') = Range(inserted) \cup {x}
  <2>1. \A i \in 1..(n + 1) : i \in 1..n \/ i = n + 1
    BY <1>1
  <2>2. n + 1 \in 1..(n + 1) /\ \A i \in 1..n : i \in 1..(n + 1)
    BY <1>1
  <2> QED
    BY <1>1, <2>1, <2>2 DEF Range
<1>3. \A e, f : Earlier(e, f) => Earlier(e, f)'
  <2> SUFFICES ASSUME NEW e, NEW f, Earlier(e, f) PROVE Earlier(e, f)'
    OBVIOUS
  <2>1. PICK i \in 1..n, j \in 1..n : /\ inserted[i] = e /\ inserted[j] = f
                                      /\ e.t < f.t \/ (e.t = f.t /\ i < j)
    BY <1>1 DEF Earlier
  <2>2. i \in 1..(n + 1) /\ j \in 1..(n + 1)
    BY <1>1
  <2> QED
    BY <1>1, <2>1, <2>2 DEF Earlier
<1>4. ASSUME NEW e \in Range(inserted)
      PROVE  /\ e.t <= x.t => Earlier(e, x)'
             /\ ~(e.t <= x.t) => Earlier(x, e)'
  <2>1. PICK i \in 1..n : inserted[i] = e
    BY <1>1, <1>4, InRange
  <2>2. e.t \in Nat /\ x.t \in Nat
    BY <1>4, InRange, EventType
  <2>3. i \in 1..(n + 1) /\ n + 1 \in 1..(n + 1) /\ i < n + 1
    BY <1>1
  <2>4. inserted'[i] = e /\ inserted'[n + 1] = x
    BY <1>1, <2>1
  <2> QED
    BY <1>1, <2>2, <2>3, <2>4 DEF Earlier
<1> QED
  BY <1>1, <1>2, <1>3, <1>4

\* An event that is no longer in the history, and is recent enough, is older
\* than all of the full history, and stays so.
LEMMA HistoryStep ==
    ASSUME IInv, NEW x \in Event,
           events' = Trim(Place(events, x)), inserted' = Append(inserted, x)
    PROVE  events' \in Seq(Event) /\ History'
<1> PICK N : N = Len(events)
  OBVIOUS
<1>a. events \in Seq(Event) /\ inserted \in Seq(Event)
  BY DEF IInv, Typed
<1>0. /\ N \in Nat /\ Cap \in Nat /\ Age \in Nat /\ x.t \in Nat
      /\ \A i \in 1..N : events[i].t \in Nat
  BY <1>a, EventType, EventAssumption
<1>b. DOMAIN events = 1..N /\ N <= Cap /\ Cap > 0
  BY <1>a, EventAssumption DEF IInv, History, ListsTheLatest
<1>c. \A i, j \in 1..N : i < j => Earlier(events[i], events[j])
  BY <1>b DEF IInv, History, ListsTheLatest
<1>d. \A i \in 1..N : events[i] \in Range(inserted) /\ Recent(events[i])
  BY <1>b DEF IInv, History, ListsTheLatest, Range
<1>e. \A e \in Range(inserted) : e \notin Range(events) /\ Recent(e) =>
            N = Cap /\ \A i \in 1..N : Earlier(e, events[i])
  BY <1>b DEF IInv, History, ListsTheLatest
<1>f. inserted # <<>> => N > 0 /\ \A f \in Range(inserted) : f.t <= events[N].t
  BY <1>a DEF IInv, History
<1>1. \A e, f : Earlier(e, f) => e.t <= f.t
  <2> SUFFICES ASSUME NEW e, NEW f, Earlier(e, f) PROVE e.t <= f.t
    OBVIOUS
  <2>1. e \in Range(inserted) /\ f \in Range(inserted) /\ (e.t < f.t \/ e.t = f.t)
    BY DEF Earlier, Range
  <2>2. e.t \in Nat /\ f.t \in Nat
    BY <1>a, <2>1, InRange, EventType
  <2> QED
    BY <2>1, <2>2
<1>2. Sorted(events)
  BY <1>c, <1>1 DEF Sorted
<1>h. PICK r : r = Place(events, x)
  OBVIOUS
<1>3. PICK k \in 0..N :
          /\ \A i \in 1..N : events[i].t <= x.t <=> i <= k
          /\ r \in Seq(Event) /\ Len(r) = N + 1
          /\ \A i \in 1..(N + 1) : r[i] = IF i <= k THEN events[i] ELSE IF i = k + 1 THEN x ELSE events[i - 1]
  <2>1. PICK k \in 0..Len(events) :
          /\ \A i \in 1..Len(events) : events[i].t <= x.t <=> i <= k
          /\ Place(events, x) \in Seq(Event) /\ Len(Place(events, x)) = Len(events) + 1
          /\ \A i \in 1..(Len(events) + 1) :
                Place(events, x)[i] = IF i <= k THEN events[i] ELSE IF i = k + 1 THEN x ELSE events[i - 1]
    BY <1>a, <1>2, PlaceCorrect
  <2> QED
    BY <1>h, <2>1
<1>4. /\ inserted' \in Seq(Event) /\ Range(inserted') = Range(inserted) \cup {x}
      /\ \A e, f : Earlier(e, f) => Earlier(e, f)'
      /\ \A e \in Range(inserted) : e.t <= x.t => Earlier(e, x)'
      /\ \A e \in Range(inserted) : ~(e.t <= x.t) => Earlier(x, e)'
  BY <1>a, OrderGrows
<1>g. ASSUME NEW i \in 1..(N + 1)
      PROVE  \/ i <= k /\ i \in 1..N /\ r[i] = events[i]
             \/ i = k + 1 /\ r[i] = x
             \/ i > k + 1 /\ i - 1 \in 1..N /\ i - 1 > k /\ r[i] = events[i - 1]
  BY <1>0, <1>3
<1>5. ASSUME NEW i \in 1..(N + 1)
      PROVE  /\ r[i] \in Range(inserted') /\ r[i].t \in Nat
             /\ r[i] = x \/ \E j \in 1..N : r[i] = events[j]
  BY <1>0, <1>4, <1>d, <1>g
<1>6. ASSUME NEW i \in 1..(N + 1), NEW j \in 1..(N + 1), i < j
      PROVE  Earlier(r[i], r[j])'
  <2>1. CASE j <= k
    <3>1. r[i] = events[i] /\ r[j] = events[j] /\ i \in 1..N /\ j \in 1..N
      BY <1>0, <1>6, <1>g, <2>1
    <3> QED
      BY <1>4, <1>6, <1>c, <3>1
  <2>2. CASE j = k + 1
    <3>1. r[i] = events[i] /\ r[j] = x /\ i \in 1..N /\ i <= k
      BY <1>0, <1>6, <1>g, <2>2
    <3> QED
      BY <1>3, <1>4, <1>d, <3>1
  <2>3. CASE j > k + 1
    <3>1. r[j] = events[j - 1] /\ j - 1 \in 1..N /\ ~(j - 1 <= k)
      BY <1>0, <1>g, <2>3
    <3>2. CASE i = k + 1
      <4>1. r[i] = x
        BY <1>0, <1>g, <3>2
      <4> QED
        BY <1>3, <1>4, <1>d, <3>1, <4>1
    <3>3. CASE i <= k
      <4>1. r[i] = events[i] /\ i \in 1..N /\ i < j - 1
        BY <1>0, <1>g, <2>3, <3>3
      <4> QED
        BY <1>4, <1>c, <3>1, <4>1
    <3>4. CASE i > k + 1
      <4>1. r[i] = events[i - 1] /\ i - 1 \in 1..N /\ i - 1 < j - 1
        <5>1. i - 1 < j - 1
          BY <1>6
        <5> QED
          BY <1>0, <1>g, <3>4, <5>1
      <4> QED
        BY <1>4, <1>c, <3>1, <4>1
    <3> QED
      BY <1>0, <3>2, <3>3, <3>4
  <2> QED
    BY <1>0, <2>1, <2>2, <2>3
<1>7. \A f \in Range(inserted') : f.t <= r[N + 1].t
  <2>1. r[N + 1] = (IF k = N THEN x ELSE events[N]) /\ (k # N => N > 0)
    BY <1>0, <1>3
  <2>2. \A f \in Range(inserted) : f.t \in Nat /\ inserted # <<>>
    BY <1>a, InRange, EventType DEF Range
  <2>3. CASE k = N
    <3>1. N > 0 => events[N].t <= x.t
      BY <1>0, <1>3, <2>3
    <3>2. \A f \in Range(inserted) : f.t <= x.t
      BY <1>0, <1>f, <2>2, <3>1
    <3> QED
      BY <1>0, <1>4, <2>1, <2>3, <3>2
  <2>4. CASE k # N
    <3>1. N > 0 /\ ~(events[N].t <= x.t)
      BY <1>0, <1>3, <2>1, <2>4
    <3>2. events[N] \in Range(inserted)
      BY <1>0, <1>d, <3>1
    <3> QED
      BY <1>0, <1>4, <1>f, <2>1, <2>2, <2>4, <3>1, <3>2
  <2> QED
    BY <2>3, <2>4
<1>8. \A e, f : Earlier(e, f)' => e.t <= f.t
  <2> SUFFICES ASSUME NEW e, NEW f, Earlier(e, f)' PROVE e.t <= f.t
    OBVIOUS
  <2>1. e \in Range(inserted') /\ f \in Range(inserted') /\ (e.t < f.t \/ e.t = f.t)
    BY DEF Earlier, Range
  <2>2. e.t \in Nat /\ f.t \in Nat
    BY <1>4, <2>1, InRange, EventType
  <2> QED
    BY <2>1, <2>2
<1>9. Sorted(r) /\ r # <<>>
  BY <1>0, <1>3, <1>6, <1>8 DEF Sorted
<1>i. PICK w : w = Trim(r)
  OBVIOUS
<1>10. PICK m \in 0..N :
          /\ w \in Seq(Event) /\ Len(w) = N + 1 - m /\ Len(w) <= Cap
          /\ \A i \in 1..Len(w) : w[i] = r[m + i]
          /\ \A i \in 1..(N + 1) : i > m => r[i].t >= r[N + 1].t - Age
          /\ \A i \in 1..m : r[i].t >= r[N + 1].t - Age => Len(w) = Cap
  <2>1. (N + 1) - 1 = N
    BY <1>0
  <2> QED
    <3>1. PICK m \in 0..(Len(r) - 1) :
              /\ Trim(r) \in Seq(Event)
              /\ Len(Trim(r)) = Len(r) - m /\ Len(r) - m <= Cap
              /\ \A i \in 1..(Len(r) - m) : Trim(r)[i] = r[m + i]
              /\ \A i \in 1..Len(r) : i > m => r[i].t >= r[Len(r)].t - Age
              /\ \A i \in 1..m : r[i].t >= r[Len(r)].t - Age => Len(r) - m = Cap
      BY <1>3, <1>9, TrimCorrect
    <3>2. Len(r) = N + 1 /\ Len(r) - m = N + 1 - m /\ m \in 0..N /\ Len(w) = N + 1 - m
      BY <1>3, <1>i, <2>1, <3>1
    <3>3. /\ \A i \in 1..(N + 1) : i > m => r[i].t >= r[N + 1].t - Age
          /\ \A i \in 1..m : r[i].t >= r[N + 1].t - Age => Len(w) = Cap
          /\ \A i \in 1..Len(w) : w[i] = r[m + i]
      BY <1>i, <3>1, <3>2
    <3> QED
      BY <1>i, <3>1, <3>2, <3>3
<1>11. events' = w /\ DOMAIN w = 1..Len(w)
  BY <1>3, <1>10, <1>h, <1>i
<1>12. \A i \in 1..Len(w) : w[i] = r[m + i] /\ m + i \in 1..(N + 1) /\ m + i > m
  BY <1>0, <1>10
<1>13. \A e \in Range(inserted') : Recent(e)' <=> e.t >= r[N + 1].t - Age
  <2> SUFFICES ASSUME NEW e \in Range(inserted') PROVE Recent(e)' <=> e.t >= r[N + 1].t - Age
    OBVIOUS
  <2>1. N + 1 \in 1..(N + 1) /\ r[N + 1] \in Range(inserted')
    BY <1>0, <1>5
  <2>2. \A f \in Range(inserted') : f.t \in Nat
    BY <1>4, InRange, EventType
  <2> QED
    BY <1>0, <1>7, <2>1, <2>2, SMTT(30) DEF Recent
<1>14. ASSUME NEW e \in Range(inserted'), e \notin Range(w), Recent(e)'
       PROVE  Len(w) = Cap /\ \A i \in 1..Len(w) : Earlier(e, w[i])'
  <2>0. \A i \in 1..Len(w) : w[i] \in Range(w)
    BY <1>10, InRange
  <2>1. CASE e \in {r[i] : i \in 1..(N + 1)}
    <3>1. PICK j \in 1..(N + 1) : e = r[j]
      BY <2>1
    <3>2. j <= m
      <4>1. ASSUME j > m PROVE FALSE
        <5>1. j - m \in 1..Len(w) /\ m + (j - m) = j
          BY <1>0, <1>10, <4>1
        <5> QED
          BY <1>12, <1>14, <2>0, <3>1, <5>1
      <4> QED
        BY <1>0, <4>1
    <3>3. Len(w) = Cap
      BY <1>0, <1>10, <1>13, <1>14, <3>1, <3>2, SMTT(30)
    <3>4. \A i \in 1..Len(w) : Earlier(e, w[i])'
      <4> SUFFICES ASSUME NEW i \in 1..Len(w) PROVE Earlier(e, w[i])'
        OBVIOUS
      <4>1. PICK l \in 1..(N + 1) : l = m + i
        BY <1>12
      <4>2. j < l /\ w[i] = r[l]
        BY <1>0, <1>12, <3>2, <4>1
      <4> QED
        BY <1>6, <3>1, <4>2
    <3> QED
      BY <3>3, <3>4
  <2>2. CASE e \notin {r[i] : i \in 1..(N + 1)}
    <3>1. e # x /\ \A i \in 1..N : e # events[i]
      <4>1. r[k + 1] = x /\ k + 1 \in 1..(N + 1)
        BY <1>0, <1>g
      <4>2. ASSUME NEW i \in 1..N PROVE \E j \in 1..(N + 1) : r[j] = events[i]
        <5>1. CASE i <= k
          <6>1. i \in 1..(N + 1) /\ r[i] = events[i]
            BY <1>0, <1>3, <5>1
          <6> QED
            BY <6>1
        <5>2. CASE i > k
          <6>1. i + 1 \in 1..(N + 1) /\ r[i + 1] = events[i]
            BY <1>0, <1>3, <5>2
          <6> QED
            BY <6>1
        <5> QED
          BY <1>0, <5>1, <5>2
      <4> QED
        BY <2>2, <4>1, <4>2
    <3>2. e \in Range(inserted) /\ e \notin Range(events) /\ Recent(e)
      <4>1. e \in Range(inserted)
        BY <1>4, <1>14, <3>1
      <4>2. e \notin Range(events)
        BY <1>b, <3>1 DEF Range
      <4> QED
        BY <1>4, <1>14, <4>1, <4>2 DEF Recent
    <3>3. N = Cap /\ \A i \in 1..N : Earlier(e, events[i]) /\ e.t <= events[i].t
      BY <1>1, <1>e, <3>2
    <3>4. e.t \in Nat /\ e.t >= r[N + 1].t - Age
      BY <1>4, <1>13, <1>14, InRange, EventType
    <3>5. \A i \in 1..(N + 1) : i # k + 1 => r[i].t >= r[N + 1].t - Age
      <4> SUFFICES ASSUME NEW i \in 1..(N + 1), i # k + 1 PROVE r[i].t >= r[N + 1].t - Age
        OBVIOUS
      <4>1. PICK j \in 1..N : r[i] = events[j]
        BY <1>0, <1>g
      <4>2. e.t <= r[i].t /\ r[i].t \in Nat
        BY <1>0, <3>3, <4>1
      <4>3. r[N + 1].t \in Nat
        BY <1>0, <1>5
      <4> QED
        BY <1>0, <3>4, <4>2, <4>3, SMTT(30)
    <3>6. m = 1 /\ Len(w) = Cap
      <4>1. m >= 1
        BY <1>0, <1>10, <3>3
      <4>2. ASSUME m >= 2 PROVE FALSE
        <5>1. PICK j \in {1, 2} : j # k + 1
          <6>1. 1 # k + 1 \/ 2 # k + 1
            BY <1>0
          <6> QED
            BY <6>1
        <5>2. j \in 1..m /\ j \in 1..(N + 1)
          BY <1>0, <1>10, <4>2
        <5>3. Len(w) = Cap
          BY <1>10, <3>5, <5>1, <5>2
        <5> QED
          BY <1>0, <1>10, <3>3, <4>2, <5>3
      <4>3. m = 1
        BY <1>0, <4>1, <4>2
      <4> QED
        BY <1>0, <1>10, <3>3, <4>3
    <3>7. ASSUME NEW i \in 1..Len(w) PROVE Earlier(e, w[i])'
      <4>1. w[i] = r[i + 1] /\ i + 1 \in 1..(N + 1) /\ i \in 1..N
        BY <1>0, <1>10, <1>12, <3>3, <3>6
      <4>2. CASE i + 1 <= k
        BY <1>0, <1>4, <1>g, <3>3, <4>1, <4>2
      <4>3. CASE i + 1 = k + 1
        <5>1. w[i] = x /\ events[i].t <= x.t
          BY <1>0, <1>3, <1>g, <4>1, <4>3
        <5>2. e.t <= x.t
          BY <1>0, <3>3, <3>4, <4>1, <5>1, SMTT(30)
        <5> QED
          BY <1>4, <3>2, <5>1, <5>2
      <4>4. CASE i + 1 > k + 1
        <5>1. w[i] = events[i]
          <6>1. (i + 1) - 1 = i
            BY <4>1
          <6> QED
            BY <1>0, <1>g, <4>1, <4>4, <6>1
        <5> QED
          BY <1>4, <3>3, <4>1, <5>1
      <4> QED
        BY <1>0, <4>2, <4>3, <4>4
    <3> QED
      BY <3>6, <3>7
  <2> QED
    BY <2>1, <2>2
<1>15. ListsTheLatest(events, {e \in Range(inserted) : Recent(e)}, Cap)'
  <2>1. \A i, j \in 1..Len(w) : i < j => Earlier(w[i], w[j])'
    BY <1>0, <1>6, <1>12
  <2>2. \A i \in 1..Len(w) : w[i] \in Range(inserted') /\ Recent(w[i])'
    BY <1>5, <1>10, <1>12, <1>13
  <2>3. \A e \in Range(w) : e \in Range(inserted') /\ Recent(e)'
    BY <1>10, <2>2, InRange, SMTT(30)
  <2> QED
    BY <1>10, <1>11, <1>14, <2>1, <2>3 DEF ListsTheLatest
<1>16. events' # <<>> /\ \A f \in Range(inserted') : f.t <= events'[Len(events')].t
  <2>1. Len(w) \in 1..Len(w) /\ w[Len(w)] = r[N + 1] /\ w # <<>>
    BY <1>0, <1>10, <1>12
  <2> QED
    BY <1>7, <1>11, <2>1
<1> QED
  BY <1>10, <1>11, <1>15, <1>16 DEF History

\* Send: the number of the new event is new.
LEMMA SendInvariant ==
    ASSUME IInv, NEW p \in Recorders, NEW t \in Times, NEW k \in Kinds, Send(p, t, k)
    PROVE  IInv'
<1> PICK e : e = [id |-> Len(sent) + 1, t |-> t, kind |-> k]
  OBVIOUS
<1> PICK n : n = Len(sent)
  OBVIOUS
<1>0. /\ sent \in Seq(Event) /\ n \in Nat /\ e \in Event /\ e.id = n + 1
      /\ local \in [Recorders -> SUBSET Event] /\ inserted \in Seq(Event)
  BY EventAssumption DEF IInv, Typed, Event
<1>1. /\ sent' = Append(sent, e) /\ local' = [local EXCEPT ![p] = {e}]
      /\ UNCHANGED <<events, inserted, stream>>
  BY DEF Send
<1>2. /\ sent' \in Seq(Event) /\ Len(sent') = n + 1 /\ sent'[n + 1] = e
      /\ \A i \in 1..n : sent'[i] = sent[i]
  BY <1>0, <1>1
<1>3. Typed'
  BY <1>0, <1>1, <1>2 DEF IInv, Typed
<1>4. History'
  BY <1>1 DEF IInv, History, ListsTheLatest, Earlier, Recent
<1>5. Numbered'
  <2>1. \A i \in 1..(n + 1) : i \in 1..n \/ i = n + 1
    BY <1>0
  <2> QED
    BY <1>0, <1>2, <2>1 DEF IInv, Numbered
<1>6. Once'
  <2>1. \A q \in Recorders : local'[q] = IF q = p THEN {e} ELSE local[q]
    BY <1>0, <1>1
  <2>2. /\ \A q \in Recorders : \A f \in local[q] : f \in Event /\ f.id \in Nat /\ f.id <= n
        /\ \A i \in 1..Len(inserted) : inserted[i].id \in Nat /\ inserted[i].id <= n
    BY <1>0, EventType DEF IInv, Once
  <2>3. \A q \in Recorders : \A f \in local'[q] :
           f.id <= n + 1 /\ \A i \in 1..Len(inserted) : inserted[i].id # f.id
    BY <1>0, <2>1, <2>2 DEF IInv, Once
  <2>4. \A q, r \in Recorders : \A f \in local'[q], g \in local'[r] : f.id = g.id => q = r /\ f = g
    BY <1>0, <2>1, <2>2 DEF IInv, Once
  <2> QED
    BY <1>0, <1>1, <1>2, <2>2, <2>3, <2>4 DEF IInv, Once
<1>7. Streaming'
  <2> SUFFICES ASSUME NEW s \in Streams PROVE Follows(stream[s])'
    BY DEF Streaming
  <2>1. Follows(stream[s]) /\ stream[s] \in StreamStates
    BY DEF IInv, Streaming, Typed
  <2> PICK st : st = stream[s]
    OBVIOUS
  <2>2. Follows(st) /\ st \in StreamStates
    BY <2>1
  <2>3. ASSUME st.pc # "new" PROVE Due(st)' = Due(st)
    <3>1. st.next <= n + 1 /\ st.first \in Nat /\ st.next \in Nat /\ 1 <= st.first
      BY <2>2, <2>3 DEF Follows, StreamStates
    <3>2. \A j \in st.first..(st.next - 1) : j \in 1..n
      BY <1>0, <3>1
    <3> QED
      BY <1>2, <3>2 DEF Due
  <2>4. Follows(st)'
    BY <1>0, <1>2, <2>2, <2>3 DEF Follows, StreamStates
  <2>5. stream'[s] = st
    BY <1>1
  <2> QED
    BY <2>4, <2>5 DEF Follows, Due
<1> QED
  BY <1>3, <1>4, <1>5, <1>6, <1>7 DEF IInv

\* Insert: the event is the recorder's own, and goes into the history once.
LEMMA InsertInvariant ==
    ASSUME IInv, NEW p \in Recorders, Insert(p)
    PROVE  IInv'
<1> PICK e \in local[p] : /\ local' = [local EXCEPT ![p] = {}]
                          /\ events' = Trim(Place(events, e))
                          /\ inserted' = Append(inserted, e)
                          /\ UNCHANGED <<sent, stream>>
  BY DEF Insert
<1> PICK n : n = Len(inserted)
  OBVIOUS
<1>0. /\ local \in [Recorders -> SUBSET Event] /\ inserted \in Seq(Event) /\ n \in Nat
      /\ e \in Event
  BY DEF IInv, Typed
<1>1. events' \in Seq(Event) /\ History'
  BY <1>0, HistoryStep
<1>2. /\ inserted' \in Seq(Event) /\ Len(inserted') = n + 1 /\ inserted'[n + 1] = e
      /\ \A i \in 1..n : inserted'[i] = inserted[i]
  BY <1>0
<1>3. Typed'
  BY <1>0, <1>1, <1>2 DEF IInv, Typed
<1>4. Numbered'
  BY DEF IInv, Numbered
<1>5. Once'
  <2>1. \A q \in Recorders : local'[q] = IF q = p THEN {} ELSE local[q]
    BY <1>0
  <2>2. \A i \in 1..(n + 1) : i \in 1..n \/ i = n + 1
    BY <1>0
  <2>3. \A q \in Recorders : \A f \in local'[q] :
           f.id <= Len(sent) /\ f.id # e.id /\ \A i \in 1..n : inserted[i].id # f.id
    BY <2>1 DEF IInv, Once
  <2>4. \A i \in 1..n : inserted[i].id # e.id /\ inserted[i].id <= Len(sent)
    BY DEF IInv, Once
  <2>5. e.id <= Len(sent)
    BY DEF IInv, Once
  <2>6. \A q \in Recorders : \A f \in local'[q] :
           f.id <= Len(sent) /\ \A i \in 1..(n + 1) : inserted'[i].id # f.id
    BY <1>2, <2>2, <2>3
  <2>7. \A i, j \in 1..(n + 1) : inserted'[i].id = inserted'[j].id => i = j
    <3>1. \A i, j \in 1..n : inserted[i].id = inserted[j].id => i = j
      BY DEF IInv, Once
    <3> QED
      BY <1>2, <2>2, <2>4, <3>1
  <2>8. \A i \in 1..(n + 1) : inserted'[i].id <= Len(sent)
    BY <1>2, <2>2, <2>4, <2>5
  <2>9. \A q, r \in Recorders : \A f \in local'[q], g \in local'[r] : f.id = g.id => q = r /\ f = g
    BY <2>1 DEF IInv, Once
  <2> QED
    BY <1>2, <2>6, <2>7, <2>8, <2>9 DEF Once
<1>6. Streaming'
  BY DEF IInv, Streaming, Follows, Due
<1> QED
  BY <1>1, <1>3, <1>4, <1>5, <1>6 DEF IInv
-----------------------------------------------------------------------------
(* A stream.                                                               *)

\* One stream moves on.
LEMMA StreamInvariant ==
    ASSUME IInv, UNCHANGED <<sent, local, events, inserted>>,
           NEW s \in Streams, NEW st \in StreamStates, Follows(st),
           DOMAIN stream' = Streams, stream'[s] = st,
           \A d \in Streams \ {s} : stream'[d] = stream[d],
           stream' = [d \in Streams |-> stream'[d]]
    PROVE  IInv'
<1>1. \A d \in Streams : stream'[d] \in StreamStates
  BY DEF IInv, Typed
<1>2. Typed'
  BY <1>1 DEF IInv, Typed
<1>3. History'
  BY DEF IInv, History, ListsTheLatest, Earlier, Recent
<1>4. Numbered' /\ Once'
  BY DEF IInv, Numbered, Once
<1>5. \A d \in Streams : Follows(stream'[d])
  BY DEF IInv, Streaming
<1>6. Streaming'
  BY <1>5 DEF Streaming, Follows, Due
<1> QED
  BY <1>2, <1>3, <1>4, <1>6 DEF IInv

\* Sequences of events.
LEMMA EventSequences ==
    /\ <<>> \in Seq(Event)
    /\ \A a \in Seq(Event) : a \o <<>> = a
    /\ \A a, b \in Seq(Event) : a \o b \in Seq(Event)
<1>1. \A a, b \in Seq(Event) : a \o b \in Seq(Event)
  OBVIOUS
<1>2. \A a \in Seq(Event) : a \o <<>> = a
  BY ConcatEmptySeq, Zenon
<1> QED
  BY <1>1, <1>2

LEMMA EventsRegrouped ==
    ASSUME NEW a \in Seq(Event), NEW b \in Seq(Event), NEW c \in Seq(Event)
    PROVE  (a \o b) \o c = a \o (b \o c)
BY ConcatAssociative

\* A sequence in ascending order stays so when a later event is appended.
LEMMA AscendingAppend ==
    ASSUME NEW f \in Seq(Event), NEW e \in Event, Ascending(f),
           \A g \in Range(f) : g.id < e.id
    PROVE  /\ Ascending(f \o <<e>>)
           /\ Range(f \o <<e>>) = Range(f) \cup {e}
<1> PICK n : n = Len(f)
  OBVIOUS
<1> PICK g : g = f \o <<e>>
  OBVIOUS
<1>1. /\ n \in Nat /\ g \in Seq(Event) /\ Len(g) = n + 1 /\ g[n + 1] = e
      /\ \A i \in 1..n : g[i] = f[i]
  OBVIOUS
<1>2. \A i \in 1..(n + 1) : i \in 1..n \/ i = n + 1
  BY <1>1
<1>3. \A i \in 1..n : g[i].id < e.id
  BY <1>1, InRange
<1>4. Ascending(g)
  <2> SUFFICES ASSUME NEW i \in 1..(n + 1), NEW j \in 1..(n + 1), i < j PROVE g[i].id < g[j].id
    BY <1>1 DEF Ascending
  <2>1. i \in 1..n
    BY <1>1
  <2>2. CASE j \in 1..n
    BY <1>1, <2>1, <2>2 DEF Ascending
  <2>3. CASE j = n + 1
    BY <1>1, <1>3, <2>1, <2>3
  <2> QED
    BY <1>2, <2>2, <2>3
<1>5. Range(g) = Range(f) \cup {e}
  <2>1. DOMAIN g = 1..(n + 1) /\ DOMAIN f = 1..n /\ n + 1 \in 1..(n + 1)
    BY <1>1
  <2>2. \A i \in 1..n : i \in 1..(n + 1)
    BY <1>1
  <2> QED
    BY <1>1, <1>2, <2>1, <2>2 DEF Range
<1> QED
  BY <1>4, <1>5

\* What a stream does, and what its client does.
LEMMA StreamStepInvariant ==
    ASSUME IInv, NEW s \in Streams,
           Subscribe(s) \/ StreamStep(s) \/ ClientReads(s) \/ Disconnect(s)
    PROVE  IInv'
<1> PICK st : st = stream[s]
  OBVIOUS
<1> PICK n : n = Len(sent)
  OBVIOUS
<1>0. /\ st \in StreamStates /\ Follows(st) /\ sent \in Seq(Event) /\ n \in Nat
      /\ stream \in [Streams -> StreamStates]
  BY DEF IInv, Typed, Streaming
<1>1. /\ st.pc \in Pcs /\ st.first \in Nat /\ st.next \in Nat
      /\ st.held \in Seq(Event) /\ st.out \in Seq(Event) /\ st.got \in Seq(Event)
      /\ st.client \in BOOLEAN /\ <<>> \in Seq(Event)
  BY <1>0, EventSequences DEF StreamStates
<1>2. ASSUME NEW new \in StreamStates, Follows(new),
             stream' = [stream EXCEPT ![s] = new],
             UNCHANGED <<sent, local, events, inserted>>
      PROVE  IInv'
  <2>1. /\ DOMAIN stream' = Streams /\ stream'[s] = new
        /\ \A d \in Streams \ {s} : stream'[d] = stream[d]
        /\ stream' = [d \in Streams |-> stream'[d]]
    BY <1>0, <1>2
  <2> QED
    BY <1>2, <2>1, StreamInvariant
<1>3. CASE Subscribe(s)
  <2>1. PICK new : new = [st EXCEPT !.pc = "recv", !.first = n + 1, !.next = n + 1]
    OBVIOUS
  <2>2. st.pc = "new" /\ stream' = [stream EXCEPT ![s] = new] /\ UNCHANGED <<sent, local, events, inserted>>
    BY <1>0, <1>3, <2>1 DEF Subscribe, StreamStates
  <2>3. /\ new \in StreamStates /\ new.pc = "recv" /\ new.first = n + 1 /\ new.next = n + 1
        /\ new.held = <<>> /\ new.out = <<>> /\ new.got = <<>>
    <3>1. st.held = <<>> /\ st.out = <<>> /\ st.got = <<>> /\ n + 1 \in Nat
      BY <1>0, <2>2 DEF Follows
    <3> QED
      BY <1>0, <1>1, <2>1, <3>1 DEF StreamStates, Pcs
  <2>4. Forwarded(new) = <<>> /\ Range(<<>>) = {}
    BY <2>3 DEF Forwarded, Range
  <2>5. Due(new) = {}
    BY <1>0, <2>3 DEF Due
  <2>6. Follows(new)
    BY <1>0, <2>3, <2>4, <2>5 DEF Follows, Ascending
  <2> QED
    BY <1>2, <2>2, <2>3, <2>6
<1>4. CASE Recv(s)
  <2>1. PICK e : e = sent[st.next]
    OBVIOUS
  <2>2. PICK new : new = [st EXCEPT !.next = st.next + 1,
                              !.pc = IF e.kind \in Wanted THEN "send" ELSE "recv",
                              !.held = IF e.kind \in Wanted THEN <<e>> ELSE <<>>]
    OBVIOUS
  <2>3. /\ st.pc = "recv" /\ st.next <= n /\ UNCHANGED <<sent, local, events, inserted>>
        /\ stream' = [stream EXCEPT ![s] = new]
    BY <1>0, <1>4, <2>1, <2>2 DEF Recv, StreamStates
  <2>4. /\ 1 <= st.first /\ st.first <= st.next /\ st.held = <<>>
        /\ st.client => Ascending(Forwarded(st)) /\ Range(Forwarded(st)) = Due(st)
    BY <1>0, <2>3 DEF Follows
  <2>5. e \in Event /\ e.id = st.next /\ <<e>> \in Seq(Event)
    BY <1>0, <1>1, <2>1, <2>3, <2>4 DEF IInv, Numbered
  <2>6. /\ new \in StreamStates /\ new.first = st.first /\ new.next = st.next + 1
        /\ new.pc = (IF e.kind \in Wanted THEN "send" ELSE "recv")
        /\ new.held = (IF e.kind \in Wanted THEN <<e>> ELSE <<>>)
        /\ new.out = st.out /\ new.got = st.got /\ new.client = st.client
    <3>1. PICK pc \in Pcs, held \in Seq(Event) :
              /\ pc = (IF e.kind \in Wanted THEN "send" ELSE "recv")
              /\ held = (IF e.kind \in Wanted THEN <<e>> ELSE <<>>)
      BY <1>1, <2>5 DEF Pcs
    <3>2. new = [st EXCEPT !.next = st.next + 1, !.pc = pc, !.held = held] /\ st.next + 1 \in Nat
      BY <1>1, <2>2, <3>1
    <3> QED
      BY <1>0, <1>1, <3>1, <3>2 DEF StreamStates
  <2>7. Due(new) = Due(st) \cup (IF e.kind \in Wanted THEN {e} ELSE {})
    <3>1. \A j : j \in st.first..((st.next + 1) - 1) <=> j \in st.first..(st.next - 1) \/ j = st.next
      BY <1>1, <2>4
    <3> QED
      BY <2>1, <2>6, <3>1 DEF Due
  <2>8. PICK f : f = st.got \o st.out
    OBVIOUS
  <2>9. f \in Seq(Event) /\ Forwarded(st) = f /\ Forwarded(new) = IF e.kind \in Wanted THEN f \o <<e>> ELSE f
    <3>1. Forwarded(st) = f /\ f \in Seq(Event) /\ f \o <<>> = f
      <4>1. f \in Seq(Event)
        BY <1>1, <2>8, EventSequences
      <4>2. f \o <<>> = f
        BY <4>1, EventSequences
      <4> QED
        BY <2>4, <2>8, <4>1, <4>2 DEF Forwarded
    <3>2. Forwarded(new) = f \o new.held
      BY <2>6, <2>8 DEF Forwarded
    <3> QED
      BY <2>6, <3>1, <3>2
  <2>10. ASSUME st.client PROVE Ascending(Forwarded(new)) /\ Range(Forwarded(new)) = Due(new)
    <3>1. Ascending(f) /\ Range(f) = Due(st)
      BY <2>4, <2>9, <2>10
    <3>2. \A g \in Range(f) : g.id < e.id
      <4>1. \A j \in st.first..(st.next - 1) : j \in 1..n /\ j < st.next
        BY <1>0, <1>1, <2>3, <2>4
      <4> QED
        BY <2>5, <3>1, <4>1 DEF Due, IInv, Numbered
    <3> QED
      BY <2>5, <2>7, <2>9, <3>1, <3>2, AscendingAppend
  <2>11. Follows(new)
    BY <1>0, <1>1, <2>3, <2>4, <2>6, <2>10 DEF Follows
  <2> QED
    BY <1>2, <2>3, <2>6, <2>11
<1>5. CASE RecvLagged(s)
  <2>1. PICK new : new = [st EXCEPT !.pc = "ended"]
    OBVIOUS
  <2>2. st.pc = "recv" /\ stream' = [stream EXCEPT ![s] = new] /\ UNCHANGED <<sent, local, events, inserted>>
    BY <1>0, <1>5, <2>1 DEF RecvLagged, StreamStates
  <2>3. /\ new \in StreamStates /\ new.pc = "ended" /\ new.first = st.first /\ new.next = st.next
        /\ new.held = st.held /\ new.out = st.out /\ new.got = st.got /\ new.client = st.client
    BY <1>0, <1>1, <2>1 DEF StreamStates, Pcs
  <2>4. Follows(new)
    BY <1>0, <2>2, <2>3 DEF Follows, Forwarded, Due
  <2> QED
    BY <1>2, <2>2, <2>3, <2>4
<1>6. CASE Forward(s) /\ st.client
  <2>1. PICK new : new = [st EXCEPT !.pc = "recv", !.held = <<>>, !.out = st.out \o st.held]
    OBVIOUS
  <2>2. st.pc = "send" /\ stream' = [stream EXCEPT ![s] = new] /\ UNCHANGED <<sent, local, events, inserted>>
    BY <1>0, <1>6, <2>1 DEF Forward, StreamStates
  <2>0. PICK out \in Seq(Event) : out = st.out \o st.held
    BY <1>1, EventSequences
  <2>3. /\ new \in StreamStates /\ new.pc = "recv" /\ new.first = st.first /\ new.next = st.next
        /\ new.held = <<>> /\ new.out = st.out \o st.held /\ new.got = st.got /\ new.client = st.client
    BY <1>0, <1>1, <2>0, <2>1 DEF StreamStates, Pcs
  <2>4. Forwarded(new) = Forwarded(st)
    <3>1. st.out \o st.held \in Seq(Event) /\ st.got \o (st.out \o st.held) \in Seq(Event)
      BY <1>1
    <3>2. (st.got \o (st.out \o st.held)) \o <<>> = st.got \o (st.out \o st.held)
      BY <3>1, EventSequences
    <3>3. (st.got \o st.out) \o st.held = st.got \o (st.out \o st.held)
      BY <1>1, EventsRegrouped, ZenonT(30)
    <3> QED
      BY <2>3, <3>2, <3>3 DEF Forwarded
  <2>5. Follows(new)
    BY <1>0, <2>2, <2>3, <2>4 DEF Follows, Due
  <2> QED
    BY <1>2, <2>2, <2>3, <2>5
<1>7. CASE Forward(s) /\ ~st.client
  <2>1. PICK new : new = [st EXCEPT !.pc = "ended", !.held = <<>>]
    OBVIOUS
  <2>2. st.pc = "send" /\ stream' = [stream EXCEPT ![s] = new] /\ UNCHANGED <<sent, local, events, inserted>>
    BY <1>0, <1>7, <2>1 DEF Forward, StreamStates
  <2>3. /\ new \in StreamStates /\ new.pc = "ended" /\ new.first = st.first /\ new.next = st.next
        /\ new.held = <<>> /\ new.client = st.client
    BY <1>0, <1>1, <2>1 DEF StreamStates, Pcs
  <2>4. Follows(new)
    BY <1>0, <1>7, <2>2, <2>3 DEF Follows
  <2> QED
    BY <1>2, <2>2, <2>3, <2>4
<1>8. CASE ClientReads(s)
  <2>1. PICK new : new = [st EXCEPT !.out = Tail(st.out), !.got = Append(st.got, Head(st.out))]
    OBVIOUS
  <2>2. st.out # <<>> /\ stream' = [stream EXCEPT ![s] = new] /\ UNCHANGED <<sent, local, events, inserted>>
    BY <1>0, <1>8, <2>1 DEF ClientReads, StreamStates
  <2>3. /\ Head(st.out) \in Event /\ Tail(st.out) \in Seq(Event)
        /\ <<Head(st.out)>> \in Seq(Event) /\ Append(st.got, Head(st.out)) \in Seq(Event)
    BY <1>1, <2>2
  <2>4. /\ new \in StreamStates /\ new.pc = st.pc /\ new.first = st.first /\ new.next = st.next
        /\ new.held = st.held /\ new.out = Tail(st.out) /\ new.got = Append(st.got, Head(st.out))
        /\ new.client = st.client
    BY <1>0, <1>1, <2>1, <2>3 DEF StreamStates
  <2>5. Append(st.got, Head(st.out)) \o Tail(st.out) = st.got \o st.out
    <3>1. Append(st.got, Head(st.out)) = st.got \o <<Head(st.out)>>
      BY <1>1, <2>3, AppendIsConcat
    <3>2. PICK h \in Seq(Event) : h = <<Head(st.out)>>
      BY <2>3
    <3>3. (st.got \o h) \o Tail(st.out) = st.got \o (h \o Tail(st.out))
      <4>1. st.got \in Seq(Event) /\ Tail(st.out) \in Seq(Event)
        BY <1>1, <2>3
      <4> QED
        BY <4>1, EventsRegrouped, Zenon
    <3>4. h \o Tail(st.out) = st.out
      BY <1>1, <2>2, <3>2
    <3> QED
      BY <3>1, <3>2, <3>3, <3>4
  <2>6. Forwarded(new) = Forwarded(st)
    BY <2>4, <2>5 DEF Forwarded
  <2>7. Follows(new)
    BY <1>0, <2>2, <2>4, <2>6 DEF Follows, Due
  <2> QED
    BY <1>2, <2>2, <2>4, <2>7
<1>9. CASE Disconnect(s)
  <2>1. PICK new : new = [st EXCEPT !.client = FALSE, !.out = <<>>]
    OBVIOUS
  <2>2. st.pc # "new" /\ stream' = [stream EXCEPT ![s] = new] /\ UNCHANGED <<sent, local, events, inserted>>
    BY <1>0, <1>9, <2>1 DEF Disconnect, StreamStates
  <2>3. /\ new \in StreamStates /\ new.pc = st.pc /\ new.first = st.first /\ new.next = st.next
        /\ new.held = st.held /\ new.client = FALSE
    BY <1>0, <1>1, <2>1 DEF StreamStates
  <2>4. Follows(new)
    BY <1>0, <2>2, <2>3 DEF Follows
  <2> QED
    BY <1>2, <2>2, <2>3, <2>4
<1> QED
  BY <1>3, <1>4, <1>5, <1>6, <1>7, <1>8, <1>9 DEF StreamStep

LEMMA StepInvariant == IInv /\ [Next]_vars => IInv'
<1> SUFFICES ASSUME IInv, [Next]_vars PROVE IInv'
  OBVIOUS
<1>1. CASE UNCHANGED vars
  BY <1>1 DEF vars, IInv, Typed, History, ListsTheLatest, Earlier, Recent, Numbered, Once,
              Streaming, Follows, Due
<1>2. CASE Next
  BY <1>2, SendInvariant, InsertInvariant, StreamStepInvariant DEF Next
<1> QED
  BY <1>1, <1>2
-----------------------------------------------------------------------------
(* A query.                                                                *)

\* The loop of a filter has a meaning: every entry is made of the one before.
LEMMA FilterExists ==
    ASSUME NEW q, Len(events) \in Nat
    PROVE  \E f : f = [n \in 0..Len(events) |->
                          IF n = 0 THEN <<>>
                          ELSE IF Matches(q, events[n]) THEN Append(f[n - 1], events[n])
                          ELSE f[n - 1]]
<1> DEFINE Step(f, n) == IF n = 0 THEN <<>>
                         ELSE IF Matches(q, events[n]) THEN Append(f[n - 1], events[n])
                         ELSE f[n - 1]
           Upto(n) == \E f : /\ f = [i \in 0..n |-> f[i]]
                             /\ \A i \in 0..n : f[i] = Step(f, i)
           Bad == {n \in Nat : ~Upto(n)}
<1>1. Upto(0)
  <2> DEFINE f == [i \in 0..0 |-> <<>>]
  <2>1. f = [i \in 0..0 |-> f[i]] /\ \A i \in 0..0 : f[i] = Step(f, i)
    OBVIOUS
  <2> HIDE DEF f, Step
  <2> QED
    BY <2>1
<1>2. ASSUME NEW n \in Nat, Upto(n) PROVE Upto(n + 1)
  <2> HIDE DEF Step
  <2>1. PICK f : f = [i \in 0..n |-> f[i]] /\ \A i \in 0..n : f[i] = Step(f, i)
    BY <1>2
  <2> DEFINE g == [i \in 0..(n + 1) |-> IF i <= n THEN f[i] ELSE Step(f, n + 1)]
  <2>2. /\ \A i \in 0..n : g[i] = f[i] /\ i \in 0..(n + 1)
        /\ g[n + 1] = Step(f, n + 1) /\ n + 1 \in 0..(n + 1)
        /\ \A i \in 0..(n + 1) : i \in 0..n \/ i = n + 1
        /\ g = [i \in 0..(n + 1) |-> g[i]]
    OBVIOUS
  <2> HIDE DEF g
  <2>3. \A i \in 0..(n + 1) : Step(g, i) = Step(f, i)
    <3> SUFFICES ASSUME NEW i \in 0..(n + 1) PROVE Step(g, i) = Step(f, i)
      OBVIOUS
    <3>1. i = 0 \/ i - 1 \in 0..n
      OBVIOUS
    <3> QED
      BY <2>2, <3>1 DEF Step
  <2>4. \A i \in 0..(n + 1) : g[i] = Step(g, i)
    BY <2>1, <2>2, <2>3
  <2> QED
    BY <2>2, <2>4
<1> HIDE DEF Upto
<1>3. Bad = {}
  <2> SUFFICES ASSUME Bad # {} PROVE FALSE
    OBVIOUS
  <2>1. PICK m \in Bad : \A k \in Bad : m <= k
    BY LeastNat
  <2>2. m \in Nat /\ m # 0 /\ ~Upto(m)
    BY <1>1, <2>1
  <2>3. m - 1 \in Nat /\ ~(m <= m - 1) /\ (m - 1) + 1 = m
    BY <2>2
  <2>4. Upto(m - 1)
    BY <2>1, <2>3
  <2> QED
    BY <1>2, <2>2, <2>3, <2>4
<1>4. Upto(Len(events))
  BY <1>3
<1>5. PICK f : f = [i \in 0..Len(events) |-> f[i]] /\ \A i \in 0..Len(events) : f[i] = Step(f, i)
  BY <1>4 DEF Upto
<1>6. f = [n \in 0..Len(events) |-> Step(f, n)]
  BY <1>5
<1> QED
  BY <1>6 DEF Step

\* In the order of the history.
Lined(s) == \A i, j \in 1..Len(s) : i < j => Earlier(s[i], s[j])

\* Appending what is later than all keeps the order.
LEMMA LinedAppend ==
    ASSUME NEW f \in Seq(Event), NEW e \in Event, Lined(f),
           \A g \in Range(f) : Earlier(g, e)
    PROVE  /\ Append(f, e) \in Seq(Event) /\ Lined(Append(f, e))
           /\ Range(Append(f, e)) = Range(f) \cup {e}
<1> PICK n : n = Len(f)
  OBVIOUS
<1> PICK g : g = Append(f, e)
  OBVIOUS
<1>1. /\ n \in Nat /\ g \in Seq(Event) /\ Len(g) = n + 1 /\ g[n + 1] = e
      /\ \A i \in 1..n : g[i] = f[i]
  OBVIOUS
<1>2. \A i \in 1..(n + 1) : i \in 1..n \/ i = n + 1
  BY <1>1
<1>3. \A i \in 1..n : Earlier(g[i], e)
  BY <1>1, InRange
<1>4. Lined(g)
  <2> SUFFICES ASSUME NEW i \in 1..(n + 1), NEW j \in 1..(n + 1), i < j PROVE Earlier(g[i], g[j])
    BY <1>1 DEF Lined
  <2>1. i \in 1..n
    BY <1>1
  <2>2. CASE j \in 1..n
    BY <1>1, <2>1, <2>2 DEF Lined
  <2>3. CASE j = n + 1
    BY <1>1, <1>3, <2>1, <2>3
  <2> QED
    BY <1>2, <2>2, <2>3
<1>5. Range(g) = Range(f) \cup {e}
  <2>1. DOMAIN g = 1..(n + 1) /\ DOMAIN f = 1..n /\ n + 1 \in 1..(n + 1)
    BY <1>1
  <2>2. \A i \in 1..n : i \in 1..(n + 1)
    BY <1>1
  <2> QED
    BY <1>1, <1>2, <2>1, <2>2 DEF Range
<1> QED
  BY <1>1, <1>4, <1>5

\* What the loop of a filter over the history has after each event.
LEMMA FilterCorrect ==
    ASSUME IInv, NEW q, NEW N, N = Len(events), NEW f,
           \A n \in 0..N : f[n] = IF n = 0 THEN <<>>
                                  ELSE IF Matches(q, events[n]) THEN Append(f[n - 1], events[n])
                                  ELSE f[n - 1]
    PROVE  /\ f[N] \in Seq(Event) /\ Lined(f[N])
           /\ Range(f[N]) = {e \in Range(events) : Matches(q, e)}
<1> DEFINE Good(n) == /\ f[n] \in Seq(Event) /\ Lined(f[n])
                      /\ Range(f[n]) = {events[i] : i \in {j \in 1..n : Matches(q, events[j])}}
           Bad == {n \in 0..N : ~Good(n)}
<1>0. events \in Seq(Event) /\ N \in Nat /\ DOMAIN events = 1..N
  BY DEF IInv, Typed
<1>1. \A i \in 1..N : events[i] \in Event
  BY <1>0
<1>2. \A i, j \in 1..N : i < j => Earlier(events[i], events[j])
  BY <1>0 DEF IInv, History, ListsTheLatest
<1>3. Good(0)
  <2>1. f[0] = <<>>
    BY <1>0
  <2>2. <<>> \in Seq(Event) /\ Range(<<>>) = {} /\ Lined(<<>>)
    BY DEF Range, Lined
  <2> QED
    BY <2>1, <2>2
<1>4. ASSUME NEW n \in 1..N, Good(n - 1) PROVE Good(n)
  <2> PICK g : g = f[n - 1]
    OBVIOUS
  <2> PICK e : e = events[n]
    OBVIOUS
  <2>1. /\ g \in Seq(Event) /\ Lined(g) /\ e \in Event
        /\ Range(g) = {events[i] : i \in {j \in 1..(n - 1) : Matches(q, events[j])}}
    BY <1>1, <1>4
  <2>2. \A i : i \in 1..n <=> i \in 1..(n - 1) \/ i = n
    BY <1>0
  <2>5. f[n] = IF Matches(q, e) THEN Append(g, e) ELSE g
    <3>1. n \in 0..N /\ n # 0
      BY <1>0
    <3> QED
      BY <3>1
  <2>3. CASE Matches(q, e)
    <3>1. f[n] = Append(g, e)
      BY <2>3, <2>5
    <3>2. \A h \in Range(g) : Earlier(h, e)
      <4>1. \A i \in 1..(n - 1) : i \in 1..N /\ i < n
        BY <1>0
      <4> QED
        BY <1>2, <2>1, <4>1
    <3>3. /\ Append(g, e) \in Seq(Event) /\ Lined(Append(g, e))
          /\ Range(Append(g, e)) = Range(g) \cup {e}
      BY <2>1, <3>2, LinedAppend
    <3>4. {events[i] : i \in {j \in 1..n : Matches(q, events[j])}} = Range(g) \cup {e}
      BY <2>1, <2>2, <2>3
    <3> QED
      BY <3>1, <3>3, <3>4
  <2>4. CASE ~Matches(q, e)
    <3>1. f[n] = g
      BY <2>4, <2>5
    <3>2. {events[i] : i \in {j \in 1..n : Matches(q, events[j])}} = Range(g)
      BY <2>1, <2>2, <2>4
    <3> QED
      BY <2>1, <3>1, <3>2
  <2> QED
    BY <2>3, <2>4
<1> HIDE DEF Good
<1>5. Bad = {}
  <2> SUFFICES ASSUME Bad # {} PROVE FALSE
    OBVIOUS
  <2>1. PICK m \in Bad : \A k \in Bad : m <= k
    <3>1. Bad \in SUBSET Nat
      BY <1>0
    <3> HIDE DEF Bad
    <3> QED
      BY <3>1, LeastNat
  <2>2. m \in 0..N /\ m # 0 /\ ~Good(m)
    BY <1>3, <2>1
  <2>3. m \in 1..N /\ m - 1 \in 0..N /\ ~(m <= m - 1)
    BY <1>0, <2>2
  <2>4. Good(m - 1)
    BY <2>1, <2>3
  <2> QED
    BY <1>4, <2>2, <2>3, <2>4
<1>6. Good(N)
  BY <1>0, <1>5
<1>7. {events[i] : i \in {j \in 1..N : Matches(q, events[j])}} = {e \in Range(events) : Matches(q, e)}
  BY <1>0 DEF Range
<1> QED
  BY <1>6, <1>7 DEF Good

\* The last max elements of what is in order are its max latest.
LEMMA LastOfLists ==
    ASSUME NEW u \in Seq(Event), NEW max \in Nat, Lined(u)
    PROVE  ListsTheLatest(LastOf(u, max), Range(u), max)
<1> PICK w : w = LastOf(u, max)
  OBVIOUS
<1> PICK n : n = Len(u)
  OBVIOUS
<1>1. PICK m \in 0..n : /\ w \in Seq(Event) /\ Len(w) = n - m /\ n - m <= max
                        /\ m = 0 \/ n - m = max
                        /\ \A i \in 1..(n - m) : w[i] = u[m + i]
  BY LastOfCorrect
<1>0. n \in Nat /\ m \in Nat /\ DOMAIN w = 1..(n - m) /\ DOMAIN u = 1..n
  BY <1>1
<1>5. \A i \in 1..(n - m) : m + i \in 1..n
  BY <1>0, <1>1
<1>2. \A i \in 1..(n - m) : w[i] = u[m + i] /\ m + i \in 1..n /\ w[i] \in Range(u) /\ w[i] \in Range(w)
  BY <1>0, <1>1, <1>5 DEF Range
<1>3. \A i, j \in 1..(n - m) : i < j => Earlier(w[i], w[j])
  <2> SUFFICES ASSUME NEW i \in 1..(n - m), NEW j \in 1..(n - m), i < j PROVE Earlier(w[i], w[j])
    OBVIOUS
  <2>1. m + i \in 1..n /\ m + j \in 1..n /\ m + i < m + j
    BY <1>0, <1>2
  <2> QED
    BY <1>2, <2>1 DEF Lined
<1>4. ASSUME NEW e \in Range(u) \ Range(w)
      PROVE  n - m = max /\ \A i \in 1..(n - m) : Earlier(e, w[i])
  <2>1. PICK j \in 1..n : e = u[j]
    BY <1>0 DEF Range
  <2>2. ~(j > m)
    <3>1. ASSUME j > m PROVE FALSE
      <4>1. j - m \in 1..(n - m) /\ m + (j - m) = j
        BY <1>0, <3>1
      <4> QED
        BY <1>2, <1>4, <2>1, <4>1
    <3> QED
      BY <3>1
  <2>3. n - m = max
    BY <1>0, <1>1, <2>2
  <2>4. ASSUME NEW i \in 1..(n - m) PROVE Earlier(e, w[i])
    <3>1. m + i \in 1..n /\ j < m + i
      BY <1>0, <1>2, <2>2
    <3> QED
      BY <1>2, <2>1, <3>1 DEF Lined
  <2> QED
    BY <2>3, <2>4
<1> QED
  <2>1. Len(w) <= max /\ DOMAIN w = 1..(n - m) /\ Len(w) = n - m
    BY <1>0, <1>1
  <2>2. Range(w) \subseteq Range(u)
    BY <1>0, <1>2 DEF Range
  <2>3. ListsTheLatest(w, Range(u), max)
    BY <1>3, <1>4, <2>1, <2>2 DEF ListsTheLatest
  <2> QED
    BY <2>3

\* The answer to a query, whatever its limit.
LEMMA QueryCorrect ==
    ASSUME IInv, NEW q, q.max \in Nat
    PROVE  ListsTheLatest(Query(q), {e \in Range(events) : Matches(q, e)},
                          IF q.max = 0 THEN DefaultMax ELSE q.max)
<1> PICK N : N = Len(events)
  OBVIOUS
<1> PICK max \in Nat : max = IF q.max = 0 THEN DefaultMax ELSE q.max
  BY EventAssumption
<1>0. N \in Nat
  BY DEF IInv, Typed
<1>1. PICK f : /\ f = [n \in 0..N |-> IF n = 0 THEN <<>>
                                      ELSE IF Matches(q, events[n]) THEN Append(f[n - 1], events[n])
                                      ELSE f[n - 1]]
               /\ Query(q) = LastOf(f[N], max)
  <2>1. \E f : f = [n \in 0..Len(events) |->
                        IF n = 0 THEN <<>>
                        ELSE IF Matches(q, events[n]) THEN Append(f[n - 1], events[n])
                        ELSE f[n - 1]]
    <3>1. Len(events) \in Nat
      BY <1>0
    <3> QED
      BY <3>1, FilterExists, Zenon
  <2> QED
    BY <2>1, Zenon DEF Query
<1>2. \A n \in 0..N : f[n] = IF n = 0 THEN <<>>
                             ELSE IF Matches(q, events[n]) THEN Append(f[n - 1], events[n])
                             ELSE f[n - 1]
  BY <1>1
<1>3. /\ f[N] \in Seq(Event) /\ Lined(f[N])
      /\ Range(f[N]) = {e \in Range(events) : Matches(q, e)}
  BY <1>2, FilterCorrect
<1> QED
  <2>1. ListsTheLatest(LastOf(f[N], max), Range(f[N]), max)
    BY <1>3, LastOfLists
  <2> QED
    BY <1>1, <1>3, <2>1
-----------------------------------------------------------------------------
(* What is proved of the specification.                                    *)

\* The induction invariant.
THEOREM EventLogInvariant == Spec => []IInv
BY InitInvariant, StepInvariant, PTL DEF Spec

\* In whatever order events of whatever time are recorded, the history is the
\* Cap latest of those within Age of the newest, in order, and a query returns
\* the latest of it that match (record_event, events).
THEOREM EventLogShowsTheLatest == Spec => []HistoryIsTheLatest
<1>1. IInv => HistoryIsTheLatest
  <2> SUFFICES ASSUME IInv PROVE HistoryIsTheLatest
    OBVIOUS
  <2>1. ListsTheLatest(events, {e \in Range(inserted) : Recent(e)}, Cap)
    BY DEF IInv, History
  <2>2. \A q \in Queries : q.max \in Nat
    BY DEF Queries
  <2> QED
    BY <2>1, <2>2, QueryCorrect DEF HistoryIsTheLatest
<1> QED
  BY <1>1, EventLogInvariant, PTL

\* A client that stays has read, in order and once, every matching event up to
\* where its stream has come, but for what waits for it: a stream that lags
\* behind ends, it does not skip (handle_events).
THEOREM EventLogStreamsHaveNoGap == Spec => []StreamHasNoGap
<1>1. IInv => StreamHasNoGap
  <2> SUFFICES ASSUME IInv, NEW s \in Streams, stream[s].client, stream[s].pc # "new"
               PROVE  /\ \A i, j \in DOMAIN Forwarded(stream[s]) :
                            i < j => Forwarded(stream[s])[i].id < Forwarded(stream[s])[j].id
                      /\ Range(Forwarded(stream[s])) = Due(stream[s])
    BY DEF StreamHasNoGap, Forwarded, Due
  <2> PICK st : st = stream[s]
    OBVIOUS
  <2>1. st \in StreamStates /\ Follows(st)
    BY DEF IInv, Streaming, Typed
  <2>2. Forwarded(st) \in Seq(Event)
    BY <2>1, EventSequences DEF StreamStates, Forwarded
  <2>3. DOMAIN Forwarded(st) = 1..Len(Forwarded(st))
    BY <2>2
  <2> QED
    BY <2>1, <2>3 DEF Follows, Ascending
<1> QED
  BY <1>1, EventLogInvariant, PTL
=============================================================================
