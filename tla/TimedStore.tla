----------------------------- MODULE TimedStore -----------------------------
(***************************************************************************)
(* The per-container sample buffer of cadvisor-manager/src/store.rs: a     *)
(* deque in timestamp order, evicted by age relative to its newest sample, *)
(* and read through a window that keeps the most recent samples.           *)
(*                                                                         *)
(* A sample is abstracted to its timestamp and its arrival number; the     *)
(* arrival number tells samples with equal timestamps apart.  A timestamp  *)
(* is a positive integer, 0 stands for the zero GoTime ("unbounded").      *)
(***************************************************************************)
EXTENDS Integers, Sequences

CONSTANTS
    Times,      \* the timestamps samples may carry (the wall clock may step back)
    MaxAge,     \* --storage_duration
    ChronoMax,  \* the longest span chrono::Duration can hold
    MaxPushes   \* bound on the number of samples pushed

ASSUME TimesAssumption == Times \subseteq Nat \ {0}
ASSUME AgeAssumption == MaxAge \in Nat /\ ChronoMax \in Nat
ASSUME PushesAssumption == MaxPushes \in Nat

VARIABLES
    buf,        \* TimedStore::buf, oldest first
    pushed,     \* history: every sample ever pushed
    count       \* history: how many there are, which numbers the next one

vars == <<buf, pushed, count>>

Sample == [t : Times, id : 1..MaxPushes]

\* VecDeque::partition_point(P): the length of the prefix that satisfies P,
\* for a predicate that holds on a prefix only.
PartitionPoint(s, P(_)) ==
    CHOOSE k \in 0..Len(s) :
        /\ \A i \in 1..k : P(s[i])
        /\ \A i \in (k + 1)..Len(s) : ~P(s[i])

\* VecDeque::insert: x becomes the element after the first k.
InsertAfter(s, k, x) ==
    [i \in 1..(Len(s) + 1) |->
        IF i <= k THEN s[i] ELSE IF i = k + 1 THEN x ELSE s[i - 1]]

\* chrono::Duration::from_std(max_age).unwrap_or_default()
FromStd(d) == IF d <= ChronoMax THEN d ELSE 0

\* Faulty variant of Insert: before the samples of the same timestamp.
InsertBeforeEqual(s, x) ==
    IF s # <<>> /\ s[Len(s)].t >= x.t
    THEN InsertAfter(s, PartitionPoint(s, LAMBDA y : y.t < x.t), x)
    ELSE Append(s, x)

\* The insertion of push: at the back unless the last sample is newer.
Insert(s, x) ==
    IF s # <<>> /\ s[Len(s)].t > x.t
    THEN InsertAfter(s, PartitionPoint(s, LAMBDA y : y.t <= x.t), x)
    ELSE Append(s, x)

\* Faulty variant of Evict: a sample exactly max_age old is dropped too.
EvictAtCutoff(s, cutoff) ==
    LET keep == CHOOSE k \in 1..Len(s) :
                    /\ \A i \in 1..(k - 1) : s[i].t <= cutoff
                    /\ s[k].t > cutoff \/ k = Len(s)
    IN  SubSeq(s, keep, Len(s))

\* The loop of push pops the front while it is older than cutoff and not alone:
\* k is the first index at which it stops.
Evict(s, cutoff) ==
    LET keep == CHOOSE k \in 1..Len(s) :
                    /\ \A i \in 1..(k - 1) : s[i].t < cutoff
                    /\ s[k].t >= cutoff \/ k = Len(s)
    IN  SubSeq(s, keep, Len(s))

Pushed(s, x) ==
    LET inserted == Insert(s, x)
    IN  Evict(inserted, inserted[Len(inserted)].t - FromStd(MaxAge))

\* Faulty variant of InRange: the limit trims the recent side.
InRangeOldest(s, start, end, max) ==
    LET lo == IF start = 0 THEN 0 ELSE PartitionPoint(s, LAMBDA y : y.t < start)
        hi == IF end = 0 THEN Len(s) ELSE PartitionPoint(s, LAMBDA y : y.t <= end)
        hi2 == IF max >= 0 /\ hi - lo > max THEN lo + max ELSE hi
    IN  IF lo >= hi THEN <<>> ELSE SubSeq(s, lo + 1, hi2)

\* in_range(start, end, max): 0 means an unbounded side, max < 0 no limit.
InRange(s, start, end, max) ==
    LET lo == IF start = 0 THEN 0 ELSE PartitionPoint(s, LAMBDA y : y.t < start)
        hi == IF end = 0 THEN Len(s) ELSE PartitionPoint(s, LAMBDA y : y.t <= end)
        lo2 == IF max >= 0 /\ hi - lo > max THEN hi - max ELSE lo
    IN  IF lo >= hi THEN <<>> ELSE SubSeq(s, lo2 + 1, hi)

TwoLatest(s) ==
    IF Len(s) < 2 THEN <<>> ELSE <<s[Len(s) - 1], s[Len(s)]>>
-----------------------------------------------------------------------------
Init ==
    /\ buf = <<>>
    /\ pushed = {}
    /\ count = 0

Push(t) ==
    /\ count < MaxPushes
    /\ LET x == [t |-> t, id |-> count + 1]
       IN  /\ buf' = Pushed(buf, x)
           /\ pushed' = pushed \cup {x}
    /\ count' = count + 1

Next == \E t \in Times : Push(t)

Spec == Init /\ [][Next]_vars
-----------------------------------------------------------------------------
(* Properties *)

\* The buffer holds samples that were pushed with a timestamp (store.rs push).
TypeOK ==
    /\ buf \in Seq(Sample)
    /\ pushed \subseteq Sample
    /\ count \in 0..MaxPushes

Newer(x, y) == x.t < y.t \/ (x.t = y.t /\ x.id < y.id)

\* Samples are kept in timestamp order, and equal timestamps in arrival order,
\* even when a sample older than the newest slips in (store.rs push).
Ordered ==
    \A i, j \in 1..Len(buf) : i < j => Newer(buf[i], buf[j])

\* The buffer holds exactly the pushed samples that are not older than the
\* newest one ever pushed minus the storage duration: eviction drops nothing
\* it should keep, and a late sample does not outlive the window (store.rs push).
HoldsTheWindow ==
    {buf[i] : i \in 1..Len(buf)} =
        {x \in pushed : \A y \in pushed : x.t >= y.t - FromStd(MaxAge)}

Bounds == {0} \cup Times

Within(start, end) ==
    {x \in {buf[i] : i \in 1..Len(buf)} : (start = 0 \/ x.t >= start) /\ (end = 0 \/ x.t <= end)}

\* r lists the latest max samples of S, oldest first; all of them if max < 0.
ListsTheLatest(r, S, max) ==
    /\ \A i, j \in 1..Len(r) : i < j => Newer(r[i], r[j])
    /\ \A i \in 1..Len(r) : r[i] \in S
    /\ max >= 0 => Len(r) <= max
    /\ \A x \in S : \/ \E i \in 1..Len(r) : x = r[i]
                    \/ max >= 0 /\ Len(r) = max /\ \A i \in 1..Len(r) : Newer(x, r[i])

\* Window selection, for every pair of bounds (start after end included) and
\* every limit, 0 included, yields the samples within the bounds, the most
\* recent max of them, oldest first (store.rs in_range).
InRangeIsTheLatestWithin ==
    \A start, end \in Bounds : \A max \in (-1)..MaxPushes :
        ListsTheLatest(InRange(buf, start, end, max), Within(start, end), max)

\* The pair the instantaneous CPU rate is computed from is the two samples with
\* the latest timestamps ever pushed, when both are inside the window
\* (store.rs two_latest).
TwoLatestAreTheNewest ==
    LET p == TwoLatest(buf)
    IN  p # <<>> => \A y \in pushed : y \in {p[1], p[2]} \/ Newer(y, p[1])

\* What the readers of the store get is the latest there is (in_range,
\* two_latest).
ReadsAreTheLatest == InRangeIsTheLatestWithin /\ TwoLatestAreTheNewest
=============================================================================
