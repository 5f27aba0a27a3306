--------------------------- MODULE SamplingProofs ---------------------------
(***************************************************************************)
(* Proofs about TimedStore, for every set of timestamps, every storage     *)
(* duration and every number of samples; and about Sampling, which fills a *)
(* TimedStore from a container's files: its steps are steps of the store,  *)
(* the figures of its samples and their summary fit together, the rows of  *)
(* file systems are of the devices they name, and the disk usage is of the *)
(* inodes below the writable layer.                                        *)
(***************************************************************************)
EXTENDS Sampling, WellFoundedInduction, NaturalsInduction, SequenceTheorems, FiniteSetTheorems,
        TLAPS

\* Order and window say nothing of the newest sample ever pushed nor of the
\* arrival numbers still to come; the induction needs both.
IInv ==
    /\ TypeOK
    /\ Ordered
    /\ HoldsTheWindow
    /\ pushed # {} => /\ buf # <<>>
                      /\ \A y \in pushed : y.t <= buf[Len(buf)].t
    /\ \A y \in pushed : y.id <= count

\* A set of naturals that is not empty has a least element.
LEMMA LeastNat ==
    ASSUME NEW S \in SUBSET Nat, S # {}
    PROVE  \E m \in S : \A k \in S : m <= k
<1>1. PICK m \in S : \A k \in S : ~(<<k, m>> \in OpToRel(<, Nat))
  BY NatLessThanWellFounded, WFMin
<1>2. ASSUME NEW k \in S PROVE m <= k
  <2>1. k < m => <<k, m>> \in OpToRel(<, Nat)
    <3>1. <<k, m>> \in Nat \X Nat /\ <<k, m>>[1] = k /\ <<k, m>>[2] = m
      OBVIOUS
    <3> QED
      BY <3>1, Zenon DEF OpToRel
  <2>2. k \in Nat /\ m \in Nat /\ ~(k < m)
    BY <2>1, <1>1
  <2> QED
    BY <2>2
<1> QED
  BY <1>2

\* A set of naturals with 0 and every number's successor has them all.
LEMMA Induction ==
    ASSUME NEW S \in SUBSET Nat, 0 \in S, \A n \in S : n + 1 \in S
    PROVE  S = Nat
<1> SUFFICES ASSUME Nat \ S # {} PROVE FALSE
  OBVIOUS
<1>0. Nat \ S \in SUBSET Nat
  OBVIOUS
<1>1. PICK m \in Nat \ S : \A k \in Nat \ S : m <= k
  BY <1>0, LeastNat
<1>2. m # 0 /\ m - 1 \in Nat /\ ~(m <= m - 1)
  BY <1>1
<1>3. m - 1 \in S
  BY <1>1, <1>2
<1>4. (m - 1) + 1 \in S
  BY <1>3
<1> QED BY <1>1, <1>4

\* A sample's timestamp and arrival number are numbers.
LEMMA SampleType ==
    \A x \in Sample : x.t \in Times /\ x.t \in Nat /\ x.id \in Nat
<1> SUFFICES ASSUME NEW x \in Sample
             PROVE  x.t \in Times /\ x.t \in Nat /\ x.id \in Nat
  OBVIOUS
<1>1. x.t \in Times /\ x.id \in 1..MaxPushes
  BY DEF Sample
<1>2. x.t \in Nat
  BY <1>1, TimesAssumption, Zenon
<1>3. x.id \in Nat
  BY <1>1, PushesAssumption
<1> QED
  BY <1>1, <1>2, <1>3

\* In a buffer ordered by timestamp the samples not newer than t are a prefix:
\* the position partition_point looks for exists.
LEMMA SplitExists ==
    ASSUME NEW s \in Seq(Sample), NEW t \in Times,
           \A i, j \in 1..Len(s) : i < j => s[i].t <= s[j].t
    PROVE  \E k \in 0..Len(s) : /\ \A i \in 1..k : s[i].t <= t
                                /\ \A i \in (k + 1)..Len(s) : ~(s[i].t <= t)
<1> DEFINE S == {k \in 0..Len(s) : \A i \in (k + 1)..Len(s) : ~(s[i].t <= t)}
<1>0. Len(s) \in Nat /\ \A i \in 1..Len(s) : s[i].t \in Nat /\ t \in Nat
  BY TimesAssumption, SampleType
<1>1. S \in SUBSET Nat /\ Len(s) \in S
  BY <1>0
<1>2. PICK k \in S : \A j \in S : k <= j
  BY <1>1, LeastNat
<1>3. ASSUME NEW i \in 1..k PROVE s[i].t <= t
  <2>0. k \in 0..Len(s) /\ k >= 1
    BY <1>0
  <2>1. k - 1 \notin S /\ k - 1 \in 0..Len(s) /\ k \in 0..Len(s)
    <3>1. k - 1 \in 0..Len(s) /\ ~(k <= k - 1)
      BY <2>0, <1>0
    <3>2. k - 1 \notin S
      BY <3>1, <1>2
    <3> QED
      BY <2>0, <3>1, <3>2
  <2>2. PICK j \in k..Len(s) : s[j].t <= t
    BY <2>1
  <2>3. j = k
    BY <1>2, <2>1, <2>2
  <2>4. s[i].t <= s[k].t
    BY <2>1, <1>0
  <2> QED
    BY <2>1, <2>2, <2>3, <2>4, <1>0
<1> QED
  BY <1>2, <1>3

\* What an insertion at the right place yields: the old samples and the new
\* one, in order.
LEMMA InsertCorrect ==
    ASSUME NEW s \in Seq(Sample), NEW x \in Sample,
           \A i, j \in 1..Len(s) : i < j => Newer(s[i], s[j]),
           \A i \in 1..Len(s) : s[i].id < x.id
    PROVE  /\ Insert(s, x) \in Seq(Sample)
           /\ Len(Insert(s, x)) = Len(s) + 1
           /\ \A i, j \in 1..Len(Insert(s, x)) :
                 i < j => Newer(Insert(s, x)[i], Insert(s, x)[j])
           /\ {Insert(s, x)[i] : i \in 1..Len(Insert(s, x))}
                 = {s[i] : i \in 1..Len(s)} \cup {x}
           /\ s # <<>> => Insert(s, x)[Len(s) + 1] =
                             IF s[Len(s)].t > x.t THEN s[Len(s)] ELSE x
           /\ s = <<>> => Insert(s, x)[Len(s) + 1] = x
<1> DEFINE r == Insert(s, x)
<1>0. /\ Len(s) \in Nat
      /\ \A i \in 1..Len(s) : s[i] \in Sample /\ s[i].t \in Nat /\ s[i].id \in Nat
      /\ x.t \in Nat /\ x.id \in Nat /\ x.t \in Times
  BY SampleType
<1>1. \E k \in 0..Len(s) :
          /\ \A i \in 1..k : s[i].t <= x.t
          /\ \A i \in (k + 1)..Len(s) : ~(s[i].t <= x.t)
          /\ r = InsertAfter(s, k, x)
          /\ s # <<>> /\ s[Len(s)].t > x.t <=> k < Len(s)
  <2>1. CASE s # <<>> /\ s[Len(s)].t > x.t
    <3> DEFINE k == PartitionPoint(s, LAMBDA y : y.t <= x.t)
    <3>1. \A i, j \in 1..Len(s) : i < j => s[i].t <= s[j].t
      BY <1>0 DEF Newer
    <3>2. /\ k \in 0..Len(s)
          /\ \A i \in 1..k : s[i].t <= x.t
          /\ \A i \in (k + 1)..Len(s) : ~(s[i].t <= x.t)
      BY <3>1, <1>0, SplitExists DEF PartitionPoint
    <3>3. r = InsertAfter(s, k, x)
      BY <2>1 DEF Insert
    <3> HIDE DEF k, r
    <3>4. Len(s) \in 1..Len(s)
      BY <2>1, <1>0
    <3>5. k # Len(s)
      BY <3>2, <3>4, <2>1, <1>0
    <3> QED
      BY <3>2, <3>3, <3>5, <2>1, <1>0
  <2>2. CASE ~(s # <<>> /\ s[Len(s)].t > x.t)
    <3>1. r = Append(s, x)
      BY <2>2 DEF Insert
    <3>2. r = InsertAfter(s, Len(s), x)
      <4> DEFINE a == Append(s, x)
      <4>1. /\ a \in Seq(Sample)
            /\ Len(a) = Len(s) + 1
            /\ \A i \in 1..Len(s) : a[i] = s[i]
            /\ a[Len(s) + 1] = x
        BY AppendProperties
      <4> HIDE DEF a
      <4>3. a = [i \in 1..(Len(s) + 1) |-> a[i]]
        BY <4>1, <1>0
      <4>2. \A i \in 1..(Len(s) + 1) : i = Len(s) + 1 \/ i \in 1..Len(s)
        BY <1>0
      <4> QED
        BY <3>1, <4>1, <4>2, <4>3, <1>0 DEF InsertAfter, a
    <3>3. \A i \in 1..Len(s) : s[i].t <= x.t
      <4> SUFFICES ASSUME NEW i \in 1..Len(s) PROVE s[i].t <= x.t
        OBVIOUS
      <4>1. s[Len(s)].t <= x.t /\ Len(s) \in 1..Len(s)
        BY <2>2, <1>0
      <4>2. i = Len(s) \/ Newer(s[i], s[Len(s)])
        BY <1>0, <4>1
      <4> QED
        BY <4>1, <4>2, <1>0, SMTT(30) DEF Newer
    <3> QED
      BY <3>2, <3>3, <2>2, <1>0, SMTT(30)
  <2> QED
    BY <2>1, <2>2
<1>2. PICK k \in 0..Len(s) :
          /\ \A i \in 1..k : s[i].t <= x.t
          /\ \A i \in (k + 1)..Len(s) : ~(s[i].t <= x.t)
          /\ r = InsertAfter(s, k, x)
          /\ s # <<>> /\ s[Len(s)].t > x.t <=> k < Len(s)
  BY <1>1
<1>3. /\ r \in [1..(Len(s) + 1) -> Sample]
      /\ \A i \in 1..(Len(s) + 1) :
            r[i] = IF i <= k THEN s[i] ELSE IF i = k + 1 THEN x ELSE s[i - 1]
  BY <1>2, <1>0 DEF InsertAfter
<1> HIDE DEF r
<1>4. r \in Seq(Sample) /\ Len(r) = Len(s) + 1
  BY <1>3, <1>0
<1>5. ASSUME NEW i \in 1..(Len(s) + 1), NEW j \in 1..(Len(s) + 1), i < j
      PROVE  Newer(r[i], r[j])
  <2>1. CASE j <= k
    <3>1. i \in 1..Len(s) /\ j \in 1..Len(s) /\ i <= k
      BY <1>0, <1>5, <2>1
    <3>2. r[i] = s[i] /\ r[j] = s[j]
      BY <1>3, <2>1, <3>1
    <3> QED
      BY <1>0, <1>5, <3>1, <3>2
  <2>2. CASE j = k + 1
    <3>1. r[i] = s[i] /\ r[j] = x /\ i \in 1..k
      BY <2>2, <1>5, <1>3, <1>2, <1>0
    <3> QED
      BY <3>1, <1>2, <1>0 DEF Newer
  <2>3. CASE j > k + 1
    <3>1. r[j] = s[j - 1] /\ j - 1 \in (k + 1)..Len(s)
      BY <2>3, <1>3, <1>2, <1>0
    <3>2. CASE i = k + 1
      BY <3>1, <3>2, <1>3, <1>2, <1>0, SMTT(30) DEF Newer
    <3>3. CASE i <= k
      <4>1. r[i] = s[i] /\ i \in 1..Len(s) /\ j - 1 \in 1..Len(s) /\ i < j - 1
        BY <3>1, <3>3, <1>3, <1>2, <1>0
      <4> QED
        BY <3>1, <4>1
    <3>4. CASE i > k + 1
      <4>1. r[i] = s[i - 1] /\ i - 1 \in 1..Len(s) /\ j - 1 \in 1..Len(s) /\ i - 1 < j - 1
        BY <3>1, <3>4, <1>5, <1>3, <1>2, <1>0
      <4> QED
        BY <3>1, <4>1
    <3> QED
      BY <3>2, <3>3, <3>4, <1>2, <1>0
  <2> QED
    BY <2>1, <2>2, <2>3, <1>2, <1>0
<1>6. {r[i] : i \in 1..(Len(s) + 1)} = {s[i] : i \in 1..Len(s)} \cup {x}
  <2>1. \A i \in 1..(Len(s) + 1) : r[i] = x \/ \E j \in 1..Len(s) : r[i] = s[j]
    BY <1>3, <1>2, <1>0
  <2>2. r[k + 1] = x /\ k + 1 \in 1..(Len(s) + 1)
    BY <1>3, <1>2, <1>0
  <2>3. ASSUME NEW j \in 1..Len(s) PROVE \E i \in 1..(Len(s) + 1) : r[i] = s[j]
    <3>1. CASE j <= k
      BY <3>1, <1>3, <1>0
    <3>2. CASE j > k
      <4>1. j + 1 \in 1..(Len(s) + 1) /\ r[j + 1] = s[j]
        BY <3>2, <1>3, <1>2, <1>0
      <4> QED
        BY <4>1
    <3> QED
      BY <3>1, <3>2, <1>2, <1>0
  <2>4. {r[i] : i \in 1..(Len(s) + 1)} \subseteq {s[i] : i \in 1..Len(s)} \cup {x}
    BY <2>1
  <2>5. {s[i] : i \in 1..Len(s)} \subseteq {r[i] : i \in 1..(Len(s) + 1)}
    BY <2>3
  <2>6. x \in {r[i] : i \in 1..(Len(s) + 1)}
    BY <2>2
  <2> QED
    BY <2>4, <2>5, <2>6
<1>7. r[Len(s) + 1] = IF k < Len(s) THEN s[Len(s)] ELSE x
  BY <1>3, <1>2, <1>0
<1> QED
  BY <1>2, <1>4, <1>5, <1>6, <1>7, <1>0 DEF r

\* What the eviction loop leaves of an ordered buffer whose last sample is
\* recent enough: exactly the samples not older than the cutoff, in order.
LEMMA EvictCorrect ==
    ASSUME NEW s \in Seq(Sample), s # <<>>, NEW cutoff \in Int,
           \A i, j \in 1..Len(s) : i < j => Newer(s[i], s[j]),
           s[Len(s)].t >= cutoff
    PROVE  /\ Evict(s, cutoff) \in Seq(Sample)
           /\ Evict(s, cutoff) # <<>>
           /\ \A i, j \in 1..Len(Evict(s, cutoff)) :
                 i < j => Newer(Evict(s, cutoff)[i], Evict(s, cutoff)[j])
           /\ {Evict(s, cutoff)[i] : i \in 1..Len(Evict(s, cutoff))}
                 = {y \in {s[i] : i \in 1..Len(s)} : y.t >= cutoff}
           /\ Evict(s, cutoff)[Len(Evict(s, cutoff))] = s[Len(s)]
<1> DEFINE Stop(k) == /\ \A i \in 1..(k - 1) : s[i].t < cutoff
                      /\ s[k].t >= cutoff \/ k = Len(s)
           S == {k \in 1..Len(s) : s[k].t >= cutoff}
           e == Evict(s, cutoff)
<1>0. /\ Len(s) \in Nat /\ Len(s) \in 1..Len(s)
      /\ \A i \in 1..Len(s) : s[i] \in Sample /\ s[i].t \in Nat /\ s[i].id \in Nat
  BY SampleType
<1>1. PICK k \in S : \A j \in S : k <= j
  <2>1. S \in SUBSET Nat /\ Len(s) \in S
    BY <1>0
  <2> QED
    BY <2>1, LeastNat
<1>2. ASSUME NEW i \in 1..(k - 1) PROVE s[i].t < cutoff
  <2>1. i \in 1..Len(s) /\ ~(k <= i)
    BY <1>0
  <2>2. i \notin S
    BY <2>1, <1>1
  <2> QED
    BY <2>1, <2>2, <1>0
<1>3. k \in 1..Len(s) /\ Stop(k)
  BY <1>2
<1>4. PICK m \in 1..Len(s) : Stop(m) /\ e = SubSeq(s, m, Len(s))
  <2> DEFINE c == CHOOSE j \in 1..Len(s) : Stop(j)
  <2>1. c \in 1..Len(s) /\ Stop(c)
    BY <1>3
  <2>2. e = SubSeq(s, c, Len(s))
    BY DEF Evict
  <2> QED
    BY <2>1, <2>2
<1>5. s[m].t >= cutoff
  BY <1>4, <1>0
<1>6. \A i \in 1..Len(s) : s[i].t >= cutoff <=> i >= m
  <2> SUFFICES ASSUME NEW i \in 1..Len(s) PROVE s[i].t >= cutoff <=> i >= m
    OBVIOUS
  <2>1. CASE i < m
    BY <2>1, <1>4, <1>0
  <2>2. CASE i = m
    BY <2>2, <1>5, <1>0
  <2>3. CASE i > m
    BY <2>3, <1>5, <1>0 DEF Newer
  <2> QED
    BY <2>1, <2>2, <2>3, <1>0
<1>7. /\ e \in Seq(Sample)
      /\ Len(e) = Len(s) - m + 1
      /\ \A i \in 1..Len(e) : e[i] = s[i + m - 1] /\ i + m - 1 \in 1..Len(s)
  BY <1>4, <1>0
<1> HIDE DEF e, Stop
<1>8. e # <<>> /\ Len(e) \in 1..Len(e) /\ e[Len(e)] = s[Len(s)]
  BY <1>7, <1>0
<1>9. \A i, j \in 1..Len(e) : i < j => Newer(e[i], e[j])
  <2> SUFFICES ASSUME NEW i \in 1..Len(e), NEW j \in 1..Len(e), i < j
               PROVE  Newer(e[i], e[j])
    OBVIOUS
  <2>1. i + m - 1 < j + m - 1
    BY <1>7, <1>0
  <2> QED
    BY <2>1, <1>7
<1>10. {e[i] : i \in 1..Len(e)} = {y \in {s[i] : i \in 1..Len(s)} : y.t >= cutoff}
  <2>1. ASSUME NEW i \in 1..Len(e)
        PROVE  e[i] \in {s[j] : j \in 1..Len(s)} /\ e[i].t >= cutoff
    <3>1. i + m - 1 >= m /\ i + m - 1 \in 1..Len(s) /\ e[i] = s[i + m - 1]
      BY <1>7, <1>0
    <3> QED
      BY <3>1, <1>6
  <2>2. ASSUME NEW i \in 1..Len(s), s[i].t >= cutoff
        PROVE  \E j \in 1..Len(e) : e[j] = s[i]
    <3>1. i >= m
      BY <2>2, <1>6
    <3>2. i - m + 1 \in 1..Len(e) /\ (i - m + 1) + m - 1 = i
      BY <3>1, <1>7, <1>0
    <3> QED
      BY <3>2, <1>7
  <2>3. ASSUME NEW y \in {s[i] : i \in 1..Len(s)}, y.t >= cutoff
        PROVE  y \in {e[i] : i \in 1..Len(e)}
    BY <2>2, <2>3
  <2>4. ASSUME NEW y \in {e[i] : i \in 1..Len(e)}
        PROVE  y \in {s[j] : j \in 1..Len(s)} /\ y.t >= cutoff
    BY <2>1
  <2> QED
    BY <2>3, <2>4
<1> QED
  BY <1>7, <1>8, <1>9, <1>10 DEF e

\* One push of a sample keeps the induction invariant.
LEMMA PushInvariant ==
    ASSUME IInv, NEW t \in Times, Push(t)
    PROVE  IInv'
<1> DEFINE x == [t |-> t, id |-> count + 1]
           F == FromStd(MaxAge)
           r == Insert(buf, x)
           N == r[Len(r)].t
           e == Evict(r, N - F)
<1>0. /\ buf' = e /\ pushed' = pushed \cup {x} /\ count' = count + 1
      /\ count \in Nat /\ count + 1 \in 0..MaxPushes
      /\ F \in Nat
  BY AgeAssumption, PushesAssumption DEF Push, Pushed, IInv, TypeOK, FromStd
<1> HIDE DEF F
<1>1. x \in Sample /\ x.t = t /\ x.id = count + 1
  BY <1>0 DEF Sample
<1> HIDE DEF x
<1>2. /\ buf \in Seq(Sample) /\ pushed \subseteq Sample
      /\ \A i, j \in 1..Len(buf) : i < j => Newer(buf[i], buf[j])
      /\ {buf[i] : i \in 1..Len(buf)} =
            {z \in pushed : \A y \in pushed : z.t >= y.t - F}
      /\ pushed # {} => buf # <<>> /\ \A y \in pushed : y.t <= buf[Len(buf)].t
      /\ \A y \in pushed : y.id <= count
  BY Zenon DEF IInv, TypeOK, Ordered, HoldsTheWindow, F
<1>3. ASSUME NEW i \in 1..Len(buf) PROVE buf[i] \in pushed /\ buf[i].id < x.id
  <2>1. buf[i] \in pushed
    BY <1>2
  <2>2. buf[i].id <= count /\ buf[i].id \in Nat
    BY <2>1, <1>2, SampleType
  <2> QED
    BY <2>1, <2>2, <1>1, <1>0
<1>4. /\ r \in Seq(Sample)
      /\ Len(r) = Len(buf) + 1
      /\ \A i, j \in 1..Len(r) : i < j => Newer(r[i], r[j])
      /\ {r[i] : i \in 1..Len(r)} = {buf[i] : i \in 1..Len(buf)} \cup {x}
      /\ buf # <<>> => r[Len(buf) + 1] = IF buf[Len(buf)].t > x.t THEN buf[Len(buf)] ELSE x
      /\ buf = <<>> => r[Len(buf) + 1] = x
  BY <1>1, <1>2, <1>3, InsertCorrect
<1> HIDE DEF r
<1>5. /\ r # <<>> /\ Len(r) \in 1..Len(r) /\ r[Len(r)] \in Sample
      /\ N \in Nat /\ N - F \in Int /\ N >= N - F
  <2>1. Len(buf) \in Nat /\ r # <<>> /\ Len(r) \in 1..Len(r)
    BY <1>2, <1>4
  <2>2. r[Len(r)] \in Sample
    BY <2>1, <1>4
  <2>3. N \in Nat
    BY <2>2, SampleType
  <2> QED
    BY <2>1, <2>2, <2>3, <1>0
<1>6. \A y \in pushed \cup {x} : y.t <= N
  <2>1. x.t \in Nat /\ x.t <= N
    <3>1. CASE buf = <<>>
      BY <3>1, <1>4, <1>1, SampleType
    <3>2. CASE buf # <<>>
      <4>1. buf[Len(buf)].t \in Nat /\ x.t \in Nat
        BY <3>2, <1>2, <1>1, SampleType
      <4> QED
        BY <3>2, <4>1, <1>4
    <3> QED
      BY <3>1, <3>2
  <2>2. ASSUME NEW y \in pushed PROVE y.t <= N
    <3>1. buf # <<>> /\ y.t <= buf[Len(buf)].t
      BY <1>2
    <3>2. buf[Len(buf)].t \in Nat /\ x.t \in Nat /\ y.t \in Nat
      BY <3>1, <1>2, <1>1, SampleType
    <3> QED
      BY <3>1, <3>2, <1>4
  <2> QED
    BY <2>1, <2>2
<1>7. /\ e \in Seq(Sample) /\ e # <<>>
      /\ \A i, j \in 1..Len(e) : i < j => Newer(e[i], e[j])
      /\ {e[i] : i \in 1..Len(e)} = {y \in {r[i] : i \in 1..Len(r)} : y.t >= N - F}
      /\ e[Len(e)] = r[Len(r)]
  <2> HIDE DEF N
  <2>1. r[Len(r)].t >= N - F
    BY <1>5 DEF N
  <2> QED
    BY <2>1, <1>4, <1>5, EvictCorrect
<1> HIDE DEF e
<1>8. TypeOK'
  BY <1>0, <1>1, <1>2, <1>7 DEF TypeOK
<1>9. Ordered'
  BY <1>0, <1>7 DEF Ordered
<1>10. HoldsTheWindow'
  <2> DEFINE P == pushed \cup {x}
  <2>0. \A y \in P : y \in Sample /\ y.t \in Nat
    BY <1>1, <1>2, SampleType
  <2>1. ASSUME NEW z \in {e[i] : i \in 1..Len(e)}
        PROVE  z \in P /\ \A y \in P : z.t >= y.t - F
    <3>1. z \in P /\ z.t >= N - F
      BY <1>7, <1>4, <1>3
    <3> QED
      BY <3>1, <2>0, <1>6, <1>5, <1>0, SMTT(30)
  <2>2. ASSUME NEW z \in P, \A y \in P : z.t >= y.t - F
        PROVE  z \in {e[i] : i \in 1..Len(e)}
    <3>1. r[Len(r)] \in P
      BY <1>5, <1>4, <1>3
    <3>2. z.t >= N - F
      BY <3>1, <2>2
    <3>3. z \in {r[i] : i \in 1..Len(r)}
      BY <2>2, <1>2, <1>4
    <3> QED
      BY <3>2, <3>3, <1>7
  <2>3. {e[i] : i \in 1..Len(e)} = {z \in P : \A y \in P : z.t >= y.t - F}
    BY <2>1, <2>2
  <2> QED
    BY <2>3, <1>0, Zenon DEF HoldsTheWindow, F
<1>11. /\ buf' # <<>>
       /\ \A y \in pushed' : y.t <= buf'[Len(buf')].t
  BY <1>0, <1>6, <1>7
<1>12. \A y \in pushed' : y.id <= count'
  BY <1>0, <1>1, <1>2, SampleType
<1> QED
  BY <1>8, <1>9, <1>10, <1>11, <1>12 DEF IInv

\* Type, order and window together, with what the induction adds to them.
THEOREM StoreInvariant == Spec => []IInv
<1>1. Init => IInv
  <2> SUFFICES ASSUME Init PROVE IInv
    OBVIOUS
  <2>1. buf = <<>> /\ pushed = {} /\ count = 0 /\ Len(buf) = 0
    BY DEF Init
  <2>2. TypeOK
    BY <2>1, PushesAssumption DEF TypeOK
  <2>3. Ordered
    BY <2>1 DEF Ordered
  <2>4. HoldsTheWindow
    BY <2>1 DEF HoldsTheWindow
  <2> QED
    BY <2>1, <2>2, <2>3, <2>4 DEF IInv
<1>2. IInv /\ [Next]_vars => IInv'
  <2>1. ASSUME IInv, UNCHANGED vars PROVE IInv'
    BY <2>1 DEF IInv, TypeOK, Ordered, HoldsTheWindow, vars
  <2> QED
    BY <2>1, PushInvariant DEF Next
<1> QED
  BY <1>1, <1>2, PTL DEF Spec

\* TimedStore::push keeps the samples in timestamp order, ties in arrival
\* order, whatever timestamps the clock gives them.
THEOREM StoreOrdered == Spec => []Ordered
BY StoreInvariant, PTL DEF IInv

\* TimedStore::push holds exactly the samples pushed that are within the
\* storage duration of the newest one.
THEOREM StoreHoldsTheWindow == Spec => []HoldsTheWindow
BY StoreInvariant, PTL DEF IInv

\* The positions partition_point finds for a lower bound.
LEMMA LowerExists ==
    ASSUME NEW s \in Seq(Sample), NEW t \in Times,
           \A i, j \in 1..Len(s) : i < j => s[i].t <= s[j].t
    PROVE  \E k \in 0..Len(s) : /\ \A i \in 1..k : s[i].t < t
                                /\ \A i \in (k + 1)..Len(s) : ~(s[i].t < t)
<1> DEFINE S == {k \in 0..Len(s) : \A i \in (k + 1)..Len(s) : ~(s[i].t < t)}
<1>0. Len(s) \in Nat /\ \A i \in 1..Len(s) : s[i].t \in Nat /\ t \in Nat
  BY TimesAssumption, SampleType
<1>1. S \in SUBSET Nat /\ Len(s) \in S
  BY <1>0
<1>2. PICK k \in S : \A j \in S : k <= j
  BY <1>1, LeastNat
<1>3. ASSUME NEW i \in 1..k PROVE s[i].t < t
  <2>0. k \in 0..Len(s) /\ k >= 1
    BY <1>0
  <2>1. k - 1 \notin S /\ k - 1 \in 0..Len(s) /\ k \in 0..Len(s)
    <3>1. k - 1 \in 0..Len(s) /\ ~(k <= k - 1)
      BY <2>0, <1>0
    <3>2. k - 1 \notin S
      BY <3>1, <1>2
    <3> QED
      BY <2>0, <3>1, <3>2
  <2>2. PICK j \in k..Len(s) : s[j].t < t
    BY <2>1
  <2>3. j = k
    BY <1>2, <2>1, <2>2
  <2>4. s[i].t <= s[k].t
    BY <2>1, <1>0
  <2> QED
    BY <2>1, <2>2, <2>3, <2>4, <1>0
<1> QED
  BY <1>2, <1>3

\* A window of an ordered buffer.
LEMMA WindowLists ==
    ASSUME IInv, NEW start \in Bounds, NEW end \in Bounds, NEW max \in Int
    PROVE  ListsTheLatest(InRange(buf, start, end, max), Within(start, end), max)
<1> PICK n : n = Len(buf)
  OBVIOUS
<1>0. /\ n \in Nat /\ buf \in Seq(Sample) /\ start \in Nat /\ end \in Nat
      /\ \A i \in 1..n : buf[i] \in Sample /\ buf[i].t \in Nat
  BY SampleType, TimesAssumption DEF IInv, TypeOK, Bounds
<1>1. \A i, j \in 1..n : i < j => Newer(buf[i], buf[j]) /\ buf[i].t <= buf[j].t
  BY <1>0 DEF IInv, Ordered, Newer
<1> DEFINE lo == IF start = 0 THEN 0 ELSE PartitionPoint(buf, LAMBDA y : y.t < start)
           hi == IF end = 0 THEN Len(buf) ELSE PartitionPoint(buf, LAMBDA y : y.t <= end)
<1>2. /\ lo \in 0..n
      /\ \A i \in 1..n : (start = 0 \/ buf[i].t >= start) <=> i > lo
  <2>1. CASE start = 0
    BY <1>0, <2>1
  <2>2. CASE start # 0
    <3>0. start \in Times
      BY <2>2 DEF Bounds
    <3>1. \E k \in 0..Len(buf) : /\ \A i \in 1..k : buf[i].t < start
                                 /\ \A i \in (k + 1)..Len(buf) : ~(buf[i].t < start)
      BY <1>0, <1>1, <3>0, LowerExists
    <3>2. /\ lo \in 0..Len(buf) /\ \A i \in 1..lo : buf[i].t < start
          /\ \A i \in (lo + 1)..Len(buf) : ~(buf[i].t < start)
      BY <2>2, <3>1 DEF PartitionPoint
    <3> HIDE DEF lo
    <3> QED
      BY <1>0, <2>2, <3>2
  <2> QED
    BY <2>1, <2>2
<1>3. /\ hi \in 0..n
      /\ \A i \in 1..n : (end = 0 \/ buf[i].t <= end) <=> i <= hi
  <2>1. CASE end = 0
    BY <1>0, <2>1
  <2>2. CASE end # 0
    <3>0. end \in Times
      BY <2>2 DEF Bounds
    <3>1. \E k \in 0..Len(buf) : /\ \A i \in 1..k : buf[i].t <= end
                                 /\ \A i \in (k + 1)..Len(buf) : ~(buf[i].t <= end)
      BY <1>0, <1>1, <3>0, SplitExists
    <3>2. /\ hi \in 0..Len(buf) /\ \A i \in 1..hi : buf[i].t <= end
          /\ \A i \in (hi + 1)..Len(buf) : ~(buf[i].t <= end)
      BY <2>2, <3>1 DEF PartitionPoint
    <3> HIDE DEF hi
    <3> QED
      BY <1>0, <2>2, <3>2
  <2> QED
    BY <2>1, <2>2
<1> DEFINE lo2 == IF max >= 0 /\ hi - lo > max THEN hi - max ELSE lo
           r == IF lo >= hi THEN <<>> ELSE SubSeq(buf, lo2 + 1, hi)
<1>4. InRange(buf, start, end, max) = r
  BY DEF InRange
<1> HIDE DEF lo, hi
<1>5. \A x \in Within(start, end) : \E i \in 1..n : x = buf[i] /\ i > lo /\ i <= hi
  BY <1>2, <1>3 DEF Within
<1>6. \A i \in 1..n : i > lo /\ i <= hi => buf[i] \in Within(start, end)
  BY <1>2, <1>3 DEF Within
<1>7. CASE lo >= hi
  <2>1. r = <<>>
    BY <1>7
  <2>2. \A x \in Within(start, end) : FALSE
    BY <1>0, <1>2, <1>3, <1>5, <1>7
  <2>3. InRange(buf, start, end, max) = <<>>
    BY <1>4, <2>1
  <2>4. Len(<<>>) = 0
    OBVIOUS
  <2>5. ListsTheLatest(<<>>, Within(start, end), max)
    <3> HIDE DEF Within
    <3> QED
      BY <2>2, <2>4 DEF ListsTheLatest
  <2> QED
    BY <2>3, <2>5
<1>8. CASE ~(lo >= hi)
  <2> PICK m \in Int : m = lo2
    BY <1>2, <1>3
  <2>1. /\ m \in 0..hi /\ lo <= m /\ (max >= 0 => hi - m <= max)
        /\ m = lo \/ (max >= 0 /\ hi - m = max)
    BY <1>0, <1>2, <1>3, <1>8
  <2>2. r \in Seq(Sample) /\ Len(r) = hi - m /\ \A i \in 1..(hi - m) : r[i] = buf[m + i]
    <3>1. r = SubSeq(buf, m + 1, hi)
      BY <1>8
    <3> HIDE DEF r, lo2
    <3> QED
      BY <1>0, <1>3, <2>1, <3>1
  <2> HIDE DEF r, lo2
  <2>3. \A i \in 1..(hi - m) : m + i \in 1..n /\ m + i > lo /\ m + i <= hi
    BY <1>0, <1>2, <1>3, <2>1
  <2>4. \A i, j \in 1..(hi - m) : i < j => Newer(r[i], r[j])
    <3> SUFFICES ASSUME NEW i \in 1..(hi - m), NEW j \in 1..(hi - m), i < j PROVE Newer(r[i], r[j])
      OBVIOUS
    <3>1. m + i < m + j
      BY <1>3, <2>1
    <3> QED
      BY <1>1, <2>2, <2>3, <3>1
  <2>5. \A i \in 1..(hi - m) : r[i] \in Within(start, end)
    BY <1>6, <2>2, <2>3
  <2>6. ASSUME NEW x \in Within(start, end)
        PROVE  \/ \E i \in 1..(hi - m) : x = r[i]
               \/ max >= 0 /\ hi - m = max /\ \A i \in 1..(hi - m) : Newer(x, r[i])
    <3>1. PICK k \in 1..n : x = buf[k] /\ k > lo /\ k <= hi
      BY <1>5
    <3>2. CASE k > m
      <4>1. k - m \in 1..(hi - m) /\ m + (k - m) = k
        BY <1>3, <2>1, <3>1, <3>2
      <4> QED
        BY <2>2, <3>1, <4>1
    <3>3. CASE ~(k > m)
      <4>1. max >= 0 /\ hi - m = max
        BY <1>2, <2>1, <3>1, <3>3
      <4>2. ASSUME NEW i \in 1..(hi - m) PROVE Newer(x, r[i])
        <5>1. k < m + i
          BY <1>3, <2>1, <3>3
        <5> QED
          BY <1>1, <2>2, <2>3, <3>1, <5>1
      <4> QED
        BY <4>1, <4>2
    <3> QED
      BY <3>2, <3>3
  <2> QED
    <3>1. ListsTheLatest(r, Within(start, end), max)
      <4> HIDE DEF Within
      <4>1. max >= 0 => Len(r) <= max
        BY <2>1, <2>2
      <4> QED
        BY <2>2, <2>4, <2>5, <2>6, <4>1 DEF ListsTheLatest
    <3> QED
      BY <1>4, <3>1
<1> QED
  BY <1>7, <1>8

\* The two newest samples.
LEMMA NewestTwo == IInv => TwoLatestAreTheNewest
<1> SUFFICES ASSUME IInv, TwoLatest(buf) # <<>>, NEW y \in pushed
             PROVE  y \in {TwoLatest(buf)[1], TwoLatest(buf)[2]} \/ Newer(y, TwoLatest(buf)[1])
  BY DEF TwoLatestAreTheNewest
<1> PICK n : n = Len(buf)
  OBVIOUS
<1>0. /\ n \in Nat /\ \A i \in 1..n : buf[i] \in Sample /\ buf[i].t \in Nat
      /\ \A z \in pushed : z \in Sample /\ z.t \in Nat
  BY SampleType DEF IInv, TypeOK
<1>1. n >= 2 /\ TwoLatest(buf) = <<buf[n - 1], buf[n]>>
  BY <1>0 DEF TwoLatest
<1>2. n - 1 \in 1..n /\ n \in 1..n /\ \A i \in 1..n : i = n \/ i = n - 1 \/ i < n - 1
  BY <1>0, <1>1
<1>3. CASE \E i \in 1..n : y = buf[i]
  BY <1>1, <1>2, <1>3 DEF IInv, Ordered
<1>4. CASE ~(\E i \in 1..n : y = buf[i])
  <2>1. y \notin {buf[i] : i \in 1..Len(buf)}
    BY <1>4
  <2>2. PICK z \in pushed : ~(y.t >= z.t - FromStd(MaxAge))
    BY <2>1 DEF IInv, HoldsTheWindow
  <2>3. buf[n - 1].t >= z.t - FromStd(MaxAge)
    <3>1. buf[n - 1] \in {buf[i] : i \in 1..Len(buf)}
      BY <1>2
    <3> QED
      BY <3>1 DEF IInv, HoldsTheWindow
  <2>4. FromStd(MaxAge) \in Nat
    BY AgeAssumption DEF FromStd
  <2>5. y.t < buf[n - 1].t
    BY <1>0, <1>2, <2>2, <2>3, <2>4
  <2> QED
    BY <1>1, <2>5 DEF Newer
<1> QED
  BY <1>3, <1>4

\* Whatever is asked of the store, the answer is the latest there is: a window
\* the most recent samples within its bounds, the pair of the CPU rate the two
\* newest samples of all (TimedStore::in_range, two_latest).
THEOREM StoreReadsAreTheLatest == Spec => []ReadsAreTheLatest
<1>1. IInv => ReadsAreTheLatest
  <2>1. (-1)..MaxPushes \subseteq Int
    BY PushesAssumption
  <2> QED
    BY <2>1, WindowLists, NewestTwo DEF ReadsAreTheLatest, InRangeIsTheLatestWithin
<1> QED
  BY <1>1, StoreInvariant, PTL
-----------------------------------------------------------------------------
(* Sampling: what is true of the sample being read and of those stored.    *)

Pcs == {"top", "walk", "begin", "cpu", "current", "stat", "rest", "check", "push", "returned"}

\* Steps at which the sample has its timestamp, its CPU time, and no memory yet.
Timed == {"cpu", "current", "stat", "rest", "push"}
Counted == Timed \ {"cpu"}
Unread == {"cpu", "current", "stat"}

CgroupType ==
    [exists : BOOLEAN, usage : Nat, memory : BOOLEAN, current : Nat, inactive : Nat]
DataType == [total : Nat, usage : Nat, working_set : Nat, work : Nat]

\* The sample has all its fields, whatever the rows of file systems are.
TaskType ==
    /\ task = [pc |-> task.pc, t |-> task.t, total |-> task.total, current |-> task.current,
               usage |-> task.usage, working_set |-> task.working_set, work |-> task.work,
               fs |-> task.fs]
    /\ task.pc \in Pcs
    /\ task.total \in Nat /\ task.usage \in Nat /\ task.working_set \in Nat /\ task.work \in Nat
    /\ task.current \in SUBSET Nat

SamplingTypes ==
    /\ cgroup \in CgroupType
    /\ work \in Nat
    /\ TaskType
    /\ data \in Seq(DataType) /\ Len(data) = count /\ count \in Nat

\* What is stored carries a time of the clock.
Stamped == task.pc \in Timed => task.t \in Times

\* The working set is within the usage at every step of the reading.
Clamped ==
    /\ task.pc \in Unread => task.working_set = 0
    /\ task.working_set <= task.usage
    /\ \A i \in 1..Len(data) : data[i].working_set <= data[i].usage

\* usage_usec, 0 without a cgroup.
Counter == IF cgroup.exists THEN cgroup.usage ELSE 0

\* The counter only ever falls behind the work that was done, since a restart
\* takes from the former and never from the latter: of two moments, the later
\* has the smaller difference.
Behind ==
    /\ \A i \in 1..Len(data) : Counter - work <= data[i].total - data[i].work
    /\ \A i, j \in 1..Len(data) :
           i <= j => data[j].total - data[j].work <= data[i].total - data[i].work
    /\ task.pc \in Counted =>
           /\ Counter - work <= task.total - task.work
           /\ \A i \in 1..Len(data) :
                  task.total - task.work <= data[i].total - data[i].work

SInv == SamplingTypes /\ Stamped /\ Clamped /\ Behind
\* What happens outside changes no sample, and lets the counter fall behind.
LEMMA OutsideStep ==
    ASSUME SInv, cgroup' \in CgroupType, work' \in Nat,
           Counter' - work' <= Counter - work, UNCHANGED <<task, data, count>>
    PROVE  SInv'
<1>1. Counter \in Nat /\ Counter' \in Nat /\ work \in Nat
  BY DEF SInv, SamplingTypes, CgroupType, Counter
<1>2. ASSUME NEW i \in 1..Len(data) PROVE data[i].total \in Nat /\ data[i].work \in Nat
  <2>1. data[i] \in DataType
    BY DEF SInv, SamplingTypes
  <2> QED BY <2>1 DEF DataType
<1>3. SamplingTypes' /\ Stamped' /\ Clamped'
  BY DEF SInv, SamplingTypes, TaskType, Stamped, Clamped
<1>4. task.total \in Nat /\ task.work \in Nat
  BY DEF SInv, SamplingTypes, TaskType
<1>5. ASSUME NEW i \in 1..Len(data)
      PROVE  Counter' - work' <= data[i].total - data[i].work
  <2>1. Counter - work <= data[i].total - data[i].work
    BY DEF SInv, Behind
  <2>2. PICK c \in Int : Counter' = c
    BY <1>1
  <2>3. PICK w \in Int : work' = w
    BY <1>1
  <2> QED BY <1>1, <1>2, <2>1, <2>2, <2>3
<1>6. ASSUME task.pc \in Counted
      PROVE  Counter' - work' <= task.total - task.work
  <2>1. Counter - work <= task.total - task.work
    BY <1>6 DEF SInv, Behind
  <2>2. PICK c \in Int : Counter' = c
    BY <1>1
  <2>3. PICK w \in Int : work' = w
    BY <1>1
  <2> QED BY <1>1, <1>4, <2>1, <2>2, <2>3
<1>7. Behind'
  BY <1>5, <1>6 DEF SInv, Behind
<1> QED BY <1>3, <1>7 DEF SInv

\* What happens outside the loop changes no sample and no figure being read.
LEMMA OutsideKeeps ==
    ASSUME SInv,
           \/ Work \/ Vanish
           \/ (\E n \in 0..MemTotal : Remember(n)) \/ (\E m \in BOOLEAN : Reappear(m))
           \/ (\E n \in Nodes : Unlink(n) \/ Create(n))
           \/ (\E line \in Mountable : Mount(line)) \/ (\E i \in DOMAIN mounts : Unmount(i))
    PROVE  SInv' /\ UNCHANGED storeVars
<1>1. UNCHANGED <<task, data>> /\ UNCHANGED storeVars
  BY DEF Work, Vanish, Remember, Reappear, Unlink, Create, Mount, Unmount, MountsChange, Happens
<1>2. count' = count
  BY <1>1 DEF storeVars
<1>3. cgroup \in CgroupType /\ work \in Nat
  BY DEF SInv, SamplingTypes
<1>4. CASE Work
  <2>1. cgroup' \in CgroupType /\ work' \in Nat /\ Counter' - work' <= Counter - work
    BY <1>3, <1>4 DEF Work, CgroupType, Counter
  <2> QED BY <1>1, <1>2, <2>1, OutsideStep
<1>5. CASE Vanish
  <2>1. cgroup' \in CgroupType /\ work' \in Nat /\ Counter' - work' <= Counter - work
    <3>1. cgroup' \in CgroupType /\ work' = work
      BY <1>3, <1>5 DEF Vanish, CgroupType
    <3>2. Counter' = 0
      BY <1>3, <1>5 DEF Vanish, CgroupType, Counter
    <3>5. Counter \in Nat
      BY <1>3 DEF Counter, CgroupType
    <3> QED BY <1>3, <3>1, <3>2, <3>5
  <2> QED BY <1>1, <1>2, <2>1, OutsideStep
<1>6. CASE \E n \in 0..MemTotal : Remember(n)
  <2>1. PICK n \in Nat : Remember(n)
    BY <1>6, SamplingAssumption
  <2>2. cgroup' \in CgroupType /\ work' \in Nat /\ Counter' - work' <= Counter - work
    <3>1. cgroup' \in CgroupType /\ work' = work
      BY <1>3, <2>1 DEF Remember, CgroupType
    <3>2. cgroup'.exists = cgroup.exists /\ cgroup'.usage = cgroup.usage
      BY <1>3, <2>1 DEF Remember, CgroupType
    <3>3. Counter' = Counter
      BY <3>2 DEF Counter
    <3>5. Counter \in Nat
      BY <1>3 DEF Counter, CgroupType
    <3> QED BY <1>3, <3>1, <3>3, <3>5
  <2> QED BY <1>1, <1>2, <2>2, OutsideStep
<1>7. CASE \E m \in BOOLEAN : Reappear(m)
  <2>1. PICK m \in BOOLEAN : Reappear(m)
    BY <1>7
  <2>2. cgroup' \in CgroupType /\ work' \in Nat /\ Counter' - work' <= Counter - work
    BY <1>3, <2>1 DEF Reappear, NewCgroup, CgroupType, Counter
  <2> QED BY <1>1, <1>2, <2>2, OutsideStep
<1>8. CASE UNCHANGED <<cgroup, work>>
  <2>1. cgroup' \in CgroupType /\ work' \in Nat /\ Counter' - work' <= Counter - work
    BY <1>3, <1>8 DEF CgroupType, Counter
  <2> QED BY <1>1, <1>2, <2>1, OutsideStep
<1>9. CASE \/ (\E n \in Nodes : Unlink(n) \/ Create(n))
           \/ (\E line \in Mountable : Mount(line)) \/ (\E i \in DOMAIN mounts : Unmount(i))
  <2>1. UNCHANGED <<cgroup, work>>
    BY <1>9 DEF Unlink, Create, Mount, Unmount, MountsChange
  <2> QED BY <1>8, <2>1, <1>1
<1> QED BY <1>1, <1>4, <1>5, <1>6, <1>7, <1>9

\* A step of the loop before the push is judged by the sample it leaves.
LEMMA ReadingStep ==
    ASSUME SInv, UNCHANGED <<cgroup, work, data, count>>,
           TaskType', Stamped',
           task'.pc \in Unread => task'.working_set = 0,
           task'.working_set <= task'.usage,
           task'.pc \in Counted =>
               /\ Counter - work <= task'.total - task'.work
               /\ \A i \in 1..Len(data) :
                      task'.total - task'.work <= data[i].total - data[i].work
    PROVE  SInv'
<1>1. SamplingTypes'
  BY DEF SInv, SamplingTypes
<1>2. Clamped'
  BY DEF SInv, Clamped
<1>3. Behind'
  BY DEF SInv, Behind, Counter
<1> QED BY <1>1, <1>2, <1>3 DEF SInv

\* What stays of a sample's figures when a step does not touch them.
LEMMA SamePart ==
    ASSUME SInv, task.pc \in Counted
    PROVE  /\ Counter - work <= task.total - task.work
           /\ \A i \in 1..Len(data) : task.total - task.work <= data[i].total - data[i].work
BY DEF SInv, Behind

\* A new sample is empty.
LEMMA NewReading ==
    ASSUME NEW pc \in Pcs, NEW t, task' = Reading(pc, t)
    PROVE  /\ TaskType' /\ task'.pc = pc /\ task'.t = t
           /\ task'.working_set = 0 /\ task'.usage = 0
BY DEF Reading, TaskType

\* usage_usec of cpu.stat is the counter, 0 without the file.
LEMMA CpuFileIsCounter ==
    FlatKeyed(OrElse(CpuStatFile, <<>>), "usage_usec") = Counter
<1>1. CASE ~cgroup.exists
  <2>1. OrElse(CpuStatFile, <<>>) = <<>>
    BY <1>1 DEF CpuStatFile, OrElse
  <2>2. {i \in DOMAIN <<>> : <<>>[i].key = "usage_usec"} = {}
    OBVIOUS
  <2> QED BY <1>1, <2>1, <2>2 DEF FlatKeyed, Counter
<1>2. CASE cgroup.exists
  <2>1. PICK lines : lines = <<Line("usage_usec", cgroup.usage), Line("user_usec", cgroup.usage)>>
    OBVIOUS
  <2>2. OrElse(CpuStatFile, <<>>) = lines
    BY <1>2, <2>1 DEF CpuStatFile, OrElse
  <2>3. /\ DOMAIN lines = {1, 2} /\ lines[1].key = "usage_usec" /\ lines[2].key = "user_usec"
        /\ lines[1].value = <<cgroup.usage>>
    BY <2>1 DEF Line
  <2>4. {i \in DOMAIN lines : lines[i].key = "usage_usec"} = {1}
    BY <2>3
  <2>5. (CHOOSE i \in {1} : \A j \in {1} : j <= i) = 1
    OBVIOUS
  <2>6. FlatKeyed(lines, "usage_usec") = Field(lines[1].value)
    BY <2>4, <2>5 DEF FlatKeyed
  <2>7. Field(<<cgroup.usage>>) = cgroup.usage
    BY DEF Field
  <2> QED BY <1>2, <2>2, <2>3, <2>6, <2>7 DEF Counter
<1> QED BY <1>1, <1>2

\* inactive_file of a memory.stat there is, is the cgroup's.
LEMMA InactiveIsRead ==
    ASSUME MemoryStatFile # {}
    PROVE  FlatKeyed(OrElse(MemoryStatFile, <<>>), "inactive_file") = cgroup.inactive
<1>1. PICK lines : lines = <<Line("anon", 0), Line("inactive_file", cgroup.inactive)>>
  OBVIOUS
<1>2. OrElse(MemoryStatFile, <<>>) = lines
  BY <1>1 DEF MemoryStatFile, OrElse
<1>3. /\ DOMAIN lines = {1, 2} /\ lines[1].key = "anon" /\ lines[2].key = "inactive_file"
      /\ lines[2].value = <<cgroup.inactive>>
  BY <1>1 DEF Line
<1>4. {i \in DOMAIN lines : lines[i].key = "inactive_file"} = {2}
  BY <1>3
<1>5. (CHOOSE i \in {2} : \A j \in {2} : j <= i) = 2
  OBVIOUS
<1>6. FlatKeyed(lines, "inactive_file") = Field(lines[2].value)
  BY <1>4, <1>5 DEF FlatKeyed
<1>7. Field(<<cgroup.inactive>>) = cgroup.inactive
  BY DEF Field
<1> QED BY <1>2, <1>3, <1>6, <1>7
\* A step that only moves on, to a place where less is asked of the sample.
LEMMA MoveOn ==
    ASSUME SInv, NEW pc \in Pcs, UNCHANGED <<cgroup, work, data, count>>,
           task' = [task EXCEPT !.pc = pc],
           pc \in Timed => task.pc \in Timed,
           pc \in Counted => task.pc \in Counted,
           pc \in Unread => task.pc \in Unread
    PROVE  SInv'
<1>1. TaskType
  BY DEF SInv, SamplingTypes
<1>2. /\ TaskType' /\ task'.pc = pc /\ task'.t = task.t /\ task'.total = task.total
      /\ task'.usage = task.usage /\ task'.working_set = task.working_set
      /\ task'.work = task.work
  BY <1>1 DEF TaskType
<1>3. Stamped'
  BY <1>2 DEF SInv, Stamped
<1>4. /\ pc \in Unread => task'.working_set = 0
      /\ task'.working_set <= task'.usage
  BY <1>2 DEF SInv, Clamped
<1>5. pc \in Counted =>
          /\ Counter - work <= task'.total - task'.work
          /\ \A i \in 1..Len(data) :
                 task'.total - task'.work <= data[i].total - data[i].work
  BY <1>2, SamePart
<1> QED BY <1>2, <1>3, <1>4, <1>5, ReadingStep

\* A step that starts a sample, with a time if it is to be read.
LEMMA StartOver ==
    ASSUME SInv, NEW pc \in Pcs, NEW t, UNCHANGED <<cgroup, work, data, count>>,
           task' = Reading(pc, t), pc \in Timed => pc = "cpu" /\ t \in Times
    PROVE  SInv'
<1>1. TaskType' /\ task'.pc = pc /\ task'.t = t /\ task'.working_set = 0 /\ task'.usage = 0
  BY NewReading
<1>2. Stamped'
  BY <1>1 DEF Stamped
<1>3. pc \notin Counted
  BY DEF Counted, Timed
<1> QED BY <1>1, <1>2, <1>3, ReadingStep

\* The walk has no sample.
LEMMA WalkKeeps ==
    ASSUME SInv, Top \/ PopDirectory \/ (\E n \in Nodes : VisitEntry(n)) \/ WalkEnds
    PROVE  SInv' /\ UNCHANGED storeVars
<1>1. UNCHANGED storeVars /\ UNCHANGED <<cgroup, work, data, count>>
  BY DEF Top, PopDirectory, VisitEntry, WalkEnds, storeVars
<1>2. CASE UNCHANGED task
  BY <1>1, <1>2, OutsideStep DEF SInv, SamplingTypes, TaskType, Stamped, Clamped, Behind, Counter
<1>3. ASSUME NEW pc \in {"walk", "begin"}, task' = [task EXCEPT !.pc = pc]
      PROVE  SInv'
  <2>1. pc \in Pcs /\ pc \notin Timed /\ pc \notin Counted /\ pc \notin Unread
    BY DEF Pcs, Timed, Counted, Unread
  <2> QED BY <1>1, <1>3, <2>1, MoveOn
<1>4. CASE Top
  <2>1. PICK pc \in {"walk", "begin"} : task' = [task EXCEPT !.pc = pc]
    BY <1>4 DEF Top
  <2> QED BY <1>1, <1>3, <2>1
<1>5. CASE PopDirectory \/ (\E n \in Nodes : VisitEntry(n))
  BY <1>1, <1>2, <1>5 DEF PopDirectory, VisitEntry
<1>6. CASE WalkEnds
  <2>1. PICK pc \in {"walk", "begin"} : task' = [task EXCEPT !.pc = pc]
    BY <1>6 DEF WalkEnds
  <2> QED BY <1>1, <1>3, <2>1
<1> QED BY <1>4, <1>5, <1>6

\* A pass begins at a later time.
LEMMA BeginKeeps ==
    ASSUME SInv, NEW t \in Times, Begin(t)
    PROVE  SInv'
<1>1. UNCHANGED <<cgroup, work, data, count>> /\ task' = Reading("cpu", t)
  BY DEF Begin, Reads, storeVars
<1>2. "cpu" \in Pcs
  BY DEF Pcs
<1> QED BY <1>1, <1>2, StartOver

\* The counter that is read is no further ahead of the work than any stored one.
LEMMA ReadCpuKeeps ==
    ASSUME SInv, ReadCpu
    PROVE  SInv'
<1>1. UNCHANGED <<cgroup, work, data, count>> /\ task.pc = "cpu"
  BY DEF ReadCpu, Reads, storeVars
<1>2. PICK c \in Nat : c = Counter
  BY DEF SInv, SamplingTypes, CgroupType, Counter
<1>3. task' = [task EXCEPT !.pc = "current", !.work = work, !.total = c]
  BY <1>2, CpuFileIsCounter DEF ReadCpu
<1>4. TaskType /\ work \in Nat
  BY DEF SInv, SamplingTypes
<1>5. /\ TaskType' /\ task'.pc = "current" /\ task'.t = task.t /\ task'.total = c
      /\ task'.usage = task.usage /\ task'.working_set = task.working_set
      /\ task'.work = work
  BY <1>3, <1>4 DEF TaskType, Pcs
<1>6. Stamped'
  BY <1>1, <1>5 DEF SInv, Stamped, Timed
<1>7. task'.working_set = 0 /\ task'.working_set <= task'.usage
  BY <1>1, <1>5 DEF SInv, Clamped, Unread
<1>8. Counter - work <= task'.total - task'.work
  BY <1>2, <1>4, <1>5
<1>9. \A i \in 1..Len(data) : task'.total - task'.work <= data[i].total - data[i].work
  BY <1>2, <1>5 DEF SInv, Behind
<1> QED BY <1>1, <1>5, <1>6, <1>7, <1>8, <1>9, ReadingStep

\* The memory in use is read, or taken for 0.
LEMMA ReadCurrentKeeps ==
    ASSUME SInv, ReadCurrent
    PROVE  SInv'
<1>1. UNCHANGED <<cgroup, work, data, count>> /\ task.pc = "current"
  BY DEF ReadCurrent, Reads, storeVars
<1>2. PICK file \in SUBSET Nat, usage \in Nat, pc \in {"rest", "stat"} :
          task' = [task EXCEPT !.current = file, !.usage = usage, !.pc = pc]
  <2>1. MemoryCurrent \in SUBSET Nat
    BY DEF SInv, SamplingTypes, CgroupType, MemoryCurrent
  <2>2. OrElse(MemoryCurrent, 0) \in Nat
    BY <2>1 DEF OrElse
  <2> QED BY <2>1, <2>2 DEF ReadCurrent
<1>3. TaskType
  BY DEF SInv, SamplingTypes
<1>4. /\ TaskType' /\ task'.pc = pc /\ task'.t = task.t /\ task'.total = task.total
      /\ task'.usage = usage /\ task'.working_set = task.working_set
      /\ task'.work = task.work
  BY <1>2, <1>3 DEF TaskType, Pcs
<1>5. Stamped'
  BY <1>1, <1>4 DEF SInv, Stamped, Timed
<1>6. task'.working_set = 0 /\ task'.working_set <= task'.usage
  BY <1>1, <1>4 DEF SInv, Clamped, Unread
<1>7. task.pc \in Counted
  BY <1>1 DEF Counted, Timed
<1>8. /\ Counter - work <= task'.total - task'.work
      /\ \A i \in 1..Len(data) : task'.total - task'.work <= data[i].total - data[i].work
  BY <1>4, <1>7, SamePart
<1> QED BY <1>1, <1>4, <1>5, <1>6, <1>8, ReadingStep

\* The working set is at most the usage it is derived from.
LEMMA ReadStatKeeps ==
    ASSUME SInv, ReadStat
    PROVE  SInv'
<1>1. UNCHANGED <<cgroup, work, data, count>> /\ task.pc = "stat"
  BY DEF ReadStat, Reads, storeVars
<1>2. TaskType /\ cgroup.inactive \in Nat /\ task.usage \in Nat
  BY DEF SInv, SamplingTypes, TaskType, CgroupType
<1>3. PICK w \in Nat :
          /\ w <= task.usage
          /\ w = IF MemoryStatFile = {} THEN task.usage
                 ELSE WorkingSet(task.usage, cgroup.inactive)
  BY <1>2 DEF WorkingSet
<1>3a. task' = [task EXCEPT !.pc = "rest", !.working_set = w]
  <2>1. CASE MemoryStatFile = {}
    BY <1>3, <2>1, Zenon DEF ReadStat
  <2>2. CASE MemoryStatFile # {}
    BY <1>3, <2>2, InactiveIsRead, Zenon DEF ReadStat
  <2> QED BY <2>1, <2>2
<1>4. /\ TaskType' /\ task'.pc = "rest" /\ task'.t = task.t /\ task'.total = task.total
      /\ task'.usage = task.usage /\ task'.working_set = w
      /\ task'.work = task.work
  BY <1>2, <1>3a DEF TaskType, Pcs
<1>5. Stamped'
  BY <1>1, <1>4 DEF SInv, Stamped, Timed
<1>6. "rest" \notin Unread /\ task'.working_set <= task'.usage
  BY <1>3, <1>4 DEF Unread
<1>7. task.pc \in Counted
  BY <1>1 DEF Counted, Timed
<1>8. /\ Counter - work <= task'.total - task'.work
      /\ \A i \in 1..Len(data) : task'.total - task'.work <= data[i].total - data[i].work
  BY <1>4, <1>7, SamePart
<1> QED BY <1>1, <1>4, <1>5, <1>6, <1>8, ReadingStep

\* The rest of the figures replace usage and working set together, or neither.
LEMMA FillRestKeeps ==
    ASSUME SInv, FillRest
    PROVE  SInv'
<1>1. UNCHANGED <<cgroup, work, data, count>> /\ task.pc = "rest"
  BY DEF FillRest, Reads, storeVars
<1>2. TaskType /\ cgroup.current \in Nat /\ MemTotal \in Nat
  BY SamplingAssumption DEF SInv, SamplingTypes, CgroupType
<1>3. PICK fs : \/ task' = [task EXCEPT !.pc = "push", !.fs = fs]
                \/ \E used \in Nat : task' = [task EXCEPT !.pc = "push", !.fs = fs, !.usage = used,
                                                          !.working_set = used]
  <2>1. PICK gone \in SUBSET MayBeGone :
            LET used == MemTotal - cgroup.current
                done == [task EXCEPT !.pc = "push", !.fs = FsRows(gone)]
            IN  task' = IF kind = "root" /\ task.usage = 0 /\ MemTotal >= cgroup.current
                        THEN [done EXCEPT !.usage = used, !.working_set = used]
                        ELSE done
    BY DEF FillRest
  <2>2. PICK fs : fs = FsRows(gone)
    OBVIOUS
  <2>3. CASE kind = "root" /\ task.usage = 0 /\ MemTotal >= cgroup.current
    <3>1. MemTotal - cgroup.current \in Nat
      BY <1>2, <2>3
    <3>2. PICK used \in Nat : used = MemTotal - cgroup.current
      BY <3>1
    <3>3. task' = [task EXCEPT !.pc = "push", !.fs = fs, !.usage = used, !.working_set = used]
      BY <2>1, <2>2, <2>3, <3>2, Zenon
    <3> QED BY <3>3
  <2>4. CASE ~(kind = "root" /\ task.usage = 0 /\ MemTotal >= cgroup.current)
    <3>1. task' = [task EXCEPT !.pc = "push", !.fs = fs]
      BY <2>1, <2>2, <2>4, Zenon
    <3> QED BY <3>1
  <2> QED BY <2>3, <2>4
<1>4. /\ TaskType' /\ task'.pc = "push" /\ task'.t = task.t /\ task'.total = task.total
      /\ task'.work = task.work
      /\ \/ task'.usage = task.usage /\ task'.working_set = task.working_set
         \/ task'.usage \in Nat /\ task'.usage = task'.working_set
  <2>1. CASE task' = [task EXCEPT !.pc = "push", !.fs = fs]
    BY <1>2, <2>1 DEF TaskType, Pcs
  <2>2. ASSUME NEW used \in Nat,
               task' = [task EXCEPT !.pc = "push", !.fs = fs, !.usage = used, !.working_set = used]
        PROVE  /\ TaskType' /\ task'.pc = "push" /\ task'.t = task.t
               /\ task'.total = task.total /\ task'.work = task.work
               /\ task'.usage \in Nat /\ task'.usage = task'.working_set
    BY <1>2, <2>2 DEF TaskType, Pcs
  <2> QED BY <1>3, <2>1, <2>2
<1>5. Stamped'
  BY <1>1, <1>4 DEF SInv, Stamped, Timed
<1>6. "push" \notin Unread /\ task'.working_set <= task'.usage
  BY <1>4 DEF Unread, SInv, Clamped
<1>7. task.pc \in Counted
  BY <1>1 DEF Counted, Timed
<1>8. /\ Counter - work <= task'.total - task'.work
      /\ \A i \in 1..Len(data) : task'.total - task'.work <= data[i].total - data[i].work
  BY <1>4, <1>7, SamePart
<1> QED BY <1>1, <1>4, <1>5, <1>6, <1>8, ReadingStep

\* A pass that fails stores nothing.
LEMMA FailureKeeps ==
    ASSUME SInv, ReadFails \/ CheckExists
    PROVE  SInv'
<1>1. /\ UNCHANGED <<cgroup, work, data, count>>
      /\ \E pc \in {"check", "top", "returned"} : task' = Reading(pc, 0)
  BY DEF ReadFails, CheckExists, Reads, storeVars
<1>2. PICK pc \in {"check", "top", "returned"} : task' = Reading(pc, 0)
  BY <1>1
<1>3. pc \in Pcs /\ pc \notin Timed
  BY DEF Pcs, Timed
<1> QED BY <1>1, <1>2, <1>3, StartOver

\* The sample is stored, and the store takes one of Push's steps.
LEMMA PushKeeps ==
    ASSUME SInv, PushSample
    PROVE  SInv' /\ Next
<1>1. /\ task.pc = "push" /\ Push(task.t) /\ UNCHANGED <<cgroup, work>>
      /\ data' = Append(data, [total |-> task.total, usage |-> task.usage,
                               working_set |-> task.working_set, work |-> task.work])
      /\ task' = Reading("top", 0)
  BY DEF PushSample
<1>2. task.t \in Times
  BY <1>1 DEF SInv, Stamped, Timed
<1>3. Next
  BY <1>1, <1>2 DEF Next
<1>4. PICK n \in Nat : Len(data) = n /\ count = n
  BY DEF SInv, SamplingTypes
<1>5. PICK r \in DataType : r = [total |-> task.total, usage |-> task.usage,
                                 working_set |-> task.working_set, work |-> task.work]
  BY DEF SInv, SamplingTypes, TaskType, DataType
<1>6. /\ r.total = task.total /\ r.usage = task.usage /\ r.working_set = task.working_set
      /\ r.work = task.work
  BY <1>5
<1>7. /\ data' \in Seq(DataType) /\ Len(data') = n + 1 /\ data'[n + 1] = r
      /\ \A i \in 1..n : data'[i] = data[i]
  BY <1>1, <1>4, <1>5 DEF SInv, SamplingTypes
<1>8. count' = n + 1
  BY <1>1, <1>4 DEF Push
<1>9. /\ TaskType' /\ task'.pc = "top" /\ task'.t = 0
      /\ task'.working_set = 0 /\ task'.usage = 0
  BY <1>1, NewReading DEF Pcs
<1>10. SamplingTypes'
  BY <1>1, <1>4, <1>7, <1>8, <1>9 DEF SInv, SamplingTypes
<1>11. Stamped'
  BY <1>9 DEF Stamped, Timed
<1>12. Clamped'
  <2>1. r.working_set <= r.usage
    BY <1>6 DEF SInv, Clamped
  <2>2. ASSUME NEW i \in 1..n + 1 PROVE data'[i].working_set <= data'[i].usage
    <3>1. i = n + 1 \/ i \in 1..n
      BY <1>4
    <3>2. CASE i = n + 1
      BY <1>7, <2>1, <3>2
    <3>3. CASE i \in 1..n
      BY <1>4, <1>7, <3>3 DEF SInv, Clamped
    <3> QED BY <3>1, <3>2, <3>3
  <2> QED BY <1>7, <1>9, <2>2 DEF Clamped
<1>13. Behind'
  <2>1. Counter' = Counter /\ work' = work
    BY <1>1 DEF Counter
  <2>2. /\ Counter - work <= r.total - r.work
        /\ \A i \in 1..n : r.total - r.work <= data[i].total - data[i].work
    BY <1>1, <1>4, <1>6, SamePart DEF Counted, Timed
  <2>3. ASSUME NEW i \in 1..n + 1 PROVE Counter - work <= data'[i].total - data'[i].work
    <3>1. i = n + 1 \/ i \in 1..n
      BY <1>4
    <3>2. CASE i = n + 1
      BY <1>7, <2>2, <3>2
    <3>3. CASE i \in 1..n
      BY <1>4, <1>7, <3>3 DEF SInv, Behind
    <3> QED BY <3>1, <3>2, <3>3
  <2>4. ASSUME NEW i \in 1..n + 1, NEW j \in 1..n + 1, i <= j
        PROVE  data'[j].total - data'[j].work <= data'[i].total - data'[i].work
    <3>1. CASE i \in 1..n /\ j \in 1..n
      BY <1>4, <1>7, <2>4, <3>1 DEF SInv, Behind
    <3>2. CASE i \in 1..n /\ j = n + 1
      BY <1>7, <2>2, <3>2
    <3>3. CASE i = n + 1
      <4>1. j = i
        BY <1>4, <2>4, <3>3
      <4>2. PICK a \in Int : data'[i].total - data'[i].work = a
        <5>1. data'[i] = r /\ r.total \in Nat /\ r.work \in Nat
          BY <1>7, <3>3 DEF DataType
        <5>2. r.total - r.work \in Int
          BY <5>1
        <5> QED BY <5>1, <5>2
      <4> QED BY <4>1, <4>2
    <3> QED BY <1>4, <3>1, <3>2, <3>3
  <2>5. task'.pc \notin Counted
    BY <1>9 DEF Counted, Timed
  <2> QED BY <1>7, <2>1, <2>3, <2>4, <2>5 DEF Behind
<1> QED BY <1>3, <1>10, <1>11, <1>12, <1>13 DEF SInv

\* Every step of the loop and of its surroundings keeps what is true of the
\* samples, and is a step of the store or leaves it alone.
LEMMA SamplingStep ==
    ASSUME SInv, [SamplingNext]_samplingVars
    PROVE  SInv' /\ [Next]_vars
<1> USE DEF storeVars, vars
<1>1. CASE LoopStep
  <2>1. CASE Top \/ PopDirectory \/ WalkEnds \/ (\E n \in Nodes : VisitEntry(n))
    BY <2>1, WalkKeeps
  <2>2. CASE \E t \in Times : Begin(t)
    <3>1. UNCHANGED storeVars
      BY <2>2 DEF Begin, Reads
    <3> QED BY <2>2, <3>1, BeginKeeps
  <2>3. CASE ReadCpu \/ ReadCurrent \/ ReadStat
    <3>1. UNCHANGED storeVars
      BY <2>3 DEF ReadCpu, ReadCurrent, ReadStat, Reads
    <3> QED BY <2>3, <3>1, ReadCpuKeeps, ReadCurrentKeeps, ReadStatKeeps
  <2>4. CASE ReadFails \/ CheckExists
    <3>1. UNCHANGED storeVars
      BY <2>4 DEF ReadFails, CheckExists, Reads
    <3> QED BY <2>4, <3>1, FailureKeeps
  <2>5. CASE FillRest
    <3>1. UNCHANGED storeVars
      BY <2>5 DEF FillRest, Reads
    <3> QED BY <2>5, <3>1, FillRestKeeps
  <2>6. CASE PushSample
    BY <2>6, PushKeeps
  <2> QED BY <1>1, <2>1, <2>2, <2>3, <2>4, <2>5, <2>6 DEF LoopStep
<1>2. CASE UNCHANGED samplingVars
  <2>1. UNCHANGED <<cgroup, work, task, data, count>> /\ UNCHANGED vars
    BY <1>2 DEF samplingVars
  <2> QED BY <2>1 DEF SInv, SamplingTypes, TaskType, Stamped, Clamped, Behind, Counter
<1> QED BY <1>1, <1>2, OutsideKeeps DEF SamplingNext

\* What is true of the samples at the start.
LEMMA SamplingStart ==
    ASSUME SamplingInit
    PROVE  SInv
<1> USE DEF SamplingInit, Init
<1>1. TaskType /\ task.pc = "top" /\ task.working_set = 0 /\ task.usage = 0
  BY DEF TaskType, Reading, Pcs
<1>2. data = <<>> /\ data \in Seq(DataType) /\ Len(data) = 0 /\ count = 0
  OBVIOUS
<1>3. cgroup \in CgroupType /\ work \in Nat
  BY DEF NewCgroup, CgroupType
<1>4. \A i \in 1..Len(data) : FALSE
  BY <1>2
<1>5. task.pc \notin Timed /\ task.pc \notin Counted
  BY <1>1 DEF Timed, Counted
<1>6. SamplingTypes
  BY <1>1, <1>2, <1>3 DEF SamplingTypes
<1>7. Stamped /\ Clamped
  BY <1>1, <1>4, <1>5 DEF Stamped, Clamped
<1>8. Behind
  BY <1>4, <1>5 DEF Behind
<1> QED BY <1>6, <1>7, <1>8 DEF SInv

\* The figures of the sample being read, and of all that are stored, are what
\* they should be at every step of Manager::sample.
THEOREM SamplingInvariant == SamplingSpec => []SInv
<1>1. SInv /\ [SamplingNext]_samplingVars => SInv'
  BY SamplingStep
<1> QED BY <1>1, SamplingStart, PTL DEF SamplingSpec

\* Sampling implements the store: whatever the container, its files and the
\* clock do, the housekeeping loop only ever pushes samples of the clock's
\* times, so what is proved of TimedStore holds of every container's store.
THEOREM SamplingImplementsStore == SamplingSpec => Spec
<1>1. SInv /\ [SamplingNext]_samplingVars => [Next]_vars
  BY SamplingStep
<1>2. SamplingInit => Init
  BY DEF SamplingInit
<1> QED BY <1>1, <1>2, SamplingInvariant, PTL DEF SamplingSpec, Spec

\* So the store of a container is in order, holds its window and answers with
\* the latest.
THEOREM SamplingStoreIsRight ==
    SamplingSpec => [](Ordered /\ HoldsTheWindow /\ ReadsAreTheLatest)
BY SamplingImplementsStore, StoreOrdered, StoreHoldsTheWindow, StoreReadsAreTheLatest, PTL

\* The working set in the store never exceeds the usage beside it, for any
\* moments at which memory.current and memory.stat are read (read_stats).
THEOREM SamplingClampsWorkingSet == SamplingSpec => []WorkingSetWithinUsage
<1>1. SInv => WorkingSetWithinUsage
  <2>1. SInv => DOMAIN data = 1..Len(data)
    BY DEF SInv, SamplingTypes
  <2> QED BY <2>1 DEF SInv, Clamped, WorkingSetWithinUsage
<1> QED BY <1>1, SamplingInvariant, PTL

\* A quotient times its divisor, and a factor, do not make more.
LEMMA Products ==
    /\ \A x, e \in Nat : e > 0 => (x \div e) * e <= x
    /\ \A a, b, s \in Nat : a <= b => a * s <= b * s
    /\ \A a, s \in Nat : a * s \in Nat
OBVIOUS

\* A rate of two samples is covered by their work, if the earlier is first in
\* the store, and by the later's counter.
LEMMA RateIsEarned ==
    ASSUME NEW t1 \in Nat, NEW t2 \in Nat, NEW a \in DataType, NEW b \in DataType,
           NEW last, NEW cur,
           last.t = t1, cur.t = t2, last.total = a.total, cur.total = b.total,
           NEW r \in InstCpu(last, cur)
    PROVE  /\ t2 - t1 > 0 /\ r * (t2 - t1) <= b.total * Scale
           /\ b.total - b.work <= a.total - a.work => r * (t2 - t1) <= (b.work - a.work) * Scale
<1>1. PICK x, y, v, w \in Nat : a.total = x /\ b.total = y /\ a.work = v /\ b.work = w
  BY DEF DataType
<1>2. t1 < t2 /\ x <= y /\ r = ((y - x) * Scale) \div (t2 - t1)
  BY <1>1 DEF InstCpu
<1>3. PICK e \in Nat : e = t2 - t1 /\ e > 0
  BY <1>2
<1>4. PICK d \in Nat : d = y - x /\ d <= y
  BY <1>2
<1>5. Scale \in Nat
  BY ScaleAssumption
<1>6. r = (d * Scale) \div e
  BY <1>2, <1>3, <1>4
<1>7. r * e <= d * Scale
  BY <1>3, <1>5, <1>6, Products
<1>8. d * Scale <= y * Scale
  BY <1>4, <1>5, Products
<1>9. r \in Int /\ r * e \in Int /\ d * Scale \in Int /\ y * Scale \in Int
  BY <1>3, <1>5, <1>6
<1>10. r * e <= y * Scale
  BY <1>7, <1>8, <1>9
<1>11. ASSUME y - w <= x - v PROVE r * e <= (w - v) * Scale
  <2>1. PICK f \in Nat : f = w - v /\ d <= f
    BY <1>4, <1>11
  <2>2. d * Scale <= f * Scale /\ f * Scale \in Int
    BY <1>5, <2>1, Products
  <2> QED BY <1>7, <1>9, <2>1, <2>2
<1> QED BY <1>1, <1>3, <1>10, <1>11

\* The rate of two samples in a row is of work that was done between them, and
\* never more than the later counter shows, whatever became of the cgroup and
\* the clock (inst_cpu).
THEOREM SamplingRatesAreEarned == SamplingSpec => []RatesAreEarned
<1>1. SInv /\ IInv => RatesAreEarned
  <2> SUFFICES ASSUME SInv, IInv, NEW i \in 1..(Len(buf) - 1),
                      NEW r \in InstCpu(Stored(i), Stored(i + 1))
               PROVE  /\ buf[i + 1].t - buf[i].t > 0
                      /\ r * (buf[i + 1].t - buf[i].t) <= data[buf[i + 1].id].total * Scale
                      /\ buf[i].id < buf[i + 1].id =>
                             r * (buf[i + 1].t - buf[i].t) <=
                                 (data[buf[i + 1].id].work - data[buf[i].id].work) * Scale
    BY DEF RatesAreEarned
  <2>1. ASSUME NEW k \in 1..Len(buf)
        PROVE  buf[k].t \in Nat /\ buf[k].id \in 1..Len(data)
    <3>1. buf[k] \in Sample
      BY DEF IInv, TypeOK
    <3>2. buf[k] \in pushed
      BY DEF IInv, HoldsTheWindow
    <3>3. buf[k].id <= count /\ Len(data) = count /\ count \in Nat
      BY <3>2 DEF IInv, SInv, SamplingTypes
    <3>4. buf[k].id \in 1..MaxPushes
      BY <3>1 DEF Sample
    <3> QED BY <3>1, <3>3, <3>4, PushesAssumption, SampleType
  <2>2. i \in 1..Len(buf) /\ i + 1 \in 1..Len(buf)
    BY DEF IInv, TypeOK
  <2>3. PICK t1, t2 \in Nat : buf[i].t = t1 /\ buf[i + 1].t = t2
    BY <2>1, <2>2
  <2>4. PICK m, n \in 1..Len(data) : buf[i].id = m /\ buf[i + 1].id = n
    BY <2>1, <2>2
  <2>5. data[m] \in DataType /\ data[n] \in DataType
    BY DEF SInv, SamplingTypes
  <2>6. /\ Stored(i).t = t1 /\ Stored(i).total = data[m].total
        /\ Stored(i + 1).t = t2 /\ Stored(i + 1).total = data[n].total
    BY <2>3, <2>4 DEF Stored
  <2>7. m < n => data[n].total - data[n].work <= data[m].total - data[m].work
    BY DEF SInv, Behind, SamplingTypes
  <2>8. /\ t2 - t1 > 0 /\ r * (t2 - t1) <= data[n].total * Scale
        /\ data[n].total - data[n].work <= data[m].total - data[m].work =>
               r * (t2 - t1) <= (data[n].work - data[m].work) * Scale
    BY <2>5, <2>6, RateIsEarned
  <2> QED BY <2>3, <2>4, <2>7, <2>8
<1> QED BY <1>1, SamplingInvariant, SamplingImplementsStore, StoreInvariant, PTL
-----------------------------------------------------------------------------
(* The summary of a container's samples.                                   *)

\* The indices of the values below x, and of those up to x.
Below(values, x) == {i \in DOMAIN values : values[i] < x}
UpTo(values, x) == {i \in DOMAIN values : values[i] <= x}

\* Numbers that can be counted and have a bound.
Figures(values, b) ==
    /\ IsFiniteSet(DOMAIN values)
    /\ b \in Nat /\ \A i \in DOMAIN values : values[i] \in Nat /\ values[i] <= b

\* How many there are is a number.
LEMMA HowMany ==
    ASSUME NEW values, NEW b, Figures(values, b), NEW x
    PROVE  /\ IsFiniteSet(Below(values, x)) /\ IsFiniteSet(UpTo(values, x))
           /\ Cardinality(Below(values, x)) \in Nat /\ Cardinality(UpTo(values, x)) \in Nat
           /\ Cardinality(DOMAIN values) \in Nat
<1>1. IsFiniteSet(DOMAIN values)
  BY DEF Figures
<1>2. Below(values, x) \in SUBSET DOMAIN values /\ UpTo(values, x) \in SUBSET DOMAIN values
  BY DEF Below, UpTo
<1>3. IsFiniteSet(Below(values, x)) /\ IsFiniteSet(UpTo(values, x))
  BY <1>1, <1>2, FS_Subset
<1> QED BY <1>1, <1>3, FS_CardinalityType

\* x has position k among the values.
HasRank(values, k, x) ==
    /\ x \in Range(values)
    /\ Cardinality(Below(values, x)) < k /\ k <= Cardinality(UpTo(values, x))

\* There is something at every position.
LEMMA RankIsTaken ==
    ASSUME NEW values, NEW b, Figures(values, b), NEW k \in 1..Cardinality(DOMAIN values)
    PROVE  HasRank(values, k, Ranked(values, k))
<1> DEFINE S == {x \in Nat : k <= Cardinality(UpTo(values, x))}
<1>0. /\ b \in Nat /\ \A i \in DOMAIN values : values[i] \in Nat /\ values[i] <= b
  BY DEF Figures
<1>1. k \in Nat /\ k > 0 /\ k <= Cardinality(DOMAIN values)
  BY HowMany
<1>2. b \in S
  <2>1. UpTo(values, b) = DOMAIN values
    BY <1>0 DEF UpTo
  <2> QED BY <1>0, <1>1, <2>1
<1>3. PICK x \in S : \A y \in S : x <= y
  <2>1. S \in SUBSET Nat /\ S # {}
    BY <1>2
  <2> HIDE DEF S
  <2> QED BY <2>1, LeastNat
<1>4. x \in Nat /\ k <= Cardinality(UpTo(values, x))
  BY <1>3
<1>5. Cardinality(Below(values, x)) < k
  <2>1. CASE x = 0
    <3>1. Below(values, x) = {}
      BY <1>0, <2>1 DEF Below
    <3> QED BY <1>1, <3>1, FS_EmptySet
  <2>2. CASE x # 0
    <3>1. x - 1 \in Nat /\ ~(x <= x - 1)
      BY <1>4, <2>2
    <3>2. Below(values, x) = UpTo(values, x - 1)
      BY <1>0, <1>4, <3>1 DEF Below, UpTo
    <3>3. ~(k <= Cardinality(UpTo(values, x - 1)))
      BY <1>3, <3>1
    <3>4. Cardinality(UpTo(values, x - 1)) \in Nat
      BY HowMany
    <3> QED BY <1>1, <3>2, <3>3, <3>4
  <2> QED BY <2>1, <2>2
<1>6. x \in Range(values)
  <2>1. Below(values, x) # UpTo(values, x)
    <3>1. Cardinality(Below(values, x)) \in Nat /\ Cardinality(UpTo(values, x)) \in Nat
      BY HowMany
    <3> QED BY <1>1, <1>4, <1>5, <3>1
  <2>2. PICK i \in DOMAIN values : values[i] <= x /\ ~(values[i] < x)
    BY <1>0, <1>4, <2>1 DEF Below, UpTo
  <2>3. values[i] = x
    BY <1>0, <1>4, <2>2
  <2> QED BY <2>3 DEF Range
<1>7. HasRank(values, k, x)
  BY <1>4, <1>5, <1>6 DEF HasRank
<1>8. Ranked(values, k) = CHOOSE y \in Range(values) :
          Cardinality(Below(values, y)) < k /\ k <= Cardinality(UpTo(values, y))
  BY Zenon DEF Ranked, Below, UpTo
<1> HIDE DEF S
<1> QED BY <1>7, <1>8, Zenon DEF HasRank

\* What has a position is a number.
LEMMA RankedIsNumber ==
    ASSUME NEW values, NEW b, Figures(values, b), NEW k, NEW x, HasRank(values, k, x)
    PROVE  x \in Nat
BY DEF Figures, HasRank, Range

\* Later positions have larger numbers.
LEMMA RanksAreSorted ==
    ASSUME NEW values, NEW b, Figures(values, b), NEW j \in Nat, NEW k \in Nat, j <= k,
           NEW x, NEW y, HasRank(values, j, x), HasRank(values, k, y)
    PROVE  x <= y
<1>1. x \in Nat /\ y \in Nat
  BY RankedIsNumber
<1> SUFFICES ASSUME y < x PROVE FALSE
  BY <1>1
<1>2. UpTo(values, y) \in SUBSET Below(values, x)
  BY <1>1 DEF Figures, Below, UpTo
<1>3. /\ IsFiniteSet(Below(values, x))
      /\ Cardinality(Below(values, x)) \in Nat /\ Cardinality(UpTo(values, y)) \in Nat
  BY HowMany
<1>4. Cardinality(UpTo(values, y)) <= Cardinality(Below(values, x))
  BY <1>2, <1>3, FS_Subset
<1>5. k <= Cardinality(UpTo(values, y)) /\ Cardinality(Below(values, x)) < j
  BY DEF HasRank
<1> QED BY <1>3, <1>4, <1>5

\* The first position has the least number, the last the largest.
LEMMA EndsAreExtreme ==
    ASSUME NEW values, NEW b, Figures(values, b), NEW x, NEW y, NEW i \in DOMAIN values
    PROVE  /\ HasRank(values, 1, x) => x <= values[i]
           /\ HasRank(values, Cardinality(DOMAIN values), y) => values[i] <= y
<1>1. ASSUME HasRank(values, 1, x) PROVE x <= values[i]
  <2>1. Cardinality(Below(values, x)) < 1 /\ Cardinality(Below(values, x)) \in Nat
    BY <1>1, HowMany DEF HasRank
  <2>2. Below(values, x) = {}
    <3>1. Cardinality(Below(values, x)) = 0
      BY <2>1
    <3> QED BY <3>1, HowMany, FS_EmptySet
  <2>3. x \in Nat
    BY <1>1, RankedIsNumber
  <2> QED BY <2>2, <2>3 DEF Below, Figures
<1>2. ASSUME HasRank(values, Cardinality(DOMAIN values), y) PROVE values[i] <= y
  <2>1. UpTo(values, y) \in SUBSET DOMAIN values
    BY DEF UpTo
  <2>2. Cardinality(DOMAIN values) <= Cardinality(UpTo(values, y))
    BY <1>2 DEF HasRank
  <2>3. IsFiniteSet(DOMAIN values)
    BY DEF Figures
  <2>4. Cardinality(DOMAIN values) \in Nat /\ Cardinality(UpTo(values, y)) \in Nat
    BY HowMany
  <2>5. Cardinality(UpTo(values, y)) <= Cardinality(DOMAIN values)
    BY <2>1, <2>3, FS_Subset
  <2>6. UpTo(values, y) = DOMAIN values
    <3>1. Cardinality(DOMAIN values) = Cardinality(UpTo(values, y))
      BY <2>2, <2>4, <2>5
    <3> QED BY <2>1, <2>3, <3>1, FS_Subset
  <2> QED BY <2>6 DEF UpTo
<1> QED BY <1>1, <1>2
\* A sequence of numbers has a bound.
LEMMA SeqIsFigures ==
    ASSUME NEW values \in Seq(Nat)
    PROVE  \E b : Figures(values, b)
<1>0. PICK n \in Nat : n = Len(values) /\ DOMAIN values = 1..n
  BY LenProperties
<1>1. \A i \in 1..n : values[i] \in Nat
  BY <1>0, ElementOfSeq
<1> DEFINE T == {k \in Nat : k <= n => \E b \in Nat : \A i \in 1..k : values[i] <= b}
<1>2. 0 \in T
  <2>1. \A i \in 1..0 : values[i] <= 0
    OBVIOUS
  <2> QED BY <2>1
<1>3. ASSUME NEW k \in T PROVE k + 1 \in T
  <2> SUFFICES ASSUME k + 1 <= n PROVE \E b \in Nat : \A i \in 1..(k + 1) : values[i] <= b
    OBVIOUS
  <2>1. PICK b \in Nat : \A i \in 1..k : values[i] <= b
    OBVIOUS
  <2>2. PICK v \in Nat : v = values[k + 1]
    BY <1>1
  <2>3. \A i \in 1..(k + 1) : values[i] <= b + v
    <3> SUFFICES ASSUME NEW i \in 1..(k + 1) PROVE values[i] <= b + v
      OBVIOUS
    <3>1. CASE i = k + 1
      BY <2>2, <3>1
    <3>2. CASE i # k + 1
      <4>1. i \in 1..k /\ i \in 1..n
        BY <3>2
      <4> QED BY <1>1, <2>1, <4>1
    <3> QED BY <3>1, <3>2
  <2> DEFINE c == b + v
  <2>4. c \in Nat /\ \A i \in 1..(k + 1) : values[i] <= c
    BY <2>3
  <2> HIDE DEF c
  <2> QED BY <2>4
<1>4. T = Nat
  <2> HIDE DEF T
  <2>1. T \in SUBSET Nat
    BY DEF T
  <2> QED BY <1>2, <1>3, <2>1, Induction
<1>5. PICK b \in Nat : \A i \in 1..n : values[i] <= b
  <2>1. n \in T
    BY <1>4
  <2> QED BY <2>1
<1>6. IsFiniteSet(1..n)
  BY FS_Interval
<1>7. Figures(values, b)
  BY <1>0, <1>1, <1>5, <1>6 DEF Figures
<1> QED BY <1>7

\* The function whose values are the totals of the first i values.
Sums(values, n, f) == f = [i \in 0..n |-> IF i = 0 THEN 0 ELSE f[i - 1] + values[i]]

\* There is one.
LEMMA SumsExist ==
    ASSUME NEW values, NEW n \in Nat
    PROVE  \E f : Sums(values, n, f)
<1> DEFINE T == {k \in Nat : \E f : Sums(values, k, f)}
<1>1. 0 \in T
  <2> DEFINE f == [i \in 0..0 |-> 0]
  <2>1. f = [i \in 0..0 |-> IF i = 0 THEN 0 ELSE f[i - 1] + values[i]]
    OBVIOUS
  <2>2. Sums(values, 0, f)
    BY <2>1, Zenon DEF Sums
  <2> QED BY <2>2
<1>2. ASSUME NEW k \in T PROVE k + 1 \in T
  <2>1. PICK f : Sums(values, k, f)
    OBVIOUS
  <2> DEFINE E(i) == IF i <= k THEN f[i] ELSE f[i - 1] + values[i]
             g == [i \in 0..(k + 1) |-> E(i)]
  <2>2. \A i \in 0..(k + 1) : E(i) = IF i = 0 THEN 0 ELSE g[i - 1] + values[i]
    <3> SUFFICES ASSUME NEW i \in 0..(k + 1)
                 PROVE  E(i) = IF i = 0 THEN 0 ELSE g[i - 1] + values[i]
      OBVIOUS
    <3>1. ASSUME i <= k PROVE f[i] = IF i = 0 THEN 0 ELSE f[i - 1] + values[i]
      <4>1. i \in 0..k
        BY <3>1
      <4> QED BY <2>1, <4>1 DEF Sums
    <3>2. i # 0 => g[i - 1] = f[i - 1]
      OBVIOUS
    <3>3. i = 0 => i <= k
      OBVIOUS
    <3> HIDE DEF g
    <3> QED BY <3>1, <3>2, <3>3
  <2>3. g = [i \in 0..(k + 1) |-> IF i = 0 THEN 0 ELSE g[i - 1] + values[i]]
    <3> HIDE DEF E
    <3> QED BY <2>2, Zenon
  <2>4. Sums(values, k + 1, g)
    BY <2>3, Zenon DEF Sums
  <2> QED BY <2>4
<1>3. T = Nat
  <2> HIDE DEF T
  <2>1. T \in SUBSET Nat
    BY DEF T
  <2> QED BY <1>1, <1>2, <2>1, Induction
<1> QED BY <1>3

\* Total is the last value of that function.
LEMMA TotalIsTheLastSum ==
    ASSUME NEW values, Len(values) \in Nat
    PROVE  \E f : Sums(values, Len(values), f) /\ Total(values) = f[Len(values)]
<1> DEFINE f == CHOOSE f : f = [i \in 0..Len(values) |-> IF i = 0 THEN 0 ELSE f[i - 1] + values[i]]
<1>1. PICK g : g = [i \in 0..Len(values) |-> IF i = 0 THEN 0 ELSE g[i - 1] + values[i]]
  BY SumsExist DEF Sums
<1>2. f = [i \in 0..Len(values) |-> IF i = 0 THEN 0 ELSE f[i - 1] + values[i]]
  BY <1>1, Zenon
<1>3. Total(values) = f[Len(values)]
  BY Zenon DEF Total
<1> QED BY <1>2, <1>3, Zenon DEF Sums

\* One factor more.
LEMMA OneMore == \A a, n \in Nat : a * 0 = 0 /\ a * (n + 1) = a * n + a /\ a * n \in Nat
OBVIOUS

\* Sums are in the order of what they are of.
LEMMA SumsGrow == \A a, b, c, d \in Nat : a <= b /\ c <= d => a + c <= b + d
OBVIOUS

\* A total is between that many times the least and the largest value.
LEMMA TotalIsBetween ==
    ASSUME NEW values \in Seq(Nat), NEW lo \in Nat, NEW hi \in Nat,
           \A i \in DOMAIN values : lo <= values[i] /\ values[i] <= hi
    PROVE  /\ Total(values) \in Nat
           /\ lo * Len(values) <= Total(values) /\ Total(values) <= hi * Len(values)
<1>0. PICK n \in Nat : n = Len(values) /\ DOMAIN values = 1..n
  BY LenProperties
<1>1. PICK f : Sums(values, n, f) /\ Total(values) = f[n]
  BY <1>0, TotalIsTheLastSum
<1> DEFINE T == {k \in Nat : k <= n => f[k] \in Nat /\ lo * k <= f[k] /\ f[k] <= hi * k}
<1>2. 0 \in T
  <2>1. 0 \in 0..n
    OBVIOUS
  <2>2. f[0] = 0
    BY <1>1, <2>1 DEF Sums
  <2>3. lo * 0 = 0 /\ hi * 0 = 0
    BY OneMore
  <2> QED BY <2>2, <2>3
<1>3. ASSUME NEW k \in T PROVE k + 1 \in T
  <2> SUFFICES ASSUME k + 1 <= n
               PROVE  f[k + 1] \in Nat /\ lo * (k + 1) <= f[k + 1] /\ f[k + 1] <= hi * (k + 1)
    OBVIOUS
  <2>1. k + 1 \in 0..n /\ k + 1 \in 1..n /\ k + 1 # 0 /\ (k + 1) - 1 = k /\ k <= n /\ k \in Nat
    OBVIOUS
  <2>2. f[k + 1] = f[k] + values[k + 1]
    BY <1>1, <2>1 DEF Sums
  <2>3. PICK v \in Nat : v = values[k + 1] /\ lo <= v /\ v <= hi
    BY <1>0, <2>1, ElementOfSeq
  <2>4. PICK s \in Nat : s = f[k] /\ lo * k <= s /\ s <= hi * k
    BY <2>1
  <2>5. PICK x, y \in Nat : x = lo * k /\ y = hi * k
    BY <2>1, OneMore
  <2>6. lo * (k + 1) = x + lo /\ hi * (k + 1) = y + hi
    BY <2>1, <2>5, OneMore
  <2>7. x <= s /\ s <= y
    BY <2>4, <2>5
  <2>8. x + lo <= s + v /\ s + v <= y + hi
    BY <2>3, <2>7, SumsGrow, Zenon
  <2>9. f[k + 1] = s + v
    BY <2>2, <2>3, <2>4
  <2> QED BY <2>6, <2>8, <2>9
<1>4. T = Nat
  <2> HIDE DEF T
  <2>1. T \in SUBSET Nat
    BY DEF T
  <2> QED BY <1>2, <1>3, <2>1, Induction
<1>5. n \in T
  BY <1>4
<1> QED BY <1>0, <1>1, <1>5

\* What n times something bounds, it bounds divided by n.
LEMMA Quotients ==
    /\ \A a, n, t \in Nat : n > 0 /\ a * n <= t => a <= t \div n
    /\ \A a, n, t \in Nat : n > 0 /\ t <= a * n => t \div n <= a
    /\ \A n, t \in Nat : n > 0 => t \div n \in Nat
OBVIOUS

\* What is right of a summary of some values.
Orderly(p, values) ==
    /\ p.fifty <= p.ninety /\ p.ninety <= p.ninety_five /\ p.ninety_five <= p.max
    /\ {p.fifty, p.ninety, p.ninety_five, p.max} \subseteq values
    /\ \A v \in values : v <= p.max
    /\ p.mean <= p.max /\ \E v \in values : v <= p.mean

\* The positions of the percentiles are in order and within the values.
LEMMA Positions ==
    ASSUME NEW n \in Nat \ {0}
    PROVE  LET at(p) == ((n - 1) * p) \div 100 + 1
           IN  /\ at(50) \in 1..n /\ at(90) \in 1..n /\ at(95) \in 1..n
               /\ at(50) <= at(90) /\ at(90) <= at(95) /\ at(95) <= n
OBVIOUS

\* Percentiles are in order, within the values and around their mean.
LEMMA PercentilesAreOrderly ==
    ASSUME NEW values \in Seq(Nat), NEW p \in Percentiles(values)
    PROVE  Orderly(p, Range(values))
<1>0. PICK n \in Nat : n = Len(values) /\ DOMAIN values = 1..n
  BY LenProperties
<1>1. n # 0
  BY <1>0 DEF Percentiles
<1>2. PICK b : Figures(values, b)
  BY SeqIsFigures
<1>3. Cardinality(DOMAIN values) = n
  <2>1. 1 \in Int /\ n \in Int /\ ~(1 > n)
    BY <1>1
  <2>2. Cardinality(1..n) = n
    BY <2>1, FS_Interval
  <2> QED BY <1>0, <2>2
<1>4. PICK i, j, k \in 1..n :
          /\ i = ((n - 1) * 50) \div 100 + 1 /\ j = ((n - 1) * 90) \div 100 + 1
          /\ k = ((n - 1) * 95) \div 100 + 1
          /\ i <= j /\ j <= k /\ k <= n
  BY <1>1, Positions
<1>5. /\ p.mean = Total(values) \div n /\ p.max = Ranked(values, n)
      /\ p.fifty = Ranked(values, i) /\ p.ninety = Ranked(values, j)
      /\ p.ninety_five = Ranked(values, k)
  BY <1>0, <1>1, <1>4 DEF Percentiles
<1>6. /\ HasRank(values, i, p.fifty) /\ HasRank(values, j, p.ninety)
      /\ HasRank(values, k, p.ninety_five) /\ HasRank(values, n, p.max)
      /\ HasRank(values, 1, Ranked(values, 1))
  <2>1. 1 \in 1..n /\ n \in 1..n
    BY <1>1
  <2>2. \A l \in 1..n : HasRank(values, l, Ranked(values, l))
    BY <1>2, <1>3, RankIsTaken
  <2> QED BY <1>4, <1>5, <2>1, <2>2
<1>7. PICK lo, hi \in Nat : lo = Ranked(values, 1) /\ hi = p.max
  BY <1>2, <1>6, RankedIsNumber
<1>8. p.fifty <= p.ninety /\ p.ninety <= p.ninety_five /\ p.ninety_five <= p.max
  BY <1>2, <1>4, <1>6, RanksAreSorted
<1>9. {p.fifty, p.ninety, p.ninety_five, p.max} \subseteq Range(values) /\ lo \in Range(values)
  BY <1>6, <1>7 DEF HasRank
<1>10. \A l \in DOMAIN values : lo <= values[l] /\ values[l] <= hi
  BY <1>2, <1>3, <1>6, <1>7, EndsAreExtreme
<1>11. \A v \in Range(values) : v <= p.max
  BY <1>7, <1>10 DEF Range
<1>12. PICK t \in Nat : t = Total(values) /\ lo * n <= t /\ t <= hi * n
  BY <1>0, <1>10, TotalIsBetween
<1>13. lo <= p.mean /\ p.mean <= hi
  <2>1. n > 0 /\ p.mean = t \div n
    BY <1>1, <1>5, <1>12
  <2>2. lo <= t \div n
    BY <1>12, <2>1, Quotients, Zenon
  <2>3. t \div n <= hi
    BY <1>12, <2>1, Quotients, Zenon
  <2> QED BY <2>1, <2>2, <2>3
<1> QED BY <1>7, <1>8, <1>9, <1>11, <1>13 DEF Orderly

\* What a rate is computed from.
Numbered(x) == x.t \in Nat /\ x.total \in Nat

\* A rate of numbers is one.
LEMMA RateIsNumber ==
    ASSUME NEW last, NEW cur, Numbered(last), Numbered(cur)
    PROVE  InstCpu(last, cur) \in SUBSET Nat
<1>1. PICK s, t, x, y \in Nat : last.t = s /\ cur.t = t /\ last.total = x /\ cur.total = y
  BY DEF Numbered
<1>2. CASE t <= s \/ y < x
  BY <1>1, <1>2 DEF InstCpu
<1>3. CASE s < t /\ x <= y
  <2>1. PICK d, e \in Nat : d = (y - x) * Scale /\ e = t - s /\ e > 0
    <3>1. y - x \in Nat /\ t - s \in Nat /\ t - s > 0
      BY <1>3
    <3>2. (y - x) * Scale \in Nat
      BY <3>1, Products, ScaleAssumption
    <3> QED BY <3>1, <3>2
  <2>2. InstCpu(last, cur) = {d \div e}
    BY <1>1, <1>3, <2>1 DEF InstCpu
  <2> QED BY <2>1, <2>2, Quotients
<1> QED BY <1>1, <1>2, <1>3

\* The rates of a sequence of samples are numbers.
LEMMA RatesAreNumbers ==
    ASSUME NEW samples, NEW n \in Nat, n = Len(samples), \A i \in 1..n : Numbered(samples[i])
    PROVE  CpuRates(samples) \in Seq(Nat)
<1> DEFINE rate(i) == InstCpu(samples[i], samples[i + 1])
           some == {i \in 1..(Len(samples) - 1) : rate(i) # {}}
           index == [i \in some |-> i]
           m == Cardinality(some)
           E(k) == CHOOSE r \in rate(Ranked(index, k)) : TRUE
<1>1. Figures(index, n) /\ DOMAIN index = some
  <2>1. some \in SUBSET (1..n)
    OBVIOUS
  <2>2. IsFiniteSet(some)
    <3>1. IsFiniteSet(1..n)
      BY FS_Interval
    <3> HIDE DEF some
    <3> QED BY <2>1, <3>1, FS_Subset
  <2>3. \A i \in some : i \in Nat /\ i <= n
    OBVIOUS
  <2> HIDE DEF some
  <2> QED BY <2>2, <2>3 DEF Figures
<1>2. m \in Nat
  BY <1>1, HowMany
<1>3. ASSUME NEW k \in 1..m PROVE E(k) \in Nat
  <2> HIDE DEF index
  <2>1. HasRank(index, k, Ranked(index, k))
    BY <1>1, RankIsTaken
  <2>2. PICK i \in some : i = Ranked(index, k)
    BY <1>1, <2>1 DEF HasRank, Range, index
  <2>3. rate(i) # {} /\ i \in 1..n /\ i + 1 \in 1..n
    OBVIOUS
  <2>4. rate(i) \in SUBSET Nat
    BY <2>3, RateIsNumber
  <2> HIDE DEF rate
  <2> QED BY <2>2, <2>3, <2>4
<1>4. CpuRates(samples) = [k \in 1..m |-> E(k)]
  BY Zenon DEF CpuRates
<1> HIDE DEF E, m
<1>5. [k \in 1..m |-> E(k)] \in [1..m -> Nat]
  BY <1>3
<1> QED BY <1>2, <1>4, <1>5, SeqDef

\* The summary of the samples in a store is in order, and of that store.
LEMMA SummaryFits == SInv /\ IInv => SummaryIsOrdered
<1> SUFFICES ASSUME SInv, IInv PROVE SummaryIsOrdered
  OBVIOUS
<1>0. PICK n \in Nat : n = Len(buf) /\ DOMAIN buf = 1..n
  BY LenProperties DEF IInv, TypeOK
<1>1. ASSUME NEW k \in 1..n
      PROVE  Numbered(Stored(k)) /\ Stored(k).working_set \in Nat
  <2>1. buf[k] \in Sample /\ buf[k] \in pushed
    BY <1>0 DEF IInv, TypeOK, HoldsTheWindow
  <2>2. buf[k].id <= count /\ Len(data) = count /\ count \in Nat
    BY <2>1 DEF IInv, SInv, SamplingTypes
  <2>3. buf[k].id \in 1..MaxPushes
    BY <2>1 DEF Sample
  <2>4. buf[k].t \in Nat /\ buf[k].id \in 1..Len(data)
    BY <2>1, <2>2, <2>3, PushesAssumption, SampleType
  <2>5. data[buf[k].id] \in DataType
    BY <2>4 DEF SInv, SamplingTypes
  <2> QED BY <2>4, <2>5 DEF Stored, Numbered, DataType
<1> DEFINE mem == [i \in 1..n |-> Stored(i).working_set]
           d == DerivedStats(Samples)
<1>2. /\ Samples = [i \in 1..n |-> Stored(i)] /\ Len(Samples) = n
      /\ \A i \in 1..n : Samples[i] = Stored(i)
  BY <1>0 DEF Samples
<1>3. mem \in Seq(Nat) /\ DOMAIN mem = 1..n /\ Len(mem) = n
  <2>1. mem \in [1..n -> Nat]
    BY <1>1
  <2> HIDE DEF mem
  <2> QED BY <2>1, SeqDef, LenProperties
<1>4. CpuRates(Samples) \in Seq(Nat)
  BY <1>1, <1>2, RatesAreNumbers
<1>5. [i \in DOMAIN Samples |-> Samples[i].working_set] = mem
  BY <1>2
<1>6. d.memory = Percentiles(mem) /\ d.cpu = Percentiles(CpuRates(Samples))
  BY <1>5 DEF DerivedStats
<1>7. Range(mem) = {Stored(i).working_set : i \in DOMAIN buf}
  BY <1>0 DEF Range
<1>8. /\ \A p \in d.memory : Orderly(p, {Stored(i).working_set : i \in DOMAIN buf})
      /\ \A p \in d.cpu : Orderly(p, Range(CpuRates(Samples)))
  <2> HIDE DEF d, mem
  <2> QED BY <1>3, <1>4, <1>6, <1>7, PercentilesAreOrderly
<1>9. buf # <<>> => d.latest.memory = Stored(Len(buf)).working_set
  <2> SUFFICES ASSUME n # 0 PROVE d.latest.memory = Stored(n).working_set
    BY <1>0, EmptySeq DEF IInv, TypeOK
  <2>1. Samples # <<>>
    BY <1>2
  <2>2. d.latest.memory = Last(mem)
    BY <1>5, <2>1 DEF DerivedStats
  <2>3. Last(mem) = mem[n]
    BY <1>3 DEF Last
  <2> QED BY <2>2, <2>3
<1> HIDE DEF d
<1> QED BY <1>8, <1>9, Zenon DEF SummaryIsOrdered, Orderly, d

\* The figures of a sample and what is derived from samples fit together, for
\* every moment at which each of the files is read (read_stats, inst_cpu,
\* derived_stats).
THEOREM SamplingFiguresFit == SamplingSpec => []FiguresFit
<1>1. SInv /\ IInv /\ WorkingSetWithinUsage /\ RatesAreEarned => FiguresFit
  BY SummaryFits DEF FiguresFit
<1> QED
  BY <1>1, SamplingInvariant, SamplingImplementsStore, StoreInvariant,
     SamplingClampsWorkingSet, SamplingRatesAreEarned, PTL
-----------------------------------------------------------------------------
(* The file systems of a sample.                                           *)

\* The slash is a path.
LEMMA Slash == <<"/">> \in Seq(STRING)
<1>1. "/" \in STRING
  BY MountsAssumption
<1> QED BY <1>1

\* Paths as the model has them: characters, those of a mountpoint included.
LEMMA Directories ==
    ASSUME NEW at \in Directory
    PROVE  /\ at \in Seq(STRING) /\ Len(at) \in Nat \ {0} /\ at[1] = "/"
           /\ Len(at) > 1 => at[Len(at)] # "/"
           /\ Len(at) = 1 => at = Names!Root
<1>1. at \in Seq(STRING) /\ at # <<>> /\ at[1] = "/" /\ (Len(at) > 1 => at[Len(at)] # "/")
  BY DEF Directory
<1>2. Len(at) \in Nat \ {0}
  BY <1>1
<1>3. Len(at) = 1 => at = Names!Root
  BY <1>1 DEF Names!Root
<1> QED BY <1>1, <1>2, <1>3

\* A sequence is a prefix of another when it has its first elements.
LEMMA PrefixOf ==
    ASSUME NEW s \in Seq(STRING), NEW t \in Seq(STRING)
    PROVE  IsPrefix(s, t) <=> Len(s) <= Len(t) /\ \A i \in 1..Len(s) : s[i] = t[i]
<1>1. Len(s) \in Nat /\ Len(t) \in Nat
  OBVIOUS
<1>2. SubSeq(s, 1, Len(s)) = s
  OBVIOUS
<1>3. ASSUME Len(s) <= Len(t)
      PROVE  /\ SubSeq(t, 1, Len(s)) \in Seq(STRING)
             /\ Len(SubSeq(t, 1, Len(s))) = Len(s)
             /\ \A i \in 1..Len(s) : SubSeq(t, 1, Len(s))[i] = t[i]
  BY <1>1, <1>3
<1>4. ASSUME Len(s) <= Len(t), s = SubSeq(t, 1, Len(s)) PROVE \A i \in 1..Len(s) : s[i] = t[i]
  BY <1>3, <1>4
<1>5. ASSUME Len(s) <= Len(t), \A i \in 1..Len(s) : s[i] = t[i] PROVE s = SubSeq(t, 1, Len(s))
  <2>1. PICK u \in Seq(STRING) : u = SubSeq(t, 1, Len(s))
    BY <1>3, <1>5
  <2>2. Len(u) = Len(s) /\ \A i \in 1..Len(s) : u[i] = s[i]
    BY <1>3, <1>5, <2>1
  <2>3. u = s
    BY <2>2, SeqEqual
  <2> QED BY <2>1, <2>3
<1> QED BY <1>2, <1>4, <1>5 DEF IsPrefix

\* The mountpoints a path is under, character by character.
LEMMA UnderIs ==
    ASSUME NEW at \in Directory, NEW path \in Seq(STRING)
    PROVE  Under(at, path) <=> /\ Len(at) <= Len(path) /\ \A i \in 1..Len(at) : at[i] = path[i]
                               /\ at = path \/ at = Names!Root \/ path[Len(at) + 1] = "/"
BY Directories, PrefixOf DEF Under

\* Two mountpoints of one length that a path is under are the same.
LEMMA SameMountpoint ==
    ASSUME NEW a \in Directory, NEW b \in Directory, NEW path \in Seq(STRING),
           Under(a, path), Under(b, path), Len(a) = Len(b)
    PROVE  a = b
<1>1. a \in Seq(STRING) /\ b \in Seq(STRING) /\ \A i \in 1..Len(a) : a[i] = b[i]
  BY UnderIs, Directories
<1> QED BY <1>1, SeqEqual

\* A mountpoint is under itself, and deeper than the others it is under.
LEMMA UnderItself ==
    ASSUME NEW at \in Directory
    PROVE  Under(at, at) /\ \A b \in Directory : Under(b, at) => b = at \/ Len(b) < Len(at)
<1>1. Under(at, at)
  BY UnderIs, Directories
<1>2. ASSUME NEW b \in Directory, Under(b, at) PROVE b = at \/ Len(b) < Len(at)
  <2>1. Len(b) <= Len(at) /\ at \in Seq(STRING) /\ Len(b) \in Nat /\ Len(at) \in Nat
    BY <1>2, UnderIs, Directories
  <2>2. Len(b) = Len(at) => b = at
    BY <1>1, <1>2, <2>1, SameMountpoint
  <2> QED BY <2>1, <2>2
<1> QED BY <1>1, <1>2

\* A mountpoint has no slash to trim, but the root, of which nothing is left.
LEMMA TrimmedMountpoint ==
    ASSUME NEW at \in Directory
    PROVE  Names!TrimEnd(at) = IF at = Names!Root THEN <<>> ELSE at
<1> DEFINE Cut(i) == (i = 0 \/ at[i] # "/") /\ \A j \in (i + 1)..Len(at) : at[j] = "/"
           cut == CHOOSE i \in 0..Len(at) : Cut(i)
<1>1. Names!TrimEnd(at) = SubSeq(at, 1, cut)
  BY DEF Names!TrimEnd
<1>2. CASE at = Names!Root
  <2>1. Len(at) = 1 /\ at[1] = "/"
    BY <1>2 DEF Names!Root
  <2>2. Cut(0) /\ ~Cut(1)
    BY <2>1
  <2>3. cut = 0
    BY <2>1, <2>2
  <2>4. SubSeq(at, 1, 0) = <<>>
    BY Directories
  <2> QED BY <1>1, <1>2, <2>3, <2>4
<1>3. CASE at # Names!Root
  <2>1. Len(at) \in Nat /\ Len(at) > 1 /\ at[Len(at)] # "/" /\ at \in Seq(STRING)
    <3>1. Len(at) \in Nat \ {0} /\ Len(at) # 1 /\ at \in Seq(STRING)
      BY <1>3, Directories, Zenon
    <3>2. Len(at) > 1
      BY <3>1
    <3> QED BY <3>1, <3>2, Directories
  <2>2. Cut(Len(at)) /\ Len(at) \in 0..Len(at)
    BY <2>1
  <2>3. ASSUME NEW i \in 0..Len(at), Cut(i) PROVE i = Len(at)
    <3>1. i < Len(at) => Len(at) \in (i + 1)..Len(at)
      BY <2>1
    <3> QED BY <2>1, <2>3, <3>1
  <2>4. cut = Len(at)
    <3> HIDE DEF Cut
    <3> QED BY <2>2, <2>3
  <2>5. SubSeq(at, 1, Len(at)) = at
    BY <2>1
  <2> QED BY <1>1, <1>3, <2>4, <2>5
<1> QED BY <1>2, <1>3

\* The string test of partition_for_path tells the mountpoints above a path.
LEMMA CoversIsUnder ==
    ASSUME NEW at \in Directory, NEW path \in Seq(STRING), path # <<>>, path[1] = "/"
    PROVE  Covers(at, path) <=> Under(at, path)
<1>0. Len(at) \in Nat /\ Len(path) \in Nat \ {0} /\ at \in Seq(STRING)
  BY Directories
<1>1. CASE at = Names!Root
  <2>1. PICK r \in Seq(STRING) : r = <<"/">>
    BY Slash
  <2>2. Names!TrimEnd(at) \o <<"/">> = r
    <3>1. Names!TrimEnd(at) = <<>>
      BY <1>1, TrimmedMountpoint
    <3>2. <<>> \o r = r
      BY ConcatEmptySeq
    <3> QED BY <3>1, <3>2, <2>1
  <2>3. Len(r) = 1 /\ r[1] = "/" /\ at = r
    BY <1>1, <2>1 DEF Names!Root
  <2>4. IsPrefix(r, path)
    BY <2>3, <1>0, PrefixOf
  <2>5. Under(at, path)
    BY <1>1, <2>3, <1>0, UnderIs
  <2> QED BY <2>2, <2>4, <2>5 DEF Covers
<1>2. CASE at # Names!Root
  <2>1. PICK r \in Seq(STRING) : r = at \o <<"/">>
    BY <1>0, Slash, ConcatProperties, Zenon
  <2>2. Names!TrimEnd(at) \o <<"/">> = r
    BY <1>2, <2>1, TrimmedMountpoint
  <2>3. Len(r) = Len(at) + 1 /\ r[Len(at) + 1] = "/" /\ \A i \in 1..Len(at) : r[i] = at[i]
    BY <1>0, <2>1
  <2>4. IsPrefix(r, path) <=> /\ Len(at) + 1 <= Len(path) /\ path[Len(at) + 1] = "/"
                              /\ \A i \in 1..Len(at) : at[i] = path[i]
    <3>1. IsPrefix(r, path) <=> Len(r) <= Len(path) /\ \A i \in 1..Len(r) : r[i] = path[i]
      BY PrefixOf
    <3>2. (\A i \in 1..Len(r) : r[i] = path[i]) <=>
             (path[Len(at) + 1] = "/" /\ \A i \in 1..Len(at) : at[i] = path[i])
      BY <2>3, <1>0
    <3> QED BY <3>1, <3>2, <2>3
  <2>5. Len(at) = Len(path) /\ (\A i \in 1..Len(at) : at[i] = path[i]) => at = path
    BY <1>0, SeqEqual
  <2>6. Under(at, path) <=> /\ Len(at) <= Len(path) /\ \A i \in 1..Len(at) : at[i] = path[i]
                            /\ at = path \/ path[Len(at) + 1] = "/"
    BY <1>2, UnderIs
  <2>7. at = path => Len(at) <= Len(path) /\ \A i \in 1..Len(at) : at[i] = path[i]
    BY <1>0
  <2>8. Covers(at, path) <=> at = path \/ IsPrefix(r, path)
    BY <2>2 DEF Covers
  <2> QED BY <1>0, <2>4, <2>5, <2>6, <2>7, <2>8
<1> QED BY <1>1, <1>2

\* What a mount table is made of.
LEMMA Lines ==
    ASSUME NEW ms \in Seq(MountLines)
    PROVE  /\ Len(ms) \in Nat /\ DOMAIN ms = 1..Len(ms)
           /\ \A i \in 1..Len(ms) : ms[i] \in MountLines /\ ms[i].at \in Directory
<1>1. /\ Len(ms) \in Nat /\ DOMAIN ms = 1..Len(ms)
      /\ \A i \in 1..Len(ms) : ms[i] \in MountLines
  OBVIOUS
<1>2. \A line \in MountLines : line.at \in Directory
  BY Zenon DEF MountLines
<1> QED BY <1>1, <1>2

\* The mount a path is on is line k of the table.
IsMountOf(ms, path, k) ==
    /\ k \in DOMAIN ms /\ Under(ms[k].at, path)
    /\ \A j \in DOMAIN ms :
          Under(ms[j].at, path) => \/ Len(ms[j].at) < Len(ms[k].at)
                                   \/ Len(ms[j].at) = Len(ms[k].at) /\ j <= k

\* No other line of a table is the mount a path is on.
LEMMA MountOfIs ==
    ASSUME NEW ms \in Seq(MountLines), NEW path, NEW k, IsMountOf(ms, path, k)
    PROVE  MountOf(ms, path) = ms[k]
<1> DEFINE above == {i \in DOMAIN ms : Under(ms[i].at, path)}
           Deep(i) == \A j \in above : \/ Len(ms[j].at) < Len(ms[i].at)
                                       \/ Len(ms[j].at) = Len(ms[i].at) /\ j <= i
<1>1. k \in above /\ Deep(k)
  BY DEF IsMountOf
<1>2. ASSUME NEW i \in above, Deep(i) PROVE i = k
  <2>1. i \in 1..Len(ms) /\ k \in 1..Len(ms) /\ Len(ms) \in Nat
    BY <1>1, Lines
  <2>2. Len(ms[i].at) \in Nat /\ Len(ms[k].at) \in Nat
    BY <2>1, Lines, Directories
  <2>3. \/ Len(ms[k].at) < Len(ms[i].at)
        \/ Len(ms[k].at) = Len(ms[i].at) /\ k <= i
    BY <1>1, <1>2
  <2>4. \/ Len(ms[i].at) < Len(ms[k].at)
        \/ Len(ms[i].at) = Len(ms[k].at) /\ i <= k
    BY <1>1, <1>2
  <2> QED BY <2>1, <2>2, <2>3, <2>4
<1>3. MountOf(ms, path) = ms[CHOOSE i \in above : Deep(i)]
  BY DEF MountOf
<1> HIDE DEF above, Deep
<1>4. (CHOOSE i \in above : Deep(i)) = k
  BY <1>1, <1>2
<1> QED BY <1>3, <1>4

\* A path with a mount above it is on one.
LEMMA IsOnAMount ==
    ASSUME NEW ms \in Seq(MountLines), NEW path \in Seq(STRING),
           NEW i \in DOMAIN ms, Under(ms[i].at, path)
    PROVE  \E k \in DOMAIN ms : IsMountOf(ms, path, k)
<1> DEFINE above == {j \in DOMAIN ms : Under(ms[j].at, path)}
           depths == {Len(path) - Len(ms[j].at) : j \in above}
<1>1. ASSUME NEW j \in above
      PROVE  j \in 1..Len(ms) /\ Len(ms[j].at) \in Nat /\ Len(path) - Len(ms[j].at) \in Nat
  <2>1. j \in 1..Len(ms) /\ Under(ms[j].at, path) /\ ms[j].at \in Directory
    BY Lines
  <2>2. Len(ms[j].at) \in Nat /\ Len(ms[j].at) <= Len(path) /\ Len(path) \in Nat
    BY <2>1, UnderIs, Directories
  <2> QED BY <2>1, <2>2
<1>2. depths \in SUBSET Nat /\ depths # {}
  <2>1. i \in above
    OBVIOUS
  <2> QED BY <2>1, <1>1
<1>3. PICK d \in depths : \A e \in depths : d <= e
  BY <1>2, LeastNat, Zenon
<1>4. PICK a \in above : d = Len(path) - Len(ms[a].at)
  BY <1>3
<1> DEFINE deep == {j \in above : Len(ms[j].at) = Len(ms[a].at)}
           ends == {Len(ms) - j : j \in deep}
<1>5. ends \in SUBSET Nat /\ ends # {}
  <2>1. a \in deep
    BY <1>4
  <2>2. \A j \in deep : Len(ms) - j \in Nat
    BY <1>1, Lines
  <2> QED BY <2>1, <2>2
<1>6. PICK l \in ends : \A e \in ends : l <= e
  BY <1>5, LeastNat, Zenon
<1>7. PICK k \in deep : l = Len(ms) - k
  BY <1>6
<1>8. ASSUME NEW j \in above
      PROVE  \/ Len(ms[j].at) < Len(ms[k].at)
             \/ Len(ms[j].at) = Len(ms[k].at) /\ j <= k
  <2>1. Len(ms[k].at) = Len(ms[a].at)
    BY <1>7
  <2>2. Len(path) - Len(ms[a].at) <= Len(path) - Len(ms[j].at)
    BY <1>3, <1>4
  <2>3. Len(ms[j].at) <= Len(ms[a].at)
    BY <1>1, <1>4, <2>2
  <2>4. Len(ms[j].at) = Len(ms[a].at) => Len(ms) - k <= Len(ms) - j
    BY <1>6, <1>7
  <2>5. /\ Len(ms) \in Nat /\ j \in Nat /\ k \in Nat
        /\ Len(ms[j].at) \in Nat /\ Len(ms[k].at) \in Nat
    <3>1. k \in above
      BY <1>7
    <3>2. Len(ms) \in Nat /\ DOMAIN ms = 1..Len(ms)
      BY Lines
    <3>3. j \in 1..Len(ms) /\ k \in 1..Len(ms)
      BY <1>1, <3>1, Zenon
    <3>4. Len(ms[j].at) \in Nat /\ Len(ms[k].at) \in Nat
      BY <1>1, <3>1, Zenon
    <3>5. j \in Nat /\ k \in Nat
      BY <3>2, <3>3
    <3> QED BY <3>2, <3>4, <3>5, Zenon
  <2>6. Len(ms) - k <= Len(ms) - j => j <= k
    BY <2>5
  <2>7. Len(ms[j].at) < Len(ms[k].at) \/ Len(ms[j].at) = Len(ms[k].at)
    BY <2>1, <2>3, <2>5
  <2> QED BY <2>1, <2>4, <2>6, <2>7, Zenon
<1>9. k \in DOMAIN ms /\ Under(ms[k].at, path)
  BY <1>7
<1> QED BY <1>8, <1>9 DEF IsMountOf

\* A mountpoint is on the last mount at it.
LEMMA MountpointIsOn ==
    ASSUME NEW ms \in Seq(MountLines), NEW k \in DOMAIN ms,
           \A j \in DOMAIN ms : ms[j].at = ms[k].at => j <= k
    PROVE  MountOf(ms, ms[k].at) = ms[k]
<1>1. IsMountOf(ms, ms[k].at, k)
  BY Lines, UnderItself DEF IsMountOf
<1> QED BY <1>1, MountOfIs

\* A set of numbers that has one element has no two.
LEMMA OneOf ==
    ASSUME NEW n \in Nat, NEW S \in SUBSET (1..n), Cardinality(S) = 1
    PROVE  \E x \in S : \A y \in S : y = x
<1>1. IsFiniteSet(1..n)
  BY FS_Interval
<1>2. IsFiniteSet(S)
  BY <1>1, FS_Subset
<1>3. PICK x : S = {x}
  BY <1>2, FS_Singleton, Zenon
<1> QED BY <1>3, Zenon

\* A partition is that of the first supported line with its device.
LEMMA PartitionIs ==
    ASSUME NEW table \in Seq(MountLines), NEW p \in Partitions(table)
    PROVE  /\ p.line \in DOMAIN table /\ table[p.line].type \in SupportedFs
           /\ p = [device |-> DeviceOf(table[p.line]), at |-> table[p.line].at, line |-> p.line]
           /\ p.device = DeviceOf(table[p.line]) /\ p.at = table[p.line].at
           /\ \A k \in 1..(p.line - 1) :
                 table[k].type \in SupportedFs => DeviceOf(table[k]) # DeviceOf(table[p.line])
<1>1. PICK i \in DOMAIN table :
          /\ p = [device |-> DeviceOf(table[i]), at |-> table[i].at, line |-> i]
          /\ table[i].type \in SupportedFs
          /\ \A k \in 1..(i - 1) :
                table[k].type \in SupportedFs => DeviceOf(table[k]) # DeviceOf(table[i])
  BY DEF Partitions
<1>2. p.line = i /\ p.device = DeviceOf(table[i]) /\ p.at = table[i].at
  BY <1>1
<1> QED BY <1>1, <1>2

\* Every supported line's device has a partition.
LEMMA PartitionOf ==
    ASSUME NEW table \in Seq(MountLines), NEW i \in DOMAIN table, table[i].type \in SupportedFs
    PROVE  \E p \in Partitions(table) : p.device = DeviceOf(table[i])
<1> DEFINE S == {j \in DOMAIN table : /\ table[j].type \in SupportedFs
                                      /\ DeviceOf(table[j]) = DeviceOf(table[i])}
<1>1. S \in SUBSET Nat /\ i \in S
  BY Lines
<1>2. PICK j \in S : \A k \in S : j <= k
  BY <1>1, LeastNat
<1>3. ASSUME NEW k \in 1..(j - 1), table[k].type \in SupportedFs
      PROVE  DeviceOf(table[k]) # DeviceOf(table[j])
  <2>1. j \in 1..Len(table) /\ Len(table) \in Nat
    BY Lines
  <2>2. k \in 1..Len(table) /\ ~(j <= k)
    BY <2>1
  <2>3. k \in DOMAIN table /\ k \notin S
    BY <2>2, <1>2, Lines
  <2> QED BY <2>3, <1>3
<1>4. [device |-> DeviceOf(table[j]), at |-> table[j].at, line |-> j] \in Partitions(table)
  BY <1>3 DEF Partitions
<1> QED BY <1>4

\* No two partitions have one device.
LEMMA PartitionsDiffer ==
    ASSUME NEW table \in Seq(MountLines), NEW p \in Partitions(table), NEW q \in Partitions(table),
           p.device = q.device
    PROVE  p = q
<1>1. p.line \in 1..Len(table) /\ q.line \in 1..Len(table) /\ Len(table) \in Nat
  BY PartitionIs, Lines
<1>2. DeviceOf(table[p.line]) = DeviceOf(table[q.line])
  BY PartitionIs
<1>3. ~(q.line < p.line)
  <2>1. q.line < p.line => q.line \in 1..(p.line - 1)
    BY <1>1
  <2> QED BY <1>2, <2>1, PartitionIs
<1>4. ~(p.line < q.line)
  <2>1. p.line < q.line => p.line \in 1..(q.line - 1)
    BY <1>1
  <2> QED BY <1>2, <2>1, PartitionIs
<1>5. p.line = q.line
  BY <1>1, <1>3, <1>4
<1> QED BY <1>5, PartitionIs

\* How the mounts of now and those of the start agree where nothing changed:
\* the same lines, in the same order.
Keeps(table, ms, changed) ==
    /\ \A j \in DOMAIN ms : ms[j].at \notin changed => \E i \in DOMAIN table : table[i] = ms[j]
    /\ \A i \in DOMAIN table : table[i].at \notin changed => \E j \in DOMAIN ms : ms[j] = table[i]
    /\ \A i, k \in DOMAIN table :
          i < k /\ table[i].at \notin changed /\ table[k].at \notin changed =>
              \E a, b \in DOMAIN ms : a < b /\ ms[a] = table[i] /\ ms[b] = table[k]

\* The kernel's table has the root first.
TableType == mounts \in Seq(MountLines) /\ mounts # <<>> /\ mounts[1].at = Names!Root

\* The partitions are those of a table the program may have started with.
FromTheStart ==
    /\ kind \in Kinds
    /\ \E table \in Mountinfo[kind] :
          partitions = Partitions(table) /\ Keeps(table, mounts, remounted)

\* The rows of a sample that is read and not yet stored.
RowsAreRead == task.pc = "push" => \E gone \in SUBSET MayBeGone : task.fs = FsRows(gone)

\* What is known of the mounts: an inductive invariant, beside SInv.
MInv == TableType /\ FromTheStart /\ RowsAreRead

\* A step keeps the agreement when it moves the lines without changing their
\* order, and changes lines only where it says so.
LEMMA KeepsStep ==
    ASSUME NEW table, NEW ms, NEW new, NEW changed, NEW more, NEW f,
           Keeps(table, ms, changed),
           \A at : at \notin more => at \notin changed,
           \A j \in DOMAIN ms : ms[j].at \notin more => f[j] \in DOMAIN new /\ new[f[j]] = ms[j],
           \A a, b \in DOMAIN ms : a < b /\ ms[a].at \notin more /\ ms[b].at \notin more => f[a] < f[b],
           \A j \in DOMAIN new : new[j].at \notin more => \E i \in DOMAIN ms : ms[i] = new[j]
    PROVE  Keeps(table, new, more)
<1>1. ASSUME NEW j \in DOMAIN new, new[j].at \notin more
      PROVE  \E i \in DOMAIN table : table[i] = new[j]
  <2>1. PICK i \in DOMAIN ms : ms[i] = new[j]
    BY <1>1
  <2>2. ms[i].at \notin changed
    BY <1>1, <2>1
  <2> QED BY <2>1, <2>2 DEF Keeps
<1>2. ASSUME NEW i \in DOMAIN table, table[i].at \notin more
      PROVE  \E j \in DOMAIN new : new[j] = table[i]
  <2>1. PICK j \in DOMAIN ms : ms[j] = table[i]
    BY <1>2 DEF Keeps
  <2>2. f[j] \in DOMAIN new /\ new[f[j]] = ms[j]
    BY <1>2, <2>1
  <2> QED BY <2>1, <2>2
<1>3. ASSUME NEW i \in DOMAIN table, NEW k \in DOMAIN table,
             i < k, table[i].at \notin more, table[k].at \notin more
      PROVE  \E a, b \in DOMAIN new : a < b /\ new[a] = table[i] /\ new[b] = table[k]
  <2>1. PICK a \in DOMAIN ms, b \in DOMAIN ms : a < b /\ ms[a] = table[i] /\ ms[b] = table[k]
    BY <1>3 DEF Keeps
  <2>2. /\ f[a] \in DOMAIN new /\ new[f[a]] = ms[a]
        /\ f[b] \in DOMAIN new /\ new[f[b]] = ms[b]
    BY <1>3, <2>1
  <2>3. f[a] < f[b]
    BY <1>3, <2>1
  <2> QED BY <2>1, <2>2, <2>3
<1> QED BY <1>1, <1>2, <1>3 DEF Keeps

\* A mount made after the others changes nothing but its mountpoint.
LEMMA MountKeeps ==
    ASSUME NEW table, NEW ms \in Seq(MountLines), NEW changed, NEW line \in MountLines,
           ms # <<>>, ms[1].at = Names!Root, Keeps(table, ms, changed)
    PROVE  /\ Append(ms, line) \in Seq(MountLines) /\ Append(ms, line) # <<>>
           /\ Append(ms, line)[1].at = Names!Root
           /\ Keeps(table, Append(ms, line), changed \cup {line.at})
<1>1. PICK new \in Seq(MountLines) : new = Append(ms, line)
  BY AppendProperties
<1>2. /\ Len(ms) \in Nat \ {0} /\ Len(new) = Len(ms) + 1 /\ new[Len(ms) + 1] = line
      /\ \A i \in 1..Len(ms) : new[i] = ms[i]
  BY <1>1
<1> DEFINE f == [j \in DOMAIN ms |-> j]
<1>3. DOMAIN ms = 1..Len(ms) /\ DOMAIN new = 1..(Len(ms) + 1)
  BY <1>2
<1>4. \A j \in DOMAIN new : new[j].at \notin changed \cup {line.at} => \E i \in DOMAIN ms : ms[i] = new[j]
  <2> SUFFICES ASSUME NEW j \in DOMAIN new, new[j].at \notin changed \cup {line.at}
               PROVE  \E i \in DOMAIN ms : ms[i] = new[j]
    OBVIOUS
  <2>1. j # Len(ms) + 1
    BY <1>2
  <2>2. j \in 1..Len(ms)
    BY <1>2, <1>3, <2>1
  <2> QED BY <1>2, <1>3, <2>2
<1>5. /\ \A j \in DOMAIN ms : f[j] = j
      /\ \A j \in DOMAIN ms : f[j] \in DOMAIN new /\ new[f[j]] = ms[j]
  BY <1>2, <1>3
<1> HIDE DEF f
<1>6. \A a, b \in DOMAIN ms : a < b => f[a] < f[b]
  BY <1>5
<1>7. Keeps(table, new, changed \cup {line.at})
  BY <1>4, <1>5, <1>6, KeepsStep
<1>8. new # <<>> /\ new[1].at = Names!Root
  BY <1>2
<1> QED BY <1>1, <1>7, <1>8

\* A mount that is gone changes nothing but its mountpoint: the lines after it
\* move up by one.
LEMMA UnmountKeeps ==
    ASSUME NEW table, NEW ms \in Seq(MountLines), NEW changed, NEW i \in DOMAIN ms, i > 1,
           ms[1].at = Names!Root, Keeps(table, ms, changed)
    PROVE  /\ RemoveAt(ms, i) \in Seq(MountLines) /\ RemoveAt(ms, i) # <<>>
           /\ RemoveAt(ms, i)[1].at = Names!Root
           /\ Keeps(table, RemoveAt(ms, i), changed \cup {ms[i].at})
<1>1. i \in 1..Len(ms) /\ Len(ms) \in Nat
  OBVIOUS
<1>2. PICK x \in Seq(MountLines) : x = SubSeq(ms, 1, i - 1)
  <2>1. SubSeq(ms, 1, i - 1) \in Seq(MountLines)
    BY <1>1
  <2> QED BY <2>1
<1>3. PICK y \in Seq(MountLines) : y = SubSeq(ms, i + 1, Len(ms))
  <2>1. SubSeq(ms, i + 1, Len(ms)) \in Seq(MountLines)
    BY <1>1
  <2> QED BY <2>1
<1>4. Len(x) = i - 1 /\ \A j \in 1..(i - 1) : x[j] = ms[j]
  <2>1. i - 1 \in 0..Len(ms) /\ 1 \in 1..(Len(ms) + 1)
    BY <1>1
  <2>2. Len(SubSeq(ms, 1, i - 1)) = i - 1 /\ \A j \in 1..(i - 1) : SubSeq(ms, 1, i - 1)[j] = ms[j]
    BY <1>1, <2>1
  <2> QED BY <1>2, <2>2, Zenon
<1>5. Len(y) = Len(ms) - i /\ \A j \in 1..(Len(ms) - i) : y[j] = ms[i + j]
  <2>1. Len(SubSeq(ms, i + 1, Len(ms))) = Len(ms) - i
    BY <1>1
  <2>2. ASSUME NEW j \in 1..(Len(ms) - i) PROVE SubSeq(ms, i + 1, Len(ms))[j] = ms[i + j]
    BY <1>1, SMTT(30)
  <2> QED BY <1>3, <2>1, <2>2, Zenon
<1>6. PICK new \in Seq(MountLines) : new = x \o y
  BY ConcatProperties
<1>7. /\ Len(new) = Len(ms) - 1
      /\ \A j \in 1..(Len(ms) - 1) : new[j] = IF j < i THEN ms[j] ELSE ms[j + 1]
  <2>1. /\ Len(new) = Len(x) + Len(y)
        /\ \A j \in 1..(Len(x) + Len(y)) : new[j] = IF j <= Len(x) THEN x[j] ELSE y[j - Len(x)]
    BY <1>6, ConcatProperties
  <2>2. ASSUME NEW j \in 1..(Len(ms) - 1) PROVE new[j] = IF j < i THEN ms[j] ELSE ms[j + 1]
    <3>0. new[j] = IF j <= i - 1 THEN x[j] ELSE y[j - (i - 1)]
      <4>1. j \in 1..(Len(x) + Len(y))
        BY <1>1, <1>4, <1>5
      <4> QED BY <1>4, <2>1, <4>1
    <3>1. CASE j < i
      <4>1. j \in 1..(i - 1) /\ j <= i - 1
        BY <1>1, <3>1
      <4> QED BY <1>4, <3>0, <3>1, <4>1
    <3>2. CASE ~(j < i)
      <4>0. ~(j <= i - 1) /\ j - (i - 1) \in 1..(Len(ms) - i)
        BY <1>1, <3>2
      <4>1. new[j] = y[j - (i - 1)] /\ j - (i - 1) \in 1..(Len(ms) - i)
        BY <3>0, <4>0
      <4>2. PICK k \in 1..(Len(ms) - i) : k = j - (i - 1)
        BY <4>1
      <4>3. i + k = j + 1
        BY <1>1, <4>2
      <4>4. y[k] = ms[i + k]
        BY <1>5, <4>2
      <4> QED BY <3>2, <4>1, <4>2, <4>3, <4>4
    <3> QED BY <3>1, <3>2
  <2> QED BY <1>1, <1>4, <1>5, <2>1, <2>2
<1>8. RemoveAt(ms, i) = new
  BY <1>2, <1>3, <1>6 DEF RemoveAt
<1> DEFINE f == [j \in DOMAIN ms |-> IF j < i THEN j ELSE j - 1]
<1>9. DOMAIN ms = 1..Len(ms) /\ DOMAIN new = 1..(Len(ms) - 1)
  BY <1>1, <1>7
<1>10. \A j \in DOMAIN ms : f[j] = IF j < i THEN j ELSE j - 1
  OBVIOUS
<1> HIDE DEF f
<1>11. ASSUME NEW j \in DOMAIN ms, ms[j].at \notin changed \cup {ms[i].at}
       PROVE  f[j] \in DOMAIN new /\ new[f[j]] = ms[j] /\ j # i
  <2>1. j # i
    BY <1>11
  <2>2. CASE j < i
    BY <1>1, <1>7, <1>9, <1>10, <2>2
  <2>3. CASE j > i
    <3>1. f[j] = j - 1 /\ j - 1 \in 1..(Len(ms) - 1) /\ ~(j - 1 < i) /\ (j - 1) + 1 = j
      BY <1>1, <1>9, <1>10, <2>3
    <3> QED BY <1>7, <1>9, <2>1, <3>1
  <2> QED BY <1>1, <1>9, <2>1, <2>2, <2>3
<1>12. \A a, b \in DOMAIN ms :
          a < b /\ ms[a].at \notin changed \cup {ms[i].at} /\ ms[b].at \notin changed \cup {ms[i].at}
              => f[a] < f[b]
  <2> SUFFICES ASSUME NEW a \in DOMAIN ms, NEW b \in DOMAIN ms, a < b, a # i, b # i
               PROVE  f[a] < f[b]
    BY <1>11
  <2> QED BY <1>1, <1>9, <1>10
<1>13. \A j \in DOMAIN new : \E k \in DOMAIN ms : ms[k] = new[j]
  <2> SUFFICES ASSUME NEW j \in 1..(Len(ms) - 1) PROVE \E k \in DOMAIN ms : ms[k] = new[j]
    BY <1>9
  <2>1. j \in DOMAIN ms /\ j + 1 \in DOMAIN ms
    BY <1>1, <1>9
  <2> QED BY <1>7, <2>1
<1>14. Keeps(table, new, changed \cup {ms[i].at})
  <2>1. /\ \A j \in DOMAIN ms : ms[j].at \notin changed \cup {ms[i].at} =>
                                   f[j] \in DOMAIN new /\ new[f[j]] = ms[j]
        /\ \A at : at \notin changed \cup {ms[i].at} => at \notin changed
    BY <1>11
  <2>2. PICK more : more = changed \cup {ms[i].at}
    OBVIOUS
  <2>3. Keeps(table, new, more)
    <3>1. \A at : at \notin more => at \notin changed
      BY <2>1, <2>2
    <3>2. \A j \in DOMAIN ms : ms[j].at \notin more => f[j] \in DOMAIN new /\ new[f[j]] = ms[j]
      BY <2>1, <2>2
    <3>3. \A a, b \in DOMAIN ms : a < b /\ ms[a].at \notin more /\ ms[b].at \notin more => f[a] < f[b]
      BY <1>12, <2>2
    <3>4. \A j \in DOMAIN new : new[j].at \notin more => \E k \in DOMAIN ms : ms[k] = new[j]
      BY <1>13
    <3> QED BY <3>1, <3>2, <3>3, <3>4, KeepsStep
  <2> QED BY <2>2, <2>3
<1>15. new # <<>> /\ new[1].at = Names!Root
  BY <1>1, <1>7
<1> QED BY <1>8, <1>14, <1>15

\* A step that leaves the mounts alone and fills no rows.
LEMMA OtherKeeps ==
    ASSUME MInv, UNCHANGED <<kind, mounts, partitions, remounted>>, task' = task \/ task'.pc # "push"
    PROVE  MInv'
<1>1. TableType'
  BY DEF MInv, TableType
<1>2. FromTheStart'
  BY DEF MInv, FromTheStart
<1>3. ASSUME task' = task PROVE RowsAreRead'
  <2>1. \A gone : FsRows(gone)' = FsRows(gone)
    BY DEF FsRows, Told
  <2>2. MayBeGone' = MayBeGone
    BY DEF MayBeGone
  <2>3. RowsAreRead
    BY DEF MInv
  <2> QED BY <1>3, <2>1, <2>2, <2>3 DEF RowsAreRead
<1>4. ASSUME task'.pc # "push" PROVE RowsAreRead'
  BY <1>4 DEF RowsAreRead
<1> QED BY <1>1, <1>2, <1>3, <1>4 DEF MInv

\* fill_root_stats, and the file system of a runtime container's layer, take
\* the rows from the partitions and the mounts of the moment.
LEMMA FillRestReads ==
    ASSUME MInv, SInv, FillRest
    PROVE  MInv'
<1>1. UNCHANGED <<kind, mounts, partitions, remounted>>
  BY DEF FillRest, Reads, fsVars
<1>2. PICK gone \in SUBSET MayBeGone :
          LET used == MemTotal - cgroup.current
              done == [task EXCEPT !.pc = "push", !.fs = FsRows(gone)]
          IN  task' = IF kind = "root" /\ task.usage = 0 /\ MemTotal >= cgroup.current
                      THEN [done EXCEPT !.usage = used, !.working_set = used]
                      ELSE done
  BY DEF FillRest
<1>3. PICK fs : fs = FsRows(gone)
  OBVIOUS
<1>4. TaskType
  BY DEF SInv, SamplingTypes
<1>5. task'.fs = fs
  <2>1. CASE kind = "root" /\ task.usage = 0 /\ MemTotal >= cgroup.current
    <3>1. PICK used : used = MemTotal - cgroup.current
      OBVIOUS
    <3>2. task' = [task EXCEPT !.pc = "push", !.fs = fs, !.usage = used, !.working_set = used]
      BY <1>2, <1>3, <2>1, <3>1, Zenon
    <3> QED BY <1>4, <3>2 DEF TaskType
  <2>2. CASE ~(kind = "root" /\ task.usage = 0 /\ MemTotal >= cgroup.current)
    <3>1. task' = [task EXCEPT !.pc = "push", !.fs = fs]
      BY <1>2, <1>3, <2>2, Zenon
    <3> QED BY <1>4, <3>1 DEF TaskType
  <2> QED BY <2>1, <2>2
<1>6. FsRows(gone)' = FsRows(gone) /\ MayBeGone' = MayBeGone
  BY <1>1 DEF FsRows, Told, MayBeGone
<1>7. gone \in SUBSET MayBeGone' /\ task'.fs = FsRows(gone)'
  BY <1>3, <1>5, <1>6
<1>8. RowsAreRead'
  BY <1>7 DEF RowsAreRead
<1>9. TableType' /\ FromTheStart'
  BY <1>1 DEF MInv, TableType, FromTheStart
<1> QED BY <1>8, <1>9 DEF MInv

\* Mounts come and go while a sample has no rows yet.
LEMMA MountsKeep ==
    ASSUME MInv, (\E line \in Mountable : Mount(line)) \/ (\E i \in DOMAIN mounts : Unmount(i))
    PROVE  MInv'
<1>1. UNCHANGED <<kind, partitions, task>> /\ task.pc = "rest"
  BY DEF Mount, Unmount, MountsChange, Happens
<1>2. PICK table \in Mountinfo[kind] : partitions = Partitions(table) /\ Keeps(table, mounts, remounted)
  BY DEF MInv, FromTheStart
<1>3. mounts \in Seq(MountLines) /\ mounts # <<>> /\ mounts[1].at = Names!Root
  BY DEF MInv, TableType
<1>4. /\ mounts' \in Seq(MountLines) /\ mounts' # <<>> /\ mounts'[1].at = Names!Root
      /\ Keeps(table, mounts', remounted')
  <2>1. ASSUME NEW line \in Mountable, Mount(line)
        PROVE  /\ mounts' \in Seq(MountLines) /\ mounts' # <<>> /\ mounts'[1].at = Names!Root
               /\ Keeps(table, mounts', remounted')
    <3>1. line \in MountLines /\ mounts' = Append(mounts, line) /\ remounted' = remounted \cup {line.at}
      BY <2>1, MountsAssumption DEF Mount
    <3> QED BY <1>2, <1>3, <3>1, MountKeeps
  <2>2. ASSUME NEW i \in DOMAIN mounts, Unmount(i)
        PROVE  /\ mounts' \in Seq(MountLines) /\ mounts' # <<>> /\ mounts'[1].at = Names!Root
               /\ Keeps(table, mounts', remounted')
    <3>1. i > 1 /\ mounts' = RemoveAt(mounts, i) /\ remounted' = remounted \cup {mounts[i].at}
      BY <2>2 DEF Unmount
    <3> QED BY <1>2, <1>3, <3>1, UnmountKeeps
  <2> QED BY <2>1, <2>2
<1>5. RowsAreRead'
  BY <1>1 DEF RowsAreRead
<1>6. FromTheStart'
  BY <1>1, <1>2, <1>4 DEF MInv, FromTheStart
<1> QED BY <1>4, <1>5, <1>6 DEF MInv, TableType

\* Every step keeps what is known of the mounts.
LEMMA MountsStep ==
    ASSUME MInv, SInv, [SamplingNext]_samplingVars
    PROVE  MInv'
<1>1. CASE LoopStep /\ ~FillRest
  <2>1. UNCHANGED <<kind, mounts, partitions, remounted>>
    BY <1>1 DEF LoopStep, Top, PopDirectory, WalkEnds, VisitEntry, Begin, ReadCpu, ReadCurrent,
                ReadStat, ReadFails, CheckExists, PushSample, Reads, fsVars
  <2>2. task' = task \/ task'.pc # "push"
    <3>1. TaskType
      BY DEF SInv, SamplingTypes
    <3>2. CASE Top \/ WalkEnds
      BY <3>1, <3>2 DEF Top, WalkEnds, TaskType
    <3>3. CASE PopDirectory \/ \E n \in Nodes : VisitEntry(n)
      BY <3>3 DEF PopDirectory, VisitEntry
    <3>4. CASE (\E t \in Times : Begin(t)) \/ ReadFails \/ CheckExists \/ PushSample
      BY <3>4 DEF Begin, ReadFails, CheckExists, PushSample, Reading
    <3>5. CASE ReadCpu \/ ReadCurrent \/ ReadStat
      BY <3>1, <3>5 DEF ReadCpu, ReadCurrent, ReadStat, TaskType
    <3> QED BY <1>1, <3>2, <3>3, <3>4, <3>5 DEF LoopStep
  <2> QED BY <2>1, <2>2, OtherKeeps
<1>2. CASE FillRest
  BY <1>2, FillRestReads
<1>3. CASE (\E line \in Mountable : Mount(line)) \/ (\E i \in DOMAIN mounts : Unmount(i))
  BY <1>3, MountsKeep
<1>4. CASE \/ Work \/ Vanish \/ (\E n \in 0..MemTotal : Remember(n)) \/ (\E m \in BOOLEAN : Reappear(m))
           \/ (\E n \in Nodes : Unlink(n) \/ Create(n))
  <2>1. UNCHANGED <<kind, mounts, partitions, remounted, task>>
    BY <1>4 DEF Work, Vanish, Remember, Reappear, Unlink, Create, Happens
  <2> QED BY <2>1, OtherKeeps
<1>5. CASE UNCHANGED samplingVars
  <2>1. UNCHANGED <<kind, mounts, partitions, remounted, task>>
    BY <1>5 DEF samplingVars, fsVars
  <2> QED BY <2>1, OtherKeeps
<1> QED BY <1>1, <1>2, <1>3, <1>4, <1>5 DEF SamplingNext

\* And the table that was read at the start is the kernel's.
LEMMA MountsStart ==
    ASSUME SamplingInit
    PROVE  MInv
<1>1. PICK table \in Mountinfo[kind] : mounts = table /\ partitions = Partitions(table)
  BY DEF SamplingInit
<1>2. kind \in Kinds /\ remounted = {} /\ task.pc = "top"
  BY DEF SamplingInit, Reading
<1>3. TableType
  BY <1>1, <1>2, MountsAssumption DEF TableType
<1>4. Keeps(table, mounts, remounted)
  BY <1>1 DEF Keeps
<1> QED BY <1>1, <1>2, <1>3, <1>4 DEF MInv, FromTheStart, RowsAreRead

\* The partitions are of the start's mount table, of which the kernel's table
\* keeps, in their order, the lines at every mountpoint nothing changed at
\* (from_mountinfo reads it once).
THEOREM SamplingMounts == SamplingSpec => []MInv
<1>1. SInv /\ MInv /\ [SamplingNext]_samplingVars => MInv'
  BY MountsStep
<1> QED BY <1>1, MountsStart, SamplingInvariant, PTL DEF SamplingSpec

\* At a settled mountpoint there is one mount.
LEMMA SettledIs ==
    ASSUME MInv, NEW at, Settled(at)
    PROVE  /\ at \notin remounted
           /\ \E k \in DOMAIN mounts : /\ mounts[k].at = at
                                       /\ \A j \in DOMAIN mounts : mounts[j].at = at => j = k
<1>1. DOMAIN mounts = 1..Len(mounts) /\ Len(mounts) \in Nat
  BY Lines DEF MInv, TableType
<1> DEFINE S == {i \in DOMAIN mounts : mounts[i].at = at}
<1>2. S \in SUBSET (1..Len(mounts)) /\ Cardinality(S) = 1 /\ at \notin remounted
  BY <1>1 DEF Settled
<1> QED BY <1>1, <1>2, OneOf

\* A row is that of a partition the sample tells about, at a mountpoint that
\* is there.
LEMMA RowIs ==
    ASSUME MInv, task.pc = "push", NEW r \in task.fs
    PROVE  \E p \in Told : /\ r.device = p.device /\ r.at = p.at
                           /\ r.figures = DeviceOf(MountOf(mounts, p.at))
BY DEF MInv, RowsAreRead, FsRows, Statvfs

\* The settled file systems of the root's sample.
LEMMA RootIsTold == MInv => RootTellsFilesystems
<1> SUFFICES ASSUME MInv, task.pc = "push", kind = "root" PROVE RootTellsFilesystems
  BY DEF RootTellsFilesystems
<1>1. PICK table \in Mountinfo[kind] : partitions = Partitions(table) /\ Keeps(table, mounts, remounted)
  BY DEF MInv, FromTheStart
<1>2. table \in Seq(MountLines) /\ mounts \in Seq(MountLines)
  BY MountsAssumption DEF MInv, FromTheStart, TableType
<1>3. Told = partitions
  BY DEF Told
<1>4. PICK gone \in SUBSET MayBeGone : task.fs = FsRows(gone)
  BY DEF MInv, RowsAreRead
<1>5. ASSUME NEW m \in Range(mounts), m.type \in SupportedFs, Settled(m.at),
             \A p \in partitions : p.device = DeviceOf(m) => Settled(p.at)
      PROVE  Cardinality({r \in task.fs : r.device = DeviceOf(m)}) = 1
  <2>1. PICK j \in DOMAIN mounts : m = mounts[j]
    BY DEF Range
  <2>2. PICK i \in DOMAIN table : table[i] = m
    BY <1>1, <1>5, <2>1, SettledIs DEF Keeps
  <2>3. PICK p \in partitions : p.device = DeviceOf(m)
    BY <1>1, <1>2, <1>5, <2>2, PartitionOf
  <2>4. p.at \notin gone
    <3>1. PICK k \in DOMAIN mounts : mounts[k].at = p.at
      BY <1>5, <2>3, SettledIs
    <3> QED BY <3>1 DEF MayBeGone, Range
  <2> DEFINE row(q) == [device |-> q.device, at |-> q.at, figures |-> Statvfs(mounts, q.at)]
  <2>5. task.fs = {row(q) : q \in {x \in partitions : x.at \notin gone}}
    BY <1>3, <1>4 DEF FsRows
  <2>6. row(p) \in task.fs /\ row(p).device = DeviceOf(m)
    BY <2>3, <2>4, <2>5
  <2>7. ASSUME NEW r \in task.fs, r.device = DeviceOf(m) PROVE r = row(p)
    <3>1. PICK q \in partitions : r = row(q)
      BY <2>5
    <3>2. q.device = p.device
      BY <2>3, <2>7, <3>1
    <3>3. q = p
      BY <1>1, <1>2, <3>2, PartitionsDiffer
    <3> QED BY <3>1, <3>3
  <2> HIDE DEF row
  <2>8. {r \in task.fs : r.device = DeviceOf(m)} = {row(p)}
    BY <2>6, <2>7
  <2> QED BY <2>8, FS_Singleton
<1>6. ASSUME NEW r \in task.fs, Settled(r.at) PROVE r.figures = r.device
  <2>1. PICK p \in partitions : /\ r.device = p.device /\ r.at = p.at
                                /\ r.figures = DeviceOf(MountOf(mounts, p.at))
    BY <1>3, RowIs
  <2>2. p.line \in DOMAIN table /\ p.at = table[p.line].at /\ p.device = DeviceOf(table[p.line])
    BY <1>1, <1>2, PartitionIs
  <2>3. PICK k \in DOMAIN mounts : mounts[k] = table[p.line]
    BY <1>1, <1>6, <2>1, <2>2, SettledIs DEF Keeps
  <2>4. \A j \in DOMAIN mounts : mounts[j].at = mounts[k].at => j = k
    BY <1>6, <2>1, <2>2, <2>3, SettledIs
  <2>5. k \in Nat
    BY <1>2, Lines
  <2>6. MountOf(mounts, mounts[k].at) = mounts[k]
    BY <1>2, <2>4, <2>5, MountpointIsOn
  <2> QED BY <2>1, <2>2, <2>3, <2>6
<1> QED BY <1>5, <1>6 DEF RootTellsFilesystems

\* The file system of the writable layer.
LEMMA LayerIsTold == MInv => LayerIsOnItsDevice
<1> DEFINE m == MountOf(mounts, Layer)
           same == {i \in DOMAIN mounts : mounts[i].at = m.at /\ DeviceOf(mounts[i]) = DeviceOf(m)}
<1> SUFFICES ASSUME MInv, task.pc = "push", kind = "runtime",
                    \A at \in remounted : ~Under(at, Layer),
                    NEW p0 \in partitions, p0.device = DeviceOf(m), p0.at = m.at,
                    Cardinality(same) = 1,
                    NEW r \in task.fs
             PROVE  r.device = DeviceOf(m) /\ r.figures = DeviceOf(m)
  BY DEF LayerIsOnItsDevice
<1>1. PICK table \in Mountinfo[kind] : partitions = Partitions(table) /\ Keeps(table, mounts, remounted)
  BY DEF MInv, FromTheStart
<1>2. /\ table \in Seq(MountLines) /\ mounts \in Seq(MountLines)
      /\ mounts # <<>> /\ mounts[1].at = Names!Root
      /\ Layer \in Seq(STRING) /\ Layer # <<>> /\ Layer[1] = "/"
  BY MountsAssumption DEF MInv, FromTheStart, TableType
<1>3. Len(mounts) \in Nat /\ DOMAIN mounts = 1..Len(mounts) /\ 1 \in DOMAIN mounts
  BY <1>2, Lines
<1>4. Under(mounts[1].at, Layer)
  <2>1. mounts[1].at \in Directory /\ mounts[1].at = Names!Root
    BY <1>2, <1>3, Lines
  <2>2. Len(Names!Root) = 1 /\ Names!Root[1] = "/"
    BY DEF Names!Root
  <2>3. PICK at \in Directory : at = mounts[1].at
    BY <2>1
  <2>4. Len(Layer) \in Nat \ {0} /\ Len(at) = 1 /\ at[1] = Layer[1] /\ at = Names!Root
    BY <1>2, <2>1, <2>2, <2>3
  <2>5. Under(at, Layer)
    <3>1. Len(at) <= Len(Layer) /\ \A i \in 1..Len(at) : at[i] = Layer[i]
      BY <2>4
    <3> QED BY <1>2, <2>4, <3>1, UnderIs
  <2> QED BY <2>3, <2>5
<1>5. PICK k \in DOMAIN mounts : IsMountOf(mounts, Layer, k)
  BY <1>2, <1>3, <1>4, IsOnAMount
<1>6. m = mounts[k]
  BY <1>2, <1>5, MountOfIs
<1> HIDE DEF m
<1>7. mounts[k].at \in Directory /\ Under(mounts[k].at, Layer)
  BY <1>2, <1>5, Lines DEF IsMountOf
<1>8. PICK p \in PartitionForPath(partitions, Layer) :
          /\ r.device = p.device /\ r.at = p.at
          /\ r.figures = DeviceOf(MountOf(mounts, p.at))
  <2>1. Told = PartitionForPath(partitions, Layer)
    BY DEF Told
  <2> QED BY <2>1, RowIs
<1>9. /\ p \in partitions /\ Covers(p.at, Layer)
      /\ \A q \in partitions : Covers(q.at, Layer) =>
            Len(q.at) < Len(p.at) \/ (Len(q.at) = Len(p.at) /\ q.line <= p.line)
  BY DEF PartitionForPath
<1>10. /\ p.line \in DOMAIN table /\ p.at = table[p.line].at /\ p.device = DeviceOf(table[p.line])
       /\ p0.line \in DOMAIN table /\ p0.at = table[p0.line].at
       /\ p0.device = DeviceOf(table[p0.line])
  BY <1>1, <1>2, <1>9, PartitionIs
<1>11. p.at \in Directory /\ Under(p.at, Layer)
  <2>1. p.at \in Directory
    BY <1>2, <1>10, Lines
  <2> QED BY <1>2, <1>9, <2>1, CoversIsUnder
<1>12. Len(p0.at) < Len(p.at) \/ (Len(p0.at) = Len(p.at) /\ p0.line <= p.line)
  <2>1. Covers(p0.at, Layer)
    BY <1>2, <1>6, <1>7, CoversIsUnder
  <2> QED BY <1>9, <2>1
<1>13. p.at \notin remounted /\ p0.at \notin remounted
  BY <1>6, <1>7, <1>11
<1>14. PICK j \in DOMAIN mounts : mounts[j] = table[p.line]
  BY <1>1, <1>10, <1>13 DEF Keeps
<1>15. Len(p.at) < Len(mounts[k].at) \/ Len(p.at) = Len(mounts[k].at)
  BY <1>5, <1>10, <1>11, <1>14 DEF IsMountOf
<1>16. Len(p.at) = Len(mounts[k].at) /\ p0.line <= p.line
  <2>1. Len(p.at) \in Nat /\ Len(mounts[k].at) \in Nat
    BY <1>7, <1>11, Directories
  <2> QED BY <1>6, <1>12, <1>15, <2>1
<1>17. p.at = mounts[k].at
  BY <1>2, <1>7, <1>11, <1>16, SameMountpoint
<1>18. \A i \in DOMAIN mounts : mounts[i].at = mounts[k].at => i <= k
  BY <1>5, <1>7 DEF IsMountOf
<1>19. r.figures = DeviceOf(m)
  BY <1>2, <1>6, <1>8, <1>17, <1>18, MountpointIsOn
<1>20. p.line = p0.line
  <2> SUFFICES ASSUME p0.line < p.line PROVE FALSE
    BY <1>2, <1>10, <1>16, Lines
  <2>1. PICK a \in DOMAIN mounts, b \in DOMAIN mounts :
            a < b /\ mounts[a] = table[p0.line] /\ mounts[b] = table[p.line]
    BY <1>1, <1>10, <1>13 DEF Keeps
  <2>2. a \in same /\ k \in same
    BY <1>6, <1>10, <2>1
  <2>3. a = k
    <3>1. same \in SUBSET (1..Len(mounts))
      BY <1>3
    <3> QED BY <1>3, <2>2, <3>1, OneOf
  <2>4. b <= k
    BY <1>10, <1>17, <1>18, <2>1
  <2> QED BY <1>3, <2>1, <2>3, <2>4
<1> QED BY <1>8, <1>10, <1>19, <1>20

\* The file systems of a sample: one row for each of the root's, with its
\* device's figures, and in a runtime container's that of the device its
\* writable layer is on, wherever the mounts have not changed
\* (from_mountinfo, partition_for_path, fill_root_stats).
THEOREM SamplingRowsAreRight == SamplingSpec => []RowsAreOfTheirDevices
<1>1. MInv => RowsAreOfTheirDevices
  BY RootIsTold, LayerIsTold DEF RowsAreOfTheirDevices
<1> QED BY <1>1, SamplingMounts, PTL
-----------------------------------------------------------------------------
(* The disk usage of a writable layer.                                     *)

\* The paths are numbered, and 1 is the layer's.
LEMMA TreeType ==
    /\ DOMAIN Inode = Nodes /\ Nodes = 1..Len(Inode) /\ Len(Inode) \in Nat \ {0} /\ IsFiniteSet(Nodes)
    /\ Base \in Nodes /\ Inode[Base].directory /\ Parent[Base] = Base
    /\ \A n \in Nodes : /\ Parent[n] \in Nodes /\ Inode[Parent[n]].directory
                        /\ Inode[n].blocks \in Nat
<1> DEFINE Type == [dev : Nat, ino : Nat, blocks : Nat, directory : BOOLEAN]
<1>1. Inode \in Seq(Type) /\ Inode # <<>>
  BY TreeAssumption
<1>2. Len(Inode) \in Nat /\ DOMAIN Inode = 1..Len(Inode) /\ Len(Inode) # 0
  BY <1>1, LenProperties, EmptySeq
<1>3. \A n \in 1..Len(Inode) : Inode[n] \in Type
  BY <1>1, <1>2, ElementOfSeq
<1>4. \A n \in Nodes : Inode[n].blocks \in Nat
  BY <1>2, <1>3 DEF Nodes
<1>5. Base \in Nodes
  BY <1>2 DEF Nodes, Base
<1>6. IsFiniteSet(1..Len(Inode))
  BY <1>2, FS_Interval
<1> HIDE DEF Type
<1>7. Inode[Base].directory /\ Parent[Base] = Base /\ Parent \in [Nodes -> Nodes]
      /\ \A n \in Nodes : Inode[Parent[n]].directory
  BY TreeAssumption
<1> QED BY <1>2, <1>4, <1>5, <1>6, <1>7 DEF Nodes

\* Being of one inode is an equivalence; paths of one inode agree, and are
\* the same directory if it is one.
LEMMA SameIs ==
    /\ \A n : Same(n, n)
    /\ \A n, m : Same(n, m) => Same(m, n)
    /\ \A n, m, k : Same(n, m) /\ Same(m, k) => Same(n, k)
    /\ \A n, m : Same(n, m) => Inode[n].ino = Inode[m].ino
    /\ \A n, m : OnDevice(n) /\ OnDevice(m) /\ Inode[n].ino = Inode[m].ino => Same(n, m)
    /\ \A n, m \in Nodes : Same(n, m) => /\ Inode[n].blocks = Inode[m].blocks
                                         /\ Inode[n].directory = Inode[m].directory
                                         /\ Inode[n].directory => n = m
<1>1. \A n, m \in Nodes : Same(n, m) => Inode[n] = Inode[m] /\ (Inode[n].directory => n = m)
  BY TreeAssumption
<1>2. \A n, m \in Nodes : Same(n, m) => /\ Inode[n].blocks = Inode[m].blocks
                                        /\ Inode[n].directory = Inode[m].directory
                                        /\ Inode[n].directory => n = m
  BY <1>1
<1> QED BY <1>2 DEF Same, OnDevice

\* What a walk comes to is closed, and least.
LEMMA InsideIs ==
    /\ Inside \in SUBSET Nodes /\ Base \in Inside
    /\ \A n \in Nodes : Parent[n] \in Inside /\ OnDevice(n) => n \in Inside
    /\ \A S \in SUBSET Nodes : Grown(S) => Inside \subseteq S
    /\ \A n \in Inside : OnDevice(n)
<1>1. Base \in Nodes /\ \A n \in Nodes : Parent[n] \in Nodes
  BY TreeType
<1>2. \A S \in SUBSET Nodes : Grown(S) => Inside \subseteq S
  BY DEF Inside
<1>3. Inside \in SUBSET Nodes /\ Base \in Inside
  BY <1>1 DEF Inside, Grown
<1>4. ASSUME NEW n \in Nodes, Parent[n] \in Inside, OnDevice(n) PROVE n \in Inside
  BY <1>4 DEF Inside, Grown
<1>5. \A n \in Inside : OnDevice(n)
  <2> DEFINE S == {n \in Nodes : OnDevice(n)}
  <2>1. Grown(S)
    BY <1>1 DEF Grown, OnDevice
  <2> QED BY <1>2, <2>1
<1> QED BY <1>2, <1>3, <1>4, <1>5

\* The totals of two sequences are that of their sums.
LEMMA TotalsAdd ==
    ASSUME NEW n \in Nat, NEW a, NEW b, NEW c,
           a \in [1..n -> Nat], b \in [1..n -> Nat], c \in [1..n -> Nat],
           \A i \in 1..n : c[i] = a[i] + b[i]
    PROVE  Total(a) \in Nat /\ Total(b) \in Nat /\ Total(c) = Total(a) + Total(b)
<1>1. Len(a) = n /\ Len(b) = n /\ Len(c) = n
  OBVIOUS
<1>2. PICK f : Sums(a, n, f) /\ Total(a) = f[n]
  BY <1>1, TotalIsTheLastSum
<1>3. PICK g : Sums(b, n, g) /\ Total(b) = g[n]
  BY <1>1, TotalIsTheLastSum
<1>4. PICK h : Sums(c, n, h) /\ Total(c) = h[n]
  BY <1>1, TotalIsTheLastSum
<1> DEFINE T == {k \in Nat : k <= n => f[k] \in Nat /\ g[k] \in Nat /\ h[k] = f[k] + g[k]}
<1>5. 0 \in T
  <2>1. 0 \in 0..n
    OBVIOUS
  <2>2. f[0] = 0
    BY <1>2, <2>1 DEF Sums
  <2>3. g[0] = 0
    BY <1>3, <2>1 DEF Sums
  <2>4. h[0] = 0
    BY <1>4, <2>1 DEF Sums
  <2>5. f[0] \in Nat /\ g[0] \in Nat /\ h[0] = f[0] + g[0]
    BY <2>2, <2>3, <2>4
  <2>6. 0 \in Nat
    OBVIOUS
  <2> QED BY <2>5, <2>6, Zenon
<1>6. ASSUME NEW k \in T PROVE k + 1 \in T
  <2> SUFFICES ASSUME k + 1 <= n
               PROVE  f[k + 1] \in Nat /\ g[k + 1] \in Nat /\ h[k + 1] = f[k + 1] + g[k + 1]
    OBVIOUS
  <2>1. k + 1 \in 0..n /\ k + 1 \in 1..n /\ k + 1 # 0 /\ (k + 1) - 1 = k /\ k <= n /\ k \in Nat
    OBVIOUS
  <2>2. f[k + 1] = f[k] + a[k + 1]
    BY <1>2, <2>1 DEF Sums
  <2>3. g[k + 1] = g[k] + b[k + 1]
    BY <1>3, <2>1 DEF Sums
  <2>4. h[k + 1] = h[k] + c[k + 1]
    BY <1>4, <2>1 DEF Sums
  <2>5. PICK v, w \in Nat : v = a[k + 1] /\ w = b[k + 1] /\ c[k + 1] = v + w
    BY <2>1
  <2>6. PICK x, y \in Nat : x = f[k] /\ y = g[k] /\ h[k] = x + y
    BY <2>1
  <2>7. f[k + 1] = x + v /\ g[k + 1] = y + w /\ h[k + 1] = (x + y) + (v + w)
    BY <2>2, <2>3, <2>4, <2>5, <2>6
  <2> QED BY <2>7
<1>7. T = Nat
  <2> HIDE DEF T
  <2>1. T \in SUBSET Nat
    BY DEF T
  <2> QED BY <1>5, <1>6, <2>1, Induction
<1>8. n \in T
  BY <1>7
<1> QED BY <1>2, <1>3, <1>4, <1>8

\* The total of a sequence that is 0 but at one place.
LEMMA TotalOfOne ==
    ASSUME NEW n \in Nat, NEW j \in 1..n, NEW v \in Nat, NEW a \in [1..n -> Nat],
           \A i \in 1..n : a[i] = IF i = j THEN v ELSE 0
    PROVE  Total(a) = v
<1>1. Len(a) = n
  OBVIOUS
<1>2. PICK f : Sums(a, n, f) /\ Total(a) = f[n]
  BY <1>1, TotalIsTheLastSum
<1> DEFINE T == {k \in Nat : k <= n => f[k] = IF k < j THEN 0 ELSE v}
<1>3. 0 \in T
  <2>1. 0 \in 0..n
    OBVIOUS
  <2>2. f[0] = 0
    BY <1>2, <2>1 DEF Sums
  <2> QED BY <2>2
<1>4. ASSUME NEW k \in T PROVE k + 1 \in T
  <2> SUFFICES ASSUME k + 1 <= n PROVE f[k + 1] = IF k + 1 < j THEN 0 ELSE v
    OBVIOUS
  <2>1. k + 1 \in 0..n /\ k + 1 \in 1..n /\ k + 1 # 0 /\ (k + 1) - 1 = k /\ k <= n /\ k \in Nat
    OBVIOUS
  <2>2. f[k + 1] = f[k] + a[k + 1]
    BY <1>2, <2>1 DEF Sums
  <2>3. a[k + 1] = IF k + 1 = j THEN v ELSE 0
    BY <2>1
  <2>4. f[k] = IF k < j THEN 0 ELSE v
    BY <2>1
  <2> QED BY <2>2, <2>3, <2>4
<1>5. T = Nat
  <2> HIDE DEF T
  <2>1. T \in SUBSET Nat
    BY DEF T
  <2> QED BY <1>3, <1>4, <2>1, Induction
<1>6. n \in T
  BY <1>5
<1> QED BY <1>2, <1>6

\* Blocks of disjoint sets add up.
LEMMA BlocksOfBoth ==
    ASSUME NEW S \in SUBSET Nodes, NEW T \in SUBSET Nodes, S \cap T = {}
    PROVE  /\ Blocks(S) \in Nat /\ Blocks(T) \in Nat
           /\ Blocks(S \cup T) = Blocks(S) + Blocks(T)
<1> DEFINE B(P) == [n \in Nodes |-> IF n \in P THEN Inode[n].blocks ELSE 0]
<1>1. PICK n \in Nat : Nodes = 1..n
  BY TreeType
<1>2. \A i \in 1..n : Inode[i].blocks \in Nat
  BY <1>1, TreeType
<1>3. /\ B(S) \in [1..n -> Nat] /\ B(T) \in [1..n -> Nat] /\ B(S \cup T) \in [1..n -> Nat]
      /\ \A i \in 1..n : B(S \cup T)[i] = B(S)[i] + B(T)[i]
  BY <1>1, <1>2
<1>4. Blocks(S) = Total(B(S)) /\ Blocks(T) = Total(B(T)) /\ Blocks(S \cup T) = Total(B(S \cup T))
  BY DEF Blocks
<1> HIDE DEF B
<1>5. PICK a, b, c : a = B(S) /\ b = B(T) /\ c = B(S \cup T)
  OBVIOUS
<1>6. \A i \in 1..n : c[i] = a[i] + b[i]
  BY <1>3, <1>5
<1>7. Total(a) \in Nat /\ Total(b) \in Nat /\ Total(c) = Total(a) + Total(b)
  <2>1. a \in [1..n -> Nat] /\ b \in [1..n -> Nat] /\ c \in [1..n -> Nat]
    BY <1>3, <1>5, Zenon
  <2> QED BY <1>6, <2>1, TotalsAdd, ZenonT(30)
<1> QED BY <1>4, <1>5, <1>7

\* The blocks of one path, and of none.
LEMMA BlocksOfOne ==
    /\ \A n \in Nodes : Blocks({n}) = Inode[n].blocks
    /\ Blocks({}) = 0
<1>1. ASSUME NEW j \in Nodes PROVE Blocks({j}) = Inode[j].blocks
  <2> DEFINE a == [n \in Nodes |-> IF n \in {j} THEN Inode[n].blocks ELSE 0]
  <2>1. PICK n \in Nat : Nodes = 1..n
    BY TreeType
  <2>2. PICK v \in Nat : v = Inode[j].blocks
    BY TreeType
  <2>3. a \in [1..n -> Nat] /\ \A i \in 1..n : a[i] = IF i = j THEN v ELSE 0
    BY <2>1, <2>2
  <2>4. Blocks({j}) = Total(a)
    BY DEF Blocks
  <2> HIDE DEF a
  <2>5. Total(a) = v
    BY <2>1, <2>3, TotalOfOne, ZenonT(30)
  <2> QED BY <2>2, <2>4, <2>5
<1>2. Blocks({}) = 0
  <2>1. Blocks({} \cup {}) = Blocks({}) + Blocks({}) /\ Blocks({}) \in Nat
    BY BlocksOfBoth
  <2>2. {} \cup {} = {}
    OBVIOUS
  <2>3. PICK x \in Nat : x = Blocks({})
    BY <2>1
  <2>4. x = x + x
    BY <2>1, <2>2, <2>3
  <2>5. x = 0
    BY <2>4
  <2> QED BY <2>3, <2>5
<1> QED BY <1>1, <1>2

\* More paths have no fewer blocks.
LEMMA BlocksGrow ==
    ASSUME NEW T \in SUBSET Nodes, NEW S \in SUBSET T
    PROVE  Blocks(S) <= Blocks(T)
<1>1. S \cup (T \ S) = T /\ S \cap (T \ S) = {}
  OBVIOUS
<1>2. Blocks(S) \in Nat /\ Blocks(T \ S) \in Nat /\ Blocks(T) = Blocks(S) + Blocks(T \ S)
  BY <1>1, BlocksOfBoth
<1> QED BY <1>2

\* Each path of S has one of T with the same inode, and no two of S are one.
Covered(S, T) ==
    /\ \A s \in S : \E t \in T : Same(s, t)
    /\ \A r, s \in S : Same(r, s) => r = s

\* Then S has no more blocks than T.
LEMMA BlocksAreCovered ==
    ASSUME NEW S \in SUBSET Nodes, NEW T \in SUBSET Nodes, Covered(S, T)
    PROVE  Blocks(S) <= Blocks(T)
<1> DEFINE N == {k \in Nat : \A P, Q \in SUBSET Nodes :
                     Cardinality(P) = k /\ Covered(P, Q) => Blocks(P) <= Blocks(Q)}
<1>0. \A P \in SUBSET Nodes : IsFiniteSet(P) /\ Cardinality(P) \in Nat /\ Blocks(P) \in Nat
  <2> SUFFICES ASSUME NEW P \in SUBSET Nodes
               PROVE  IsFiniteSet(P) /\ Cardinality(P) \in Nat /\ Blocks(P) \in Nat
    OBVIOUS
  <2>1. IsFiniteSet(P)
    BY TreeType, FS_Subset
  <2>2. P \cap {} = {}
    OBVIOUS
  <2>3. Blocks(P) \in Nat
    BY <2>2, BlocksOfBoth
  <2> QED BY <2>1, <2>3, FS_CardinalityType
<1>1. 0 \in N
  <2> SUFFICES ASSUME NEW P \in SUBSET Nodes, NEW Q \in SUBSET Nodes, Cardinality(P) = 0
               PROVE  Blocks(P) <= Blocks(Q)
    OBVIOUS
  <2>1. P = {}
    BY <1>0, FS_EmptySet
  <2> QED BY <1>0, <2>1, BlocksOfOne
<1>2. ASSUME NEW k \in N PROVE k + 1 \in N
  <2> SUFFICES ASSUME NEW P \in SUBSET Nodes, NEW Q \in SUBSET Nodes,
                      Cardinality(P) = k + 1, Covered(P, Q)
               PROVE  Blocks(P) <= Blocks(Q)
    OBVIOUS
  <2>1. P # {}
    BY FS_EmptySet
  <2>2. PICK s \in P : TRUE
    BY <2>1
  <2>3. PICK t \in Q : Same(s, t)
    BY <2>2 DEF Covered
  <2> DEFINE R == P \ {s}
             U == Q \ {t}
  <2>4. Cardinality(R) = k
    BY <1>0, FS_RemoveElement
  <2>5. Covered(R, U)
    <3>1. ASSUME NEW r \in R PROVE \E u \in U : Same(r, u)
      <4>1. PICK u \in Q : Same(r, u)
        BY DEF Covered
      <4>2. u # t
        <5> SUFFICES ASSUME u = t PROVE FALSE
          OBVIOUS
        <5>1. Same(r, s)
          BY <2>3, <4>1, SameIs
        <5> QED BY <5>1 DEF Covered
      <4> QED BY <4>1, <4>2
    <3> QED BY <3>1 DEF Covered
  <2>6. Blocks(R) <= Blocks(U)
    <3>1. R \in SUBSET Nodes /\ U \in SUBSET Nodes
      OBVIOUS
    <3> HIDE DEF R, U
    <3> QED BY <2>4, <2>5, <3>1
  <2>7. Blocks(P) = Blocks(R) + Blocks({s}) /\ Blocks(Q) = Blocks(U) + Blocks({t})
    <3>1. /\ R \in SUBSET Nodes /\ {s} \in SUBSET Nodes /\ R \cap {s} = {} /\ R \cup {s} = P
          /\ U \in SUBSET Nodes /\ {t} \in SUBSET Nodes /\ U \cap {t} = {} /\ U \cup {t} = Q
      OBVIOUS
    <3> HIDE DEF R, U
    <3>2. Blocks(R \cup {s}) = Blocks(R) + Blocks({s})
      BY <3>1, BlocksOfBoth
    <3>3. Blocks(U \cup {t}) = Blocks(U) + Blocks({t})
      BY <3>1, BlocksOfBoth
    <3> QED BY <3>1, <3>2, <3>3
  <2>8. Blocks({s}) = Blocks({t})
    <3>1. s \in Nodes /\ t \in Nodes /\ Inode[s].blocks = Inode[t].blocks
      BY <2>3, SameIs
    <3> QED BY <3>1, BlocksOfOne, Zenon
  <2>9. PICK x, y, z \in Nat : x = Blocks(R) /\ y = Blocks(U) /\ z = Blocks({t})
    <3>1. R \in SUBSET Nodes /\ U \in SUBSET Nodes /\ {t} \in SUBSET Nodes
      OBVIOUS
    <3> HIDE DEF R, U
    <3> QED BY <1>0, <3>1
  <2> QED BY <2>6, <2>7, <2>8, <2>9
<1>3. N = Nat
  <2> HIDE DEF N
  <2>1. N \in SUBSET Nat
    BY DEF N
  <2> QED BY <1>1, <1>2, <2>1, Induction
<1>4. Cardinality(S) \in N
  BY <1>0, <1>3
<1> QED BY <1>4

\* One path of every inode: no two are one, and all are there.
LEMMA OneEachIs ==
    ASSUME NEW paths \in SUBSET Nodes
    PROVE  /\ OneEach(paths) \in SUBSET paths
           /\ \A n \in paths : \E m \in OneEach(paths) : Same(n, m)
           /\ \A m, n \in OneEach(paths) : Same(m, n) => m = n
<1> DEFINE P(n) == {p \in paths : Same(p, n)}
           c(n) == CHOOSE m \in P(n) : TRUE
<1>1. \A n \in paths : c(n) \in P(n)
  <2>1. \A n \in paths : n \in P(n)
    BY SameIs
  <2> QED BY <2>1, Zenon
<1>2. OneEach(paths) = {c(n) : n \in paths}
  BY DEF OneEach
<1>3. ASSUME NEW m \in paths, NEW n \in paths, Same(c(m), c(n)) PROVE c(m) = c(n)
  <2>1. Same(c(m), m) /\ Same(c(n), n)
    BY <1>1
  <2>2. Same(m, n)
    <3> HIDE DEF c
    <3> QED BY <1>3, <2>1, SameIs
  <2>3. P(m) = P(n)
    BY <2>2, SameIs
  <2> QED BY <2>3
<1>4. \A n \in paths : c(n) \in paths /\ Same(n, c(n))
  BY <1>1, SameIs
<1> HIDE DEF c
<1> QED BY <1>2, <1>3, <1>4

\* n came or went during the walk, or another path of its inode did.
Unsteady(n) == \E m \in touched : Same(n, m)

\* Every path that is there has its directory; what is missing came or went,
\* and with a directory all that is in it.
TreeInv ==
    /\ tree \in SUBSET Nodes /\ touched \in SUBSET Nodes
    /\ Base \in tree /\ Base \notin touched
    /\ \A n \in Nodes : n \notin tree => n \in touched
    /\ \A n \in tree : Parent[n] \in tree
    /\ \A n \in Nodes : Parent[n] \in touched => n \in touched

\* V have been visited, and C of them counted; P are directories for later
\* and E the entries left of the last one.  Each path is in one place, in a
\* directory that was counted, and none of such a directory is missing.
Placed(V, C, P, E) ==
    /\ C \in SUBSET V /\ V \in SUBSET Nodes /\ P \in SUBSET Nodes /\ E \in SUBSET (Nodes \ {Base})
    /\ V \cap P = {} /\ V \cap E = {} /\ P \cap E = {}
    /\ Base \in V \cup P
    /\ \A n \in V \cup P \cup E : n # Base => Parent[n] \in C
    /\ \A n \in P : Inode[n].directory
    /\ C \in SUBSET Inside
    /\ \A n \in Nodes : Parent[n] \in C => n \in V \cup P \cup E \cup touched

\* What was visited and not counted had a reason; inodes that have other paths
\* are remembered, so that none is counted again unless it is unsteady.
Tallied(V, C, seen, bytes) ==
    /\ bytes = Blocks(C)
    /\ \A n \in V : n \in C \/ n \in touched \/ ~OnDevice(n)
                       \/ (~Inode[n].directory /\ Inode[n].ino \in seen)
    /\ \A i \in seen : \E m \in V : ~Inode[m].directory /\ Inode[m].ino = i /\ (m \in C \/ ~OnDevice(m))
    /\ \A m \in C : \A n \in Nodes :
           Same(m, n) /\ n # m => Unsteady(m) \/ Inode[m].ino \in seen
    /\ \A m, n \in C : Same(m, n) /\ n # m => Unsteady(m)

\* A walk that has come so far.
WalkedSo(stack, entries, seen, bytes) ==
    \E V, C : Placed(V, C, Range(stack), entries) /\ Tallied(V, C, seen, bytes)

\* The walk's own variables; no directory is on the stack twice.
WalkType ==
    /\ walk = [bytes |-> walk.bytes, seen |-> walk.seen, stack |-> walk.stack,
               entries |-> walk.entries]
    /\ walk.stack \in Seq(Nodes)
    /\ \A i, j \in 1..Len(walk.stack) : walk.stack[i] = walk.stack[j] => i = j

WalkInv == WalkType /\ WalkedSo(walk.stack, walk.entries, walk.seen, walk.bytes)

\* The invariant: the tree and what is missing of it, how far the walk has
\* come, and its result.
UInv ==
    /\ TreeInv
    /\ task.pc = "walk" => WalkInv /\ fs_usage = {}
    /\ UsageIsOfTheTree

\* What holds of a walk goes on to hold when more comes and goes.
LEMMA TouchKeeps ==
    ASSUME touched \subseteq touched',
           NEW V, NEW C, NEW P, NEW E, NEW seen, NEW bytes,
           Placed(V, C, P, E), Tallied(V, C, seen, bytes)
    PROVE  Placed(V, C, P, E)' /\ Tallied(V, C, seen, bytes)'
<1>1. Placed(V, C, P, E)'
  BY DEF Placed
<1>2. \A m : Unsteady(m) => Unsteady(m)'
  BY DEF Unsteady
<1>3. Tallied(V, C, seen, bytes)'
  BY <1>2 DEF Tallied
<1> QED BY <1>1, <1>3

\* A counted path is inside.
LEMMA CountedIsInside ==
    ASSUME NEW V, NEW C, NEW P, NEW E, Placed(V, C, P, E), NEW n \in V \cup P \cup E, OnDevice(n)
    PROVE  n \in Inside
<1>1. n \in Nodes /\ (n = Base \/ Parent[n] \in C) /\ C \in SUBSET Inside
  BY DEF Placed
<1> QED BY <1>1, InsideIs

\* A directory is popped, counted and read.
LEMMA PopKeeps ==
    ASSUME TreeInv, NEW V, NEW C, NEW P, Placed(V, C, P, {}), NEW seen, NEW bytes,
           Tallied(V, C, seen, bytes), NEW d \in P, d \in tree, OnDevice(d)
    PROVE  /\ Placed(V \cup {d}, C \cup {d}, P \ {d}, {n \in tree \ {Base} : Parent[n] = d})
           /\ Tallied(V \cup {d}, C \cup {d}, seen, bytes + Inode[d].blocks)
<1> DEFINE E == {n \in tree \ {Base} : Parent[n] = d}
<1>1. d \in Nodes /\ d \notin V /\ d \notin C /\ Inode[d].directory /\ C \in SUBSET Nodes
  BY DEF Placed
<1>2. d \in Inside
  BY CountedIsInside
<1>3. Parent[Base] = Base /\ (d # Base => Parent[d] \in C)
  BY TreeType DEF Placed
<1>4. \A n \in V \cup P : n # Base => Parent[n] # d
  BY <1>1 DEF Placed
<1>5. E \in SUBSET (Nodes \ {Base}) /\ E \cap V = {} /\ E \cap P = {}
  BY <1>4 DEF TreeInv
<1>6. \A n \in Nodes : Parent[n] = d => n \in V \cup P \cup E \cup touched
  BY <1>3 DEF TreeInv, Placed
<1>7. Placed(V \cup {d}, C \cup {d}, P \ {d}, E)
  <2> HIDE DEF E
  <2>1. \A n \in E : Parent[n] = d
    BY DEF E
  <2>2. \A n \in Nodes : Parent[n] \in C => n \in V \cup P \cup touched
    BY DEF Placed
  <2>3. \A n \in Nodes : Parent[n] \in C \cup {d} =>
            n \in (V \cup {d}) \cup (P \ {d}) \cup E \cup touched
    BY <1>6, <2>2
  <2> QED BY <1>1, <1>2, <1>5, <2>1, <2>3 DEF Placed
<1>8. bytes + Inode[d].blocks = Blocks(C \cup {d})
  <2>1. {d} \in SUBSET Nodes /\ C \cap {d} = {}
    BY <1>1
  <2>2. Blocks(C \cup {d}) = Blocks(C) + Blocks({d})
    BY <1>1, <2>1, BlocksOfBoth
  <2> QED BY <1>1, <2>2, BlocksOfOne DEF Tallied
<1>9. \A n \in Nodes : Same(d, n) \/ Same(n, d) => n = d
  BY <1>1, SameIs
<1>10. Tallied(V \cup {d}, C \cup {d}, seen, bytes + Inode[d].blocks)
  <2>1. C \in SUBSET Nodes
    BY <1>1
  <2> QED BY <1>8, <1>9, <2>1 DEF Tallied
<1> QED BY <1>7, <1>10

\* A path is left out: it is gone, on another device, or has been counted.
LEMMA SkipKeeps ==
    ASSUME TreeInv, NEW V, NEW C, NEW P, NEW E, Placed(V, C, P, E), NEW seen, NEW bytes,
           Tallied(V, C, seen, bytes), NEW n \in P \cup E,
           n \notin tree \/ ~OnDevice(n) \/ (~Inode[n].directory /\ Inode[n].ino \in seen)
    PROVE  /\ Placed(V \cup {n}, C, P \ {n}, E \ {n})
           /\ Tallied(V \cup {n}, C, seen, bytes)
<1>1. n \in Nodes
  BY DEF Placed
<1>2. n \notin tree => n \in touched
  BY <1>1 DEF TreeInv
<1>3. Placed(V \cup {n}, C, P \ {n}, E \ {n})
  BY <1>1 DEF Placed
<1>4. Tallied(V \cup {n}, C, seen, bytes)
  BY <1>2 DEF Tallied
<1> QED BY <1>3, <1>4

\* A directory is put on the stack.
LEMMA StackKeeps ==
    ASSUME NEW V, NEW C, NEW P, NEW E, Placed(V, C, P, E), NEW n \in E, Inode[n].directory
    PROVE  Placed(V, C, P \cup {n}, E \ {n})
BY DEF Placed

\* Two paths of an inode in the tree are two links.
LEMMA TwoLinks ==
    ASSUME TreeInv, NEW n \in tree, NEW m \in tree, m # n, Same(n, m)
    PROVE  Links(n) > 1
<1> DEFINE L == {k \in tree : Same(n, k)}
<1>1. {m, n} \in SUBSET L
  BY SameIs
<1>2. IsFiniteSet(L) /\ Cardinality(L) \in Nat
  <2>1. L \in SUBSET Nodes
    BY DEF TreeInv
  <2> HIDE DEF L
  <2>2. IsFiniteSet(L)
    BY <2>1, TreeType, FS_Subset
  <2> QED BY <2>2, FS_CardinalityType
<1>3. Cardinality({m, n}) = 2
  <2>1. IsFiniteSet({m}) /\ Cardinality({m}) = 1
    BY FS_Singleton, Zenon
  <2>2. Cardinality({m} \cup {n}) = 1 + 1
    BY <2>1, FS_AddElement
  <2>3. {m} \cup {n} = {m, n}
    OBVIOUS
  <2> QED BY <2>2, <2>3
<1>4. Cardinality({m, n}) <= Cardinality(L)
  <2> HIDE DEF L
  <2> QED BY <1>1, <1>2, FS_Subset
<1> QED BY <1>2, <1>3, <1>4 DEF Links

\* A file is counted, if it is of the device; its number is remembered if it
\* has other links.
LEMMA FileKeeps ==
    ASSUME TreeInv, NEW V, NEW C, NEW P, NEW E, Placed(V, C, P, E), NEW seen, NEW bytes,
           Tallied(V, C, seen, bytes), NEW n \in E, n \in tree, ~Inode[n].directory,
           ~(Links(n) > 1 /\ Inode[n].ino \in seen)
    PROVE  LET D == IF OnDevice(n) THEN C \cup {n} ELSE C
           IN  /\ Placed(V \cup {n}, D, P, E \ {n})
               /\ Tallied(V \cup {n}, D,
                          seen \cup (IF Links(n) > 1 THEN {Inode[n].ino} ELSE {}),
                          bytes + IF OnDevice(n) THEN Inode[n].blocks ELSE 0)
<1> DEFINE more == seen \cup (IF Links(n) > 1 THEN {Inode[n].ino} ELSE {})
<1>1. n \in Nodes /\ n # Base /\ n \notin V /\ n \notin C /\ n \notin P /\ C \in SUBSET Nodes
  BY DEF Placed
<1>2. \A i \in more : i \in seen \/ (i = Inode[n].ino /\ Links(n) > 1)
  OBVIOUS
<1>3. seen \subseteq more /\ (Links(n) > 1 => Inode[n].ino \in more)
  OBVIOUS
<1> HIDE DEF more
<1>4. Blocks(C) \in Nat /\ bytes = Blocks(C)
  <2>1. C \cap {} = {}
    OBVIOUS
  <2> QED BY <1>1, <2>1, BlocksOfBoth DEF Tallied
<1>5. CASE ~OnDevice(n)
  <2>1. Placed(V \cup {n}, C, P, E \ {n})
    BY <1>1 DEF Placed
  <2>2. bytes + 0 = bytes
    BY <1>4
  <2>3. \A i \in more : \E m \in V \cup {n} :
            ~Inode[m].directory /\ Inode[m].ino = i /\ (m \in C \/ ~OnDevice(m))
    BY <1>2, <1>5 DEF Tallied
  <2>4. Tallied(V \cup {n}, C, more, bytes)
    BY <1>3, <1>5, <2>3 DEF Tallied
  <2> QED BY <1>5, <2>1, <2>2, <2>4 DEF more
<1>6. CASE OnDevice(n)
  <2> DEFINE D == C \cup {n}
  <2>1. Placed(V \cup {n}, D, P, E \ {n})
    <3>1. n \in Inside
      BY <1>6, CountedIsInside
    <3>2. \A k \in Nodes : Parent[k] # n
      <4> SUFFICES ASSUME NEW k \in Nodes, Parent[k] = n PROVE FALSE
        OBVIOUS
      <4> QED BY TreeType
    <3> QED BY <1>1, <3>1, <3>2 DEF Placed
  <2>2. bytes + Inode[n].blocks = Blocks(D)
    <3>1. {n} \in SUBSET Nodes /\ C \cap {n} = {}
      BY <1>1
    <3>2. Blocks(C \cup {n}) = Blocks(C) + Blocks({n})
      BY <1>1, <3>1, BlocksOfBoth
    <3> QED BY <1>1, <1>4, <3>2, BlocksOfOne
  <2>3. \A i \in more : \E m \in V \cup {n} :
            ~Inode[m].directory /\ Inode[m].ino = i /\ (m \in D \/ ~OnDevice(m))
    BY <1>2 DEF Tallied
  <2>4. ASSUME NEW k \in Nodes, Same(n, k), k # n
        PROVE  Unsteady(n) \/ Links(n) > 1
    <3>1. CASE k \in tree
      BY <2>4, <3>1, TwoLinks
    <3>2. CASE k \notin tree
      BY <2>4, <3>2 DEF TreeInv, Unsteady
    <3> QED BY <3>1, <3>2
  <2>5. ASSUME NEW m \in C, Same(m, n)
        PROVE  Unsteady(m) /\ Unsteady(n)
    <3>1. m \in Nodes /\ m # n /\ Same(n, m) /\ Inode[m].ino = Inode[n].ino
      BY <1>1, <2>5, SameIs
    <3>2. Unsteady(m) => Unsteady(n)
      BY <3>1, SameIs DEF Unsteady
    <3>3. Unsteady(n) => Unsteady(m)
      BY <2>5, SameIs DEF Unsteady
    <3>4. Unsteady(m) \/ Inode[n].ino \in seen
      BY <1>1, <2>5, <3>1 DEF Tallied
    <3>5. Inode[n].ino \in seen => Unsteady(n)
      BY <2>4, <3>1
    <3> QED BY <3>2, <3>3, <3>4, <3>5
  <2>6. \A m \in D : \A k \in Nodes :
            Same(m, k) /\ k # m => Unsteady(m) \/ Inode[m].ino \in more
    BY <1>3, <2>4 DEF Tallied
  <2>7. \A m, k \in D : Same(m, k) /\ k # m => Unsteady(m)
    <3> SUFFICES ASSUME NEW m \in D, NEW k \in D, Same(m, k), k # m PROVE Unsteady(m)
      OBVIOUS
    <3>1. CASE m \in C /\ k \in C
      BY <3>1 DEF Tallied
    <3>2. CASE m \in C /\ k = n
      BY <3>2, <2>5
    <3>3. CASE m = n /\ k \in C
      BY <3>3, <2>5, SameIs
    <3> QED BY <3>1, <3>2, <3>3
  <2>8. \A m \in V \cup {n} : \/ m \in D \/ m \in touched \/ ~OnDevice(m)
                             \/ (~Inode[m].directory /\ Inode[m].ino \in more)
    BY <1>3 DEF Tallied
  <2>9. Tallied(V \cup {n}, D, more, bytes + Inode[n].blocks)
    <3> HIDE DEF D
    <3> QED BY <2>2, <2>3, <2>6, <2>7, <2>8 DEF Tallied
  <2> QED BY <1>6, <2>1, <2>9 DEF more
<1> QED BY <1>5, <1>6

\* No element is in a sequence twice.
Distinct(s) == \A i, j \in 1..Len(s) : s[i] = s[j] => i = j

\* What is left of a stack that is popped, and what is on one that is pushed.
LEMMA StackIs ==
    ASSUME NEW s \in Seq(Nodes), Distinct(s)
    PROVE  /\ s # <<>> => /\ Last(s) \in Range(s) /\ Front(s) \in Seq(Nodes) /\ Distinct(Front(s))
                          /\ Range(Front(s)) = Range(s) \ {Last(s)}
           /\ \A n \in Nodes \ Range(s) :
                  /\ Append(s, n) \in Seq(Nodes) /\ Distinct(Append(s, n))
                  /\ Range(Append(s, n)) = Range(s) \cup {n}
<1>0. PICK k \in Nat : k = Len(s) /\ DOMAIN s = 1..k
  BY LenProperties
<1>1. ASSUME s # <<>>
      PROVE  /\ Last(s) \in Range(s) /\ Front(s) \in Seq(Nodes) /\ Distinct(Front(s))
             /\ Range(Front(s)) = Range(s) \ {Last(s)}
  <2>1. k # 0 /\ k \in 1..k
    BY <1>0, <1>1, EmptySeq
  <2> DEFINE f == Front(s)
  <2>2. /\ f \in Seq(Nodes) /\ Len(f) = k - 1 /\ DOMAIN f = 1..(k - 1)
        /\ \A i \in 1..(k - 1) : f[i] = s[i]
    BY <1>0, <2>1 DEF Front
  <2> HIDE DEF f
  <2>3. Last(s) = s[k] /\ s[k] \in Range(s)
    BY <1>0, <2>1 DEF Last, Range
  <2>4. Distinct(f)
    BY <1>0, <2>1, <2>2 DEF Distinct
  <2>5. \A i \in 1..k : i \in 1..(k - 1) <=> s[i] # s[k]
    BY <1>0, <2>1 DEF Distinct
  <2>6. Range(f) = {s[i] : i \in 1..(k - 1)} /\ Range(s) = {s[i] : i \in 1..k}
    BY <1>0, <2>2 DEF Range
  <2>7. Range(f) = Range(s) \ {s[k]}
    <3>1. 1..(k - 1) \subseteq 1..k
      OBVIOUS
    <3> QED BY <2>5, <2>6, <3>1
  <2> QED BY <2>2, <2>3, <2>4, <2>7 DEF f
<1>2. ASSUME NEW n \in Nodes \ Range(s)
      PROVE  /\ Append(s, n) \in Seq(Nodes) /\ Distinct(Append(s, n))
             /\ Range(Append(s, n)) = Range(s) \cup {n}
  <2> DEFINE a == Append(s, n)
  <2>1. /\ a \in Seq(Nodes) /\ Len(a) = k + 1 /\ DOMAIN a = 1..(k + 1) /\ a[k + 1] = n
        /\ \A i \in 1..k : a[i] = s[i]
    BY <1>0, AppendProperties
  <2> HIDE DEF a
  <2>2. \A i \in 1..k : s[i] # n
    BY <1>0 DEF Range
  <2>3. Distinct(a)
    <3> SUFFICES ASSUME NEW i \in 1..(k + 1), NEW j \in 1..(k + 1), a[i] = a[j] PROVE i = j
      BY <2>1 DEF Distinct
    <3>1. (i \in 1..k \/ i = k + 1) /\ (j \in 1..k \/ j = k + 1)
      OBVIOUS
    <3> QED BY <1>0, <2>1, <2>2, <3>1 DEF Distinct
  <2>4. Range(a) = Range(s) \cup {n}
    <3>1. Range(a) = {a[i] : i \in 1..(k + 1)} /\ Range(s) = {s[i] : i \in 1..k}
      BY <1>0, <2>1 DEF Range
    <3>2. \A i \in 1..(k + 1) : i \in 1..k \/ i = k + 1
      OBVIOUS
    <3>3. k + 1 \in 1..(k + 1) /\ \A i \in 1..k : i \in 1..(k + 1)
      OBVIOUS
    <3> QED BY <2>1, <3>1, <3>2, <3>3
  <2> QED BY <2>1, <2>3, <2>4 DEF a
<1> QED BY <1>1, <1>2

\* A directory is popped.
LEMMA PopStep ==
    ASSUME TreeInv, WalkInv, PopDirectory
    PROVE  WalkInv'
<1> DEFINE dir == Last(walk.stack)
           left == Front(walk.stack)
<1>1. walk.entries = {} /\ walk.stack # <<>> /\ touched' = touched
  BY DEF PopDirectory
<1>2. WalkType /\ Distinct(walk.stack)
  BY DEF WalkInv, WalkType, Distinct
<1>3. /\ dir \in Range(walk.stack) /\ left \in Seq(Nodes) /\ Distinct(left)
      /\ Range(left) = Range(walk.stack) \ {dir}
  BY <1>1, <1>2, StackIs DEF WalkType
<1>4. PICK V, C : Placed(V, C, Range(walk.stack), {}) /\ Tallied(V, C, walk.seen, walk.bytes)
  BY <1>1 DEF WalkInv, WalkedSo
<1> HIDE DEF left, dir
<1>5. CASE dir \in tree /\ OnDevice(dir)
  <2> DEFINE E == {n \in tree \ {Base} : Parent[n] = dir}
  <2>1. walk' = [walk EXCEPT !.bytes = @ + Inode[dir].blocks, !.stack = left, !.entries = E]
    BY <1>5 DEF PopDirectory, dir, left
  <2>2. walk' = [bytes |-> walk.bytes + Inode[dir].blocks, seen |-> walk.seen,
                 stack |-> left, entries |-> E]
    BY <1>2, <2>1 DEF WalkType
  <2>3. /\ Placed(V \cup {dir}, C \cup {dir}, Range(left), E)
        /\ Tallied(V \cup {dir}, C \cup {dir}, walk.seen, walk.bytes + Inode[dir].blocks)
    <3>1. /\ Placed(V \cup {dir}, C \cup {dir}, Range(walk.stack) \ {dir},
                    {n \in tree \ {Base} : Parent[n] = dir})
          /\ Tallied(V \cup {dir}, C \cup {dir}, walk.seen, walk.bytes + Inode[dir].blocks)
      BY <1>3, <1>4, <1>5, PopKeeps, Zenon
    <3> QED BY <1>3, <3>1, Zenon
  <2>4. WalkedSo(left, E, walk.seen, walk.bytes + Inode[dir].blocks)
    BY <2>3, Zenon DEF WalkedSo
  <2> HIDE DEF E
  <2>5. WalkType'
    BY <1>3, <2>2 DEF WalkType, Distinct, Nodes
  <2>6. WalkedSo(walk.stack, walk.entries, walk.seen, walk.bytes)'
    BY <1>1, <2>2, <2>4 DEF WalkedSo, Placed, Tallied, Unsteady
  <2> QED BY <2>5, <2>6 DEF WalkInv
<1>6. CASE ~(dir \in tree /\ OnDevice(dir))
  <2>1. walk' = [walk EXCEPT !.stack = left]
    BY <1>6 DEF PopDirectory, dir, left
  <2>2. walk' = [bytes |-> walk.bytes, seen |-> walk.seen, stack |-> left, entries |-> {}]
    BY <1>1, <1>2, <2>1 DEF WalkType
  <2>3. {} \ {dir} = {}
    OBVIOUS
  <2>4. /\ Placed(V \cup {dir}, C, Range(left), {})
        /\ Tallied(V \cup {dir}, C, walk.seen, walk.bytes)
    BY <1>3, <1>4, <1>6, <2>3, SkipKeeps
  <2>5. WalkedSo(left, {}, walk.seen, walk.bytes)
    BY <2>4, Zenon DEF WalkedSo
  <2>6. WalkType'
    BY <1>3, <2>2 DEF WalkType, Distinct, Nodes
  <2>7. WalkedSo(walk.stack, walk.entries, walk.seen, walk.bytes)'
    BY <1>1, <2>2, <2>5 DEF WalkedSo, Placed, Tallied, Unsteady
  <2> QED BY <2>6, <2>7 DEF WalkInv
<1> QED BY <1>5, <1>6

\* An entry is looked at.
LEMMA VisitStep ==
    ASSUME TreeInv, WalkInv, NEW n \in Nodes, VisitEntry(n)
    PROVE  WalkInv'
<1> DEFINE E == walk.entries \ {n}
           P == Range(walk.stack)
<1>1. n \in walk.entries /\ touched' = touched
  BY DEF VisitEntry
<1>2. WalkType /\ Distinct(walk.stack)
  BY DEF WalkInv, WalkType, Distinct
<1>3. PICK V, C : Placed(V, C, P, walk.entries) /\ Tallied(V, C, walk.seen, walk.bytes)
  BY DEF WalkInv, WalkedSo
<1>4. n \notin P /\ P \ {n} = P
  BY <1>1, <1>3 DEF Placed
<1>5. ASSUME NEW bytes, NEW seen, NEW stack,
             walk' = [bytes |-> bytes, seen |-> seen, stack |-> stack, entries |-> E],
             stack \in Seq(Nodes), Distinct(stack),
             WalkedSo(stack, E, seen, bytes)
      PROVE  WalkInv'
  <2> HIDE DEF E
  <2>1. WalkType'
    BY <1>5 DEF WalkType, Distinct, Nodes
  <2>2. WalkedSo(walk.stack, walk.entries, walk.seen, walk.bytes)'
    BY <1>1, <1>5 DEF WalkedSo, Placed, Tallied, Unsteady
  <2> QED BY <2>1, <2>2 DEF WalkInv
<1>6. walk.stack \in Seq(Nodes)
  BY <1>2 DEF WalkType
<1>7. CASE n \notin tree \/ (~Inode[n].directory /\ Links(n) > 1 /\ Inode[n].ino \in walk.seen)
  <2>1. walk' = [walk EXCEPT !.entries = @ \ {n}]
    BY <1>7 DEF VisitEntry
  <2>2. walk' = [bytes |-> walk.bytes, seen |-> walk.seen, stack |-> walk.stack, entries |-> E]
    BY <1>2, <2>1 DEF WalkType
  <2>3. Placed(V \cup {n}, C, P, E) /\ Tallied(V \cup {n}, C, walk.seen, walk.bytes)
    <3>1. n \in P \cup walk.entries
      BY <1>1
    <3>2. n \notin tree \/ ~OnDevice(n) \/ (~Inode[n].directory /\ Inode[n].ino \in walk.seen)
      BY <1>7
    <3> HIDE DEF P
    <3>3. /\ Placed(V \cup {n}, C, P \ {n}, walk.entries \ {n})
          /\ Tallied(V \cup {n}, C, walk.seen, walk.bytes)
      BY <1>3, <3>1, <3>2, SkipKeeps, Zenon
    <3> QED BY <1>4, <3>3
  <2>4. WalkedSo(walk.stack, E, walk.seen, walk.bytes)
    BY <2>3, Zenon DEF WalkedSo
  <2> QED BY <1>2, <1>5, <1>6, <2>2, <2>4, Zenon
<1>8. CASE n \in tree /\ Inode[n].directory
  <2> DEFINE s == Append(walk.stack, n)
  <2>1. walk' = [[walk EXCEPT !.entries = @ \ {n}] EXCEPT !.stack = Append(@, n)]
    BY <1>8 DEF VisitEntry
  <2>2. walk' = [bytes |-> walk.bytes, seen |-> walk.seen, stack |-> s, entries |-> E]
    BY <1>2, <2>1 DEF WalkType
  <2>3. s \in Seq(Nodes) /\ Distinct(s) /\ Range(s) = P \cup {n}
    BY <1>2, <1>4, <1>6, StackIs
  <2> HIDE DEF s
  <2>4. Placed(V, C, P \cup {n}, E)
    BY <1>1, <1>3, <1>8, StackKeeps
  <2>5. Placed(V, C, Range(s), E)
    BY <2>3, <2>4
  <2>6. WalkedSo(s, E, walk.seen, walk.bytes)
    BY <1>3, <2>5, Zenon DEF WalkedSo
  <2> QED BY <1>5, <2>2, <2>3, <2>6, Zenon
<1>9. CASE n \in tree /\ ~Inode[n].directory /\ ~(Links(n) > 1 /\ Inode[n].ino \in walk.seen)
  <2> DEFINE more == walk.seen \cup (IF Links(n) > 1 THEN {Inode[n].ino} ELSE {})
             b == walk.bytes + IF OnDevice(n) THEN Inode[n].blocks ELSE 0
             D == IF OnDevice(n) THEN C \cup {n} ELSE C
  <2>1. walk' = [[walk EXCEPT !.entries = @ \ {n}] EXCEPT
                    !.seen = @ \cup (IF Links(n) > 1 THEN {Inode[n].ino} ELSE {}),
                    !.bytes = @ + IF OnDevice(n) THEN Inode[n].blocks ELSE 0]
    BY <1>9 DEF VisitEntry
  <2>2. walk' = [bytes |-> b, seen |-> more, stack |-> walk.stack, entries |-> E]
    BY <1>2, <2>1 DEF WalkType
  <2>3. Placed(V \cup {n}, D, P, E) /\ Tallied(V \cup {n}, D, more, b)
    BY <1>1, <1>3, <1>9, FileKeeps
  <2> HIDE DEF more, b, D
  <2>4. WalkedSo(walk.stack, E, more, b)
    BY <2>3, Zenon DEF WalkedSo
  <2> QED BY <1>2, <1>5, <1>6, <2>2, <2>4, Zenon
<1> QED BY <1>7, <1>8, <1>9

\* When nothing is left, every path inside has been counted, or came or went,
\* or is a file whose number was remembered.
LEMMA AllIsVisited ==
    ASSUME TreeInv, NEW V, NEW C, NEW seen, NEW bytes,
           Placed(V, C, {}, {}), Tallied(V, C, seen, bytes), NEW n \in Inside
    PROVE  \/ n \in C \/ n \in touched
           \/ ~Inode[n].directory /\ Inode[n].ino \in seen /\ n \in V
<1> DEFINE S == {k \in Nodes : \/ k \in C \/ k \in touched
                               \/ ~Inode[k].directory /\ Inode[k].ino \in seen /\ k \in V}
<1>1. Base \in S
  <2>1. Base \in V /\ Base \in Nodes /\ Base \notin touched
    BY TreeType DEF Placed, TreeInv
  <2>2. OnDevice(Base) /\ Inode[Base].directory
    BY TreeType DEF OnDevice
  <2> QED BY <2>1, <2>2 DEF Tallied
<1>2. ASSUME NEW k \in Nodes, Parent[k] \in S, OnDevice(k) PROVE k \in S
  <2>1. Inode[Parent[k]].directory
    BY TreeType
  <2>2. Parent[k] \in C \/ Parent[k] \in touched
    BY <1>2, <2>1
  <2>3. k \in V \/ k \in touched
    BY <2>2 DEF Placed, TreeInv
  <2> QED BY <1>2, <2>3 DEF Tallied
<1>3. Grown(S)
  BY <1>1, <1>2 DEF Grown
<1>4. S \in SUBSET Nodes
  OBVIOUS
<1> HIDE DEF S
<1>5. n \in S
  BY <1>3, <1>4, InsideIs
<1> QED BY <1>5 DEF S

\* What the last walk found, nothing being left.
Finished ==
    \E V, C, seen, bytes :
        Placed(V, C, {}, {}) /\ Tallied(V, C, seen, bytes) /\ fs_usage = {bytes}

\* So the walk's result is the tree's.
LEMMA WalkIsRight == TreeInv /\ Finished => UsageIsOfTheTree
<1> SUFFICES ASSUME TreeInv, NEW V, NEW C, NEW seen, NEW bytes,
                    Placed(V, C, {}, {}), Tallied(V, C, seen, bytes), fs_usage = {bytes}
             PROVE  UsageIsOfTheTree
  BY DEF Finished
<1> DEFINE U == {n \in Inside :
                   \/ \E m \in touched : Same(n, m)
                   \/ ~Inode[n].directory /\ \E m \in Foreign : Inode[m].ino = Inode[n].ino}
           R == OneEach(Inside \ U)
<1>0. /\ U \in SUBSET Nodes /\ Inside \ U \in SUBSET Nodes
      /\ C \in SUBSET Inside /\ C \in SUBSET Nodes /\ bytes = Blocks(C)
  BY InsideIs DEF Placed, Tallied
<1>1. /\ R \in SUBSET (Inside \ U)
      /\ \A n \in Inside \ U : \E m \in R : Same(n, m)
      /\ \A m, n \in R : Same(m, n) => m = n
  <2> HIDE DEF U
  <2> QED BY <1>0, OneEachIs
<1>2. \A n \in Inside \ U : ~Unsteady(n) /\ n \notin touched
  BY SameIs DEF Unsteady
<1>3. ASSUME NEW n \in Inside \ U PROVE \E m \in C : Same(n, m)
  <2>1. n \in C \/ (~Inode[n].directory /\ Inode[n].ino \in seen /\ n \in V)
    BY <1>2, AllIsVisited
  <2>2. CASE n \in C
    BY <2>2, SameIs
  <2>3. CASE ~Inode[n].directory /\ Inode[n].ino \in seen
    <3>1. PICK m \in V : /\ ~Inode[m].directory /\ Inode[m].ino = Inode[n].ino
                         /\ m \in C \/ ~OnDevice(m)
      BY <2>3 DEF Tallied
    <3>2. m \in C
      <4> SUFFICES ASSUME ~OnDevice(m) PROVE FALSE
        BY <3>1
      <4>1. m \in Nodes /\ m # Base /\ Parent[m] \in C
        BY <3>1, TreeType DEF Placed
      <4>2. m \in Foreign
        BY <1>0, <3>1, <4>1 DEF Foreign
      <4>3. n \in U
        BY <2>3, <3>1, <4>2
      <4> QED BY <4>3
    <3>3. Same(n, m)
      BY <1>0, <3>1, <3>2, InsideIs, SameIs
    <3> QED BY <3>2, <3>3
  <2> QED BY <2>1, <2>2, <2>3
<1>4. Covered(R, C)
  <2> HIDE DEF R, U
  <2> QED BY <1>1, <1>3 DEF Covered
<1>5. Covered(C \ U, R)
  <2>1. ASSUME NEW s \in C \ U PROVE \E t \in R : Same(s, t)
    <3> HIDE DEF R, U
    <3> QED BY <1>0, <1>1
  <2>2. ASSUME NEW r \in C \ U, NEW s \in C \ U, Same(r, s) PROVE r = s
    <3>1. ~Unsteady(r)
      BY <1>0, <1>2
    <3> QED BY <2>2, <3>1 DEF Tallied
  <2> HIDE DEF R, U
  <2> QED BY <2>1, <2>2 DEF Covered
<1> HIDE DEF R, U
<1>6. R \in SUBSET Nodes /\ C \ U \in SUBSET Nodes /\ C \cap U \in SUBSET U
  BY <1>0, <1>1
<1>7. Blocks(R) <= Blocks(C) /\ Blocks(C \ U) <= Blocks(R)
  BY <1>0, <1>4, <1>5, <1>6, BlocksAreCovered
<1>8. Blocks(C \cap U) <= Blocks(U)
  BY <1>0, <1>6, BlocksGrow
<1>9. Blocks(C) = Blocks(C \ U) + Blocks(C \cap U) /\ Blocks(C \ U) \in Nat /\ Blocks(C \cap U) \in Nat
  <2>1. (C \ U) \cup (C \cap U) = C /\ (C \ U) \cap (C \cap U) = {} /\ C \cap U \in SUBSET Nodes
    BY <1>0
  <2>2. /\ Blocks((C \ U) \cup (C \cap U)) = Blocks(C \ U) + Blocks(C \cap U)
        /\ Blocks(C \ U) \in Nat /\ Blocks(C \cap U) \in Nat
    BY <1>6, <2>1, BlocksOfBoth
  <2> QED BY <2>1, <2>2
<1>10. Blocks(R) \in Nat /\ Blocks(U) \in Nat
  <2>1. R \cap {} = {} /\ U \cap {} = {} /\ {} \in SUBSET Nodes
    OBVIOUS
  <2> QED BY <1>0, <1>6, <2>1, BlocksOfBoth
<1>11. Blocks(R) <= bytes /\ bytes <= Blocks(R) + Blocks(U)
  <2>1. PICK a, b, r, u \in Nat : /\ a = Blocks(C \ U) /\ b = Blocks(C \cap U)
                                  /\ r = Blocks(R) /\ u = Blocks(U)
    BY <1>9, <1>10
  <2>2. bytes = a + b /\ a <= r /\ b <= u /\ r <= a + b
    BY <1>0, <1>7, <1>8, <1>9, <2>1
  <2> QED BY <2>1, <2>2
<1>12. \A b \in fs_usage : b = bytes
  OBVIOUS
<1> QED BY <1>11, <1>12 DEF UsageIsOfTheTree, U, R

\* The result stays right while nothing comes or goes.
LEMMA UsageStays ==
    ASSUME UsageIsOfTheTree, fs_usage' = fs_usage, touched' = touched
    PROVE  UsageIsOfTheTree'
BY DEF UsageIsOfTheTree

\* A path comes or goes.
LEMMA TreeKeeps ==
    ASSUME UInv, NEW n \in Nodes, Unlink(n) \/ Create(n)
    PROVE  UInv'
<1>1. /\ task.pc = "walk" /\ touched' = touched \cup {n}
      /\ UNCHANGED <<walk, fs_usage, task>>
  BY DEF Unlink, Create, Happens
<1>2. WalkInv /\ fs_usage = {} /\ TreeInv
  BY <1>1 DEF UInv
<1>3. TreeInv'
  <2>1. CASE Unlink(n)
    <3>1. n \in tree \ {Base} /\ tree' = tree \ {n} /\ \A m \in tree : Parent[m] # n
      BY <2>1 DEF Unlink
    <3> QED BY <1>1, <1>2, <3>1 DEF TreeInv, Nodes, Base
  <2>2. CASE Create(n)
    <3>1. n \notin tree /\ tree' = tree \cup {n} /\ Parent[n] \in tree
      BY <2>2 DEF Create
    <3> QED BY <1>1, <1>2, <3>1 DEF TreeInv, Nodes, Base
  <2> QED BY <2>1, <2>2
<1>4. WalkInv'
  <2>1. PICK V, C : /\ Placed(V, C, Range(walk.stack), walk.entries)
                    /\ Tallied(V, C, walk.seen, walk.bytes)
    BY <1>2 DEF WalkInv, WalkedSo
  <2>2. touched \subseteq touched'
    BY <1>1
  <2>3. /\ Placed(V, C, Range(walk.stack), walk.entries)'
        /\ Tallied(V, C, walk.seen, walk.bytes)'
    <3>1. PICK P, E, seen, bytes : /\ P = Range(walk.stack) /\ E = walk.entries
                                   /\ seen = walk.seen /\ bytes = walk.bytes
      OBVIOUS
    <3>2. Placed(V, C, P, E)' /\ Tallied(V, C, seen, bytes)'
      BY <2>1, <2>2, <3>1, TouchKeeps
    <3> QED BY <1>1, <3>1, <3>2 DEF Placed, Tallied, Unsteady
  <2>4. WalkedSo(walk.stack, walk.entries, walk.seen, walk.bytes)'
    BY <2>3, Zenon DEF WalkedSo
  <2>5. WalkType'
    BY <1>1, <1>2 DEF WalkInv, WalkType, Nodes
  <2> QED BY <2>4, <2>5 DEF WalkInv
<1>5. UsageIsOfTheTree'
  BY <1>1, <1>2 DEF UsageIsOfTheTree
<1> QED BY <1>1, <1>2, <1>3, <1>4, <1>5 DEF UInv

\* The walk begins at the layer's own directory.
LEMMA TopKeeps ==
    ASSUME UInv, SInv, Top
    PROVE  UInv'
<1>1. /\ UNCHANGED <<tree, touched, fs_usage>>
      /\ TaskType /\ TreeInv /\ UsageIsOfTheTree
  BY DEF Top, UInv, SInv, SamplingTypes
<1>2. TreeInv' /\ UsageIsOfTheTree'
  BY <1>1, UsageStays DEF TreeInv, Nodes, Base
<1>3. CASE kind = "runtime" /\ fs_usage = {}
  <2>1. walk' = [bytes |-> 0, seen |-> {}, stack |-> <<Base>>, entries |-> {}]
    BY <1>3 DEF Top, NoWalk
  <2>2. Range(<<Base>>) = {Base} /\ <<Base>> \in Seq(Nodes) /\ Len(<<Base>>) = 1
    BY TreeType DEF Range
  <2>3. Placed({}, {}, {Base}, {})
    BY TreeType DEF Placed
  <2>4. Tallied({}, {}, {}, 0)
    BY BlocksOfOne DEF Tallied
  <2>5. WalkedSo(<<Base>>, {}, {}, 0)
    BY <2>2, <2>3, <2>4 DEF WalkedSo
  <2>6. WalkedSo(walk.stack, walk.entries, walk.seen, walk.bytes)'
    BY <1>1, <2>1, <2>5 DEF WalkedSo, Placed, Tallied, Unsteady
  <2>7. WalkType'
    BY <2>1, <2>2 DEF WalkType, Nodes, Base
  <2> QED BY <1>1, <1>2, <1>3, <2>6, <2>7 DEF UInv, WalkInv
<1>4. CASE ~(kind = "runtime" /\ fs_usage = {})
  <2>1. task' = [task EXCEPT !.pc = "begin"]
    BY <1>4 DEF Top
  <2>2. task'.pc = "begin"
    BY <1>1, <2>1 DEF TaskType
  <2> QED BY <1>2, <2>2 DEF UInv
<1> QED BY <1>3, <1>4

\* The walk ends.
LEMMA EndKeeps ==
    ASSUME UInv, SInv, WalkEnds
    PROVE  UInv'
<1>1. /\ UNCHANGED <<tree, touched>> /\ fs_usage' = {walk.bytes}
      /\ task.pc = "walk" /\ walk.stack = <<>> /\ walk.entries = {}
      /\ task' = [task EXCEPT !.pc = "begin"]
  BY DEF WalkEnds
<1>2. TaskType /\ TreeInv /\ WalkInv
  BY <1>1 DEF UInv, SInv, SamplingTypes
<1>3. TreeInv'
  BY <1>1, <1>2 DEF TreeInv, Nodes, Base
<1>4. task'.pc = "begin"
  BY <1>1, <1>2 DEF TaskType
<1>5. PICK V, C : Placed(V, C, {}, {}) /\ Tallied(V, C, walk.seen, walk.bytes)
  <2>1. Range(<<>>) = {}
    BY DEF Range
  <2> QED BY <1>1, <1>2, <2>1 DEF WalkInv, WalkedSo
<1>6. PICK seen, bytes : seen = walk.seen /\ bytes = walk.bytes
  OBVIOUS
<1>7. Tallied(V, C, seen, bytes)' /\ Placed(V, C, {}, {})' /\ fs_usage' = {bytes}
  BY <1>1, <1>5, <1>6 DEF Tallied, Placed, Unsteady
<1>8. Finished'
  BY <1>7 DEF Finished
<1>9. (TreeInv /\ Finished => UsageIsOfTheTree)'
  BY WalkIsRight, PTL
<1> QED BY <1>3, <1>4, <1>8, <1>9 DEF UInv

\* No other step is of the walk.
LEMMA RestKeeps ==
    ASSUME UInv, UNCHANGED walkVars, task' = task \/ task'.pc # "walk"
    PROVE  UInv'
<1>1. UNCHANGED <<tree, touched, walk, fs_usage>>
  BY DEF walkVars
<1>2. TreeInv' /\ UsageIsOfTheTree'
  BY <1>1, UsageStays DEF UInv, TreeInv, Nodes, Base
<1>3. WalkInv => WalkInv'
  BY <1>1 DEF WalkInv, WalkType, WalkedSo, Placed, Tallied, Unsteady, Nodes
<1> QED BY <1>1, <1>2, <1>3 DEF UInv

\* Every step keeps what is known of the walk.
LEMMA UsageStep ==
    ASSUME UInv, SInv, [SamplingNext]_samplingVars
    PROVE  UInv'
<1>0. TaskType
  BY DEF SInv, SamplingTypes
<1>1. CASE Top \/ WalkEnds
  BY <1>1, TopKeeps, EndKeeps
<1>2. CASE PopDirectory \/ \E n \in Nodes : VisitEntry(n)
  <2>1. UNCHANGED <<tree, touched, fs_usage, task>> /\ task.pc = "walk"
    BY <1>2 DEF PopDirectory, VisitEntry
  <2>2. WalkInv /\ TreeInv /\ fs_usage = {} /\ UsageIsOfTheTree
    BY <2>1 DEF UInv
  <2>3. WalkInv'
    BY <1>2, <2>2, PopStep, VisitStep
  <2>4. TreeInv' /\ UsageIsOfTheTree'
    BY <2>1, <2>2, UsageStays DEF TreeInv, Nodes, Base
  <2> QED BY <2>1, <2>2, <2>3, <2>4 DEF UInv
<1>3. CASE (\E t \in Times : Begin(t)) \/ ReadFails \/ CheckExists \/ PushSample
  <2>1. UNCHANGED walkVars /\ task'.pc # "walk"
    BY <1>3 DEF Begin, ReadFails, CheckExists, PushSample, Reads, Reading
  <2> QED BY <2>1, RestKeeps
<1>4. CASE ReadCpu \/ ReadCurrent \/ ReadStat
  <2>1. UNCHANGED walkVars /\ task'.pc # "walk"
    BY <1>0, <1>4 DEF ReadCpu, ReadCurrent, ReadStat, Reads, TaskType
  <2> QED BY <2>1, RestKeeps
<1>5. CASE FillRest
  <2>1. UNCHANGED walkVars
    BY <1>5 DEF FillRest, Reads
  <2>2. task'.pc # "walk"
    BY <1>0, <1>5 DEF FillRest, TaskType
  <2> QED BY <2>1, <2>2, RestKeeps
<1>6. CASE \/ Work \/ Vanish \/ (\E n \in 0..MemTotal : Remember(n)) \/ (\E m \in BOOLEAN : Reappear(m))
           \/ (\E line \in Mountable : Mount(line)) \/ (\E i \in DOMAIN mounts : Unmount(i))
  <2>1. UNCHANGED walkVars /\ task' = task
    BY <1>6 DEF Work, Vanish, Remember, Reappear, Mount, Unmount, MountsChange, Happens, walkVars
  <2> QED BY <2>1, RestKeeps
<1>7. CASE \E n \in Nodes : Unlink(n) \/ Create(n)
  BY <1>7, TreeKeeps
<1>8. CASE UNCHANGED samplingVars
  <2>1. UNCHANGED walkVars /\ task' = task
    BY <1>8 DEF samplingVars
  <2> QED BY <2>1, RestKeeps
<1> QED BY <1>1, <1>2, <1>3, <1>4, <1>5, <1>6, <1>7, <1>8 DEF SamplingNext, LoopStep

\* Nothing has come or gone at the start, and nothing been walked.
LEMMA UsageStart ==
    ASSUME SamplingInit
    PROVE  UInv
<1>1. tree = Nodes /\ touched = {} /\ fs_usage = {} /\ task.pc = "top"
  BY DEF SamplingInit, Reading
<1>2. TreeInv
  BY <1>1, TreeType DEF TreeInv
<1>3. UsageIsOfTheTree
  BY <1>1 DEF UsageIsOfTheTree
<1> QED BY <1>1, <1>2, <1>3 DEF UInv

\* The disk usage of a writable layer is that of its inodes on the layer's
\* device, each counted once, whatever the tree is, however the walk goes
\* through it, and but for what comes and goes meanwhile (dir_usage).
THEOREM SamplingUsageIsRight == SamplingSpec => []UsageIsOfTheTree
<1>1. UInv /\ SInv /\ [SamplingNext]_samplingVars => UInv'
  BY UsageStep
<1>2. UInv => UsageIsOfTheTree
  BY DEF UInv
<1> QED BY <1>1, <1>2, UsageStart, SamplingInvariant, PTL DEF SamplingSpec
=============================================================================
