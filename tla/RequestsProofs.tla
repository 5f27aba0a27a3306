--------------------------- MODULE RequestsProofs ---------------------------
(***************************************************************************)
(* Proofs about the server: Requests, for any hierarchy of cgroups, any    *)
(* requests and any changes meanwhile - what an answer tells; and Serving, *)
(* for any command lines, clients, tokens and contents of the token file - *)
(* what require_bearer and the order of main's startup steps guarantee.    *)
(***************************************************************************)
EXTENDS Requests, Serving, SequenceTheorems, FiniteSetTheorems, WellFoundedInduction,
        NaturalsInduction, TLAPS
-----------------------------------------------------------------------------
(* The names of containers: what the tests of strings in the code mean for *)
(* paths.  A segment is a directory's name or a part of a request.         *)

Word == Seq(Chars)

\* A slash is a character.
LEMMA CharsAssumption == "/" \in Chars
BY PathsAssumption

\* A set of naturals that has 0 and, with a number, the next one has them all.
LEMMA Induction ==
    ASSUME NEW S \in SUBSET Nat, 0 \in S, \A n \in S : n + 1 \in S
    PROVE  S = Nat
<1> SUFFICES ASSUME Nat \ S # {} PROVE FALSE
  OBVIOUS
<1>0. Nat \ S \in SUBSET Nat
  OBVIOUS
<1>1. PICK m \in Nat : m \notin S /\ \A k \in Nat \ S : ~(<<k, m>> \in OpToRel(<, Nat))
  BY <1>0, NatLessThanWellFounded, WFMin
<1>2. m - 1 \in S
  <2>0. m \notin S
    BY <1>1, Zenon
  <2>1. m # 0 /\ m - 1 \in Nat /\ m - 1 < m
    BY <2>0
  <2>2. <<m - 1, m>> \in Nat \X Nat /\ <<m - 1, m>>[1] = m - 1 /\ <<m - 1, m>>[2] = m
    BY <2>1
  <2>3. <<m - 1, m>> \in OpToRel(<, Nat)
    BY <2>1, <2>2, Zenon DEF OpToRel
  <2> QED
    BY <1>1, <2>1, <2>3, Zenon
<1>3. (m - 1) + 1 = m
  OBVIOUS
<1> QED
  BY <1>1, <1>2, <1>3, Zenon

\* The function FlattenSeq builds, on the first n of the sequences s.
Flattening(s, n, f) == f = [i \in 1..n |-> IF i = 1 THEN s[i] ELSE f[i - 1] \o s[i]]

\* There is one such function: two agree wherever both are defined.
LEMMA FlatteningUnique ==
    ASSUME NEW s, NEW u, NEW f, NEW g, NEW n \in Nat, NEW m \in Nat, n <= m,
           \A i \in 1..n : s[i] = u[i], Flattening(s, n, f), Flattening(u, m, g),
           NEW k \in 1..n
    PROVE  f[k] = g[k]
<1> DEFINE T == {i \in Nat : i \in 1..n => f[i] = g[i]}
<1>0. /\ \A k1 \in 1..n : f[k1] = IF k1 = 1 THEN s[k1] ELSE f[k1 - 1] \o s[k1]
      /\ \A k1 \in 1..m : g[k1] = IF k1 = 1 THEN u[k1] ELSE g[k1 - 1] \o u[k1]
  BY Zenon DEF Flattening
<1>1. 0 \in T
  OBVIOUS
<1>2. ASSUME NEW i \in T PROVE i + 1 \in T
  <2> SUFFICES ASSUME i + 1 \in 1..n PROVE f[i + 1] = g[i + 1]
    OBVIOUS
  <2>1. i + 1 \in 1..m /\ (i + 1) - 1 = i /\ s[i + 1] = u[i + 1]
    OBVIOUS
  <2>2. f[i + 1] = IF i + 1 = 1 THEN s[i + 1] ELSE f[i] \o s[i + 1]
    BY <1>0, <2>1
  <2>3. g[i + 1] = IF i + 1 = 1 THEN u[i + 1] ELSE g[i] \o u[i + 1]
    BY <1>0, <2>1
  <2>4. i + 1 # 1 => f[i] = g[i]
    <3>1. i + 1 # 1 => i \in 1..n
      OBVIOUS
    <3>2. i \in 1..n => f[i] = g[i]
      OBVIOUS
    <3> QED
      BY <3>1, <3>2, Zenon
  <2> QED
    BY <2>1, <2>2, <2>3, <2>4
<1>3. T = Nat
  <2> HIDE DEF T
  <2>1. T \in SUBSET Nat
    BY DEF T
  <2> QED
    BY <1>1, <1>2, <2>1, Induction
<1> QED
  BY <1>3

\* There is such a function for every number of sequences.
LEMMA FlatteningExists ==
    ASSUME NEW s, NEW n \in Nat
    PROVE  \E f : Flattening(s, n, f)
<1> DEFINE T == {k \in Nat : \E f : Flattening(s, k, f)}
<1>1. 0 \in T
  <2> DEFINE f == [i \in 1..0 |-> s[i]]
  <2>1. Flattening(s, 0, f)
    BY DEF Flattening
  <2> QED
    BY <2>1
<1>2. ASSUME NEW k \in T PROVE k + 1 \in T
  <2>1. PICK f : Flattening(s, k, f)
    OBVIOUS
  <2> DEFINE E(i) == IF i <= k THEN f[i] ELSE IF i = 1 THEN s[i] ELSE f[i - 1] \o s[i]
             g == [i \in 1..(k + 1) |-> E(i)]
  <2>2. \A i \in 1..(k + 1) : E(i) = IF i = 1 THEN s[i] ELSE g[i - 1] \o s[i]
    <3> SUFFICES ASSUME NEW i \in 1..(k + 1) PROVE E(i) = IF i = 1 THEN s[i] ELSE g[i - 1] \o s[i]
      OBVIOUS
    <3>1. ASSUME i \in 1..k PROVE f[i] = IF i = 1 THEN s[i] ELSE f[i - 1] \o s[i]
      BY <2>1, <3>1 DEF Flattening
    <3>2. i # 1 => i - 1 \in 1..k /\ i - 1 \in 1..(k + 1) /\ i - 1 <= k
      OBVIOUS
    <3>3. i # 1 => g[i - 1] = f[i - 1]
      BY <3>2
    <3>4. i \in 1..k <=> i <= k
      OBVIOUS
    <3> HIDE DEF g
    <3> QED
      BY <3>1, <3>3, <3>4
  <2>3. g = [i \in 1..(k + 1) |-> IF i = 1 THEN s[i] ELSE g[i - 1] \o s[i]]
    <3> HIDE DEF E
    <3> QED
      BY <2>2, Zenon
  <2>4. Flattening(s, k + 1, g)
    BY <2>3 DEF Flattening
  <2> QED
    BY <2>4
<1>3. T = Nat
  <2> HIDE DEF T
  <2>1. T \in SUBSET Nat
    BY DEF T
  <2> QED
    BY <1>1, <1>2, <2>1, Induction
<1> QED
  BY <1>3

\* FlattenSeq is the last value of that function.
LEMMA FlattenByFlattening ==
    ASSUME NEW s, Len(s) \in Nat \ {0}
    PROVE  \E f : Flattening(s, Len(s), f) /\ FlattenSeq(s) = f[Len(s)]
<1> DEFINE f == CHOOSE f : f = [i \in 1..Len(s) |-> IF i = 1 THEN s[i] ELSE f[i - 1] \o s[i]]
<1>1. PICK g : g = [i \in 1..Len(s) |-> IF i = 1 THEN s[i] ELSE g[i - 1] \o s[i]]
  BY FlatteningExists DEF Flattening
<1>2. f = [i \in 1..Len(s) |-> IF i = 1 THEN s[i] ELSE f[i - 1] \o s[i]]
  BY <1>1, Zenon
<1>3. FlattenSeq(s) = f[Len(s)]
  BY Zenon DEF FlattenSeq
<1> QED
  BY <1>2, <1>3, Zenon DEF Flattening

\* FlattenSeq, one sequence more.
LEMMA FlattenAppend ==
    ASSUME NEW S, NEW s \in Seq(Seq(S)), NEW t \in Seq(S)
    PROVE  FlattenSeq(Append(s, t)) = FlattenSeq(s) \o t
<1> DEFINE u == Append(s, t)
<1>0. PICK n \in Nat : n = Len(s)
  BY LenProperties
<1>1. /\ Len(u) = n + 1 /\ u[n + 1] = t
      /\ \A i \in 1..n : s[i] = u[i]
  BY <1>0, AppendProperties, LenProperties
<1> HIDE DEF u
<1>2. PICK g : Flattening(u, n + 1, g) /\ FlattenSeq(u) = g[n + 1]
  <2>1. Len(u) \in Nat \ {0}
    BY <1>1
  <2> QED
    BY <1>1, <2>1, FlattenByFlattening
<1>3. g[n + 1] = IF n + 1 = 1 THEN u[n + 1] ELSE g[(n + 1) - 1] \o u[n + 1]
  <2>1. n + 1 \in 1..(n + 1)
    OBVIOUS
  <2> QED
    BY <1>2, <2>1, Zenon DEF Flattening
<1>4. CASE n = 0
  <2>1. s = <<>>
    BY <1>0, <1>4, EmptySeq
  <2>2. FlattenSeq(s) = <<>>
    BY <2>1, EmptySeq DEF FlattenSeq
  <2>3. <<>> \o t = t
    BY ConcatEmptySeq
  <2> QED
    BY <1>0, <1>1, <1>2, <1>3, <1>4, <2>2, <2>3 DEF u
<1>5. CASE n # 0
  <2>1. PICK f : Flattening(s, n, f) /\ FlattenSeq(s) = f[n]
    BY <1>0, <1>5, FlattenByFlattening
  <2>2. \A i \in 1..n : f[i] = g[i]
    <3>1. n + 1 \in Nat /\ n <= n + 1
      OBVIOUS
    <3>2. \A i \in 1..n : s[i] = u[i]
      BY <1>1
    <3>3. Flattening(s, n, f) /\ Flattening(u, n + 1, g)
      BY <1>2, <2>1
    <3> QED
      BY <3>1, <3>2, <3>3, FlatteningUnique
  <2>3. (n + 1) - 1 = n /\ n + 1 # 1 /\ n \in 1..n
    BY <1>5
  <2> QED
    BY <1>0, <1>1, <1>2, <1>3, <2>1, <2>2, <2>3 DEF u
<1> QED
  BY <1>4, <1>5
-----------------------------------------------------------------------------
Slash == <<"/">>

\* A segment after its slash is a word.
LEMMA SlashedIsWord ==
    ASSUME NEW s \in Word
    PROVE  /\ Slash \in Word /\ Slash \o s \in Word /\ Len(Slash \o s) = Len(s) + 1
           /\ (Slash \o s)[1] = "/" /\ \A i \in 1..Len(s) : (Slash \o s)[i + 1] = s[i]
BY CharsAssumption DEF Slash, Word

\* Words concatenated are a word, as long as both.
LEMMA Concatenated ==
    ASSUME NEW x \in Word, NEW y \in Word
    PROVE  /\ x \o y \in Word /\ Len(x) \in Nat /\ Len(y) \in Nat /\ Len(x \o y) = Len(x) + Len(y)
           /\ \A k \in 1..Len(x) : (x \o y)[k] = x[k]
           /\ \A k \in 1..Len(y) : (x \o y)[Len(x) + k] = y[k]
BY ConcatProperties, LenProperties DEF Word

\* Concatenation is associative.
LEMMA Associative ==
    ASSUME NEW x \in Word, NEW y \in Word, NEW z \in Word
    PROVE  (x \o y) \o z = x \o (y \o z)
BY ConcatAssociative DEF Word

\* Words of one length with the same characters are the same.
LEMMA SameWord ==
    ASSUME NEW x \in Word, NEW y \in Word, Len(x) = Len(y), \A k \in 1..Len(x) : x[k] = y[k]
    PROVE  x = y
BY SeqEqual DEF Word

\* Segments are words.
LEMMA SegmentIsWord == Segment \subseteq Word /\ Seq(Segment) \subseteq Seq(Word)
BY SeqMonotonic, CharsAssumption DEF Segment, Word

\* No segments join to nothing.
LEMMA JoinedEmpty == Joined(<<>>) = <<>>
BY EmptySeq DEF Joined, FlattenSeq

\* One segment more is a slash and its characters more.
LEMMA JoinedAppend ==
    ASSUME NEW a \in Seq(Word), NEW s \in Word
    PROVE  Joined(Append(a, s)) = Joined(a) \o (Slash \o s)
<1> DEFINE b == Append(a, s)
           slashed == [i \in DOMAIN a |-> <<"/">> \o a[i]]
           more == [i \in DOMAIN b |-> <<"/">> \o b[i]]
<1>1. /\ Len(a) \in Nat /\ DOMAIN a = 1..Len(a) /\ \A i \in 1..Len(a) : a[i] \in Word
      /\ b \in Seq(Word) /\ Len(b) = Len(a) + 1 /\ DOMAIN b = 1..(Len(a) + 1)
      /\ b[Len(a) + 1] = s /\ \A i \in 1..Len(a) : b[i] = a[i]
  BY AppendProperties, LenProperties, ElementOfSeq
<1>2. slashed \in Seq(Word) /\ Len(slashed) = Len(a)
  BY <1>1, SlashedIsWord DEF Slash
<1>3. more = Append(slashed, Slash \o s)
  <2>1. more \in Seq(Word) /\ Len(more) = Len(a) + 1
    BY <1>1, SlashedIsWord DEF Slash
  <2>2. Append(slashed, Slash \o s) \in Seq(Word) /\ Len(Append(slashed, Slash \o s)) = Len(a) + 1
    BY <1>2, SlashedIsWord, AppendProperties
  <2>3. ASSUME NEW i \in 1..(Len(a) + 1) PROVE more[i] = Append(slashed, Slash \o s)[i]
    BY <1>1, <1>2, SlashedIsWord, AppendProperties DEF Slash
  <2> HIDE DEF more, slashed
  <2> QED
    BY <2>1, <2>2, <2>3, SeqEqual
<1> QED
  BY <1>2, <1>3, SlashedIsWord, FlattenAppend DEF Joined, Word

\* What holds of the empty sequence, and of a sequence with one element more,
\* holds of all.
LEMMA SeqInduction ==
    ASSUME NEW S, NEW T \in SUBSET Seq(S), <<>> \in T, \A a \in T : \A s \in S : Append(a, s) \in T
    PROVE  T = Seq(S)
<1> DEFINE N == {n \in Nat : \A a \in Seq(S) : Len(a) = n => a \in T}
<1>1. 0 \in N
  BY EmptySeq
<1>2. ASSUME NEW n \in N PROVE n + 1 \in N
  <2> SUFFICES ASSUME NEW a \in Seq(S), Len(a) = n + 1 PROVE a \in T
    OBVIOUS
  <2>1. a # <<>>
    BY EmptySeq
  <2>2. PICK b \in Seq(S), s \in S : a = Append(b, s)
    BY <2>1, SequenceEmptyOrAppend
  <2>3. Len(b) = n
    BY <2>2, AppendProperties, LenProperties
  <2> QED
    BY <2>2, <2>3
<1>3. N = Nat
  <2> HIDE DEF N
  <2>1. N \in SUBSET Nat
    BY DEF N
  <2> QED
    BY <1>1, <1>2, <2>1, Induction
<1> QED
  BY <1>3, LenProperties

\* Joined segments are a word, which begins with a slash.
LEMMA JoinedIsWord ==
    ASSUME NEW a \in Seq(Word)
    PROVE  Joined(a) \in Word /\ (a # <<>> => Joined(a) # <<>> /\ Joined(a)[1] = "/")
<1> DEFINE T == {b \in Seq(Word) : Joined(b) \in Word /\ (b # <<>> => Joined(b) # <<>> /\ Joined(b)[1] = "/")}
<1>1. <<>> \in T
  BY JoinedEmpty, EmptySeq DEF Word
<1>2. ASSUME NEW b \in T, NEW s \in Word PROVE Append(b, s) \in T
  <2>1. Append(b, s) \in Seq(Word) /\ Joined(Append(b, s)) = Joined(b) \o (Slash \o s)
    BY JoinedAppend, AppendProperties
  <2>2. Slash \o s \in Word /\ Len(Slash \o s) > 0 /\ (Slash \o s)[1] = "/"
    BY SlashedIsWord, LenProperties DEF Word
  <2>3. Joined(b) \in Word /\ Len(Joined(b)) \in Nat /\ (Len(Joined(b)) > 0 => Joined(b)[1] = "/")
    BY JoinedEmpty, EmptySeq, LenProperties DEF Word
  <2>4. /\ Joined(b) \o (Slash \o s) \in Word /\ Len(Joined(b) \o (Slash \o s)) > 0
        /\ (Joined(b) \o (Slash \o s))[1] = "/"
    BY <2>2, <2>3, ConcatProperties, LenProperties DEF Word
  <2>5. Joined(b) \o (Slash \o s) # <<>>
    BY <2>4, EmptySeq
  <2> QED
    BY <2>1, <2>4, <2>5
<1>3. T = Seq(Word)
  <2> HIDE DEF T
  <2>1. T \in SUBSET Seq(Word)
    BY DEF T
  <2> QED
    BY <1>1, <1>2, <2>1, SeqInduction
<1> QED
  BY <1>3

\* Segments joined in two parts.
LEMMA JoinedConcat ==
    ASSUME NEW a \in Seq(Word), NEW b \in Seq(Word)
    PROVE  Joined(a \o b) = Joined(a) \o Joined(b)
<1> DEFINE T == {c \in Seq(Word) : Joined(a \o c) = Joined(a) \o Joined(c)}
<1>1. <<>> \in T
  BY JoinedEmpty, JoinedIsWord, ConcatEmptySeq, EmptySeq DEF Word
<1>2. ASSUME NEW c \in T, NEW s \in Word PROVE Append(c, s) \in T
  <2>1. a \o Append(c, s) = Append(a \o c, s)
    <3>1. a \o (c \o <<s>>) = (a \o c) \o <<s>> /\ a \o c \in Seq(Word) /\ <<s>> \in Seq(Word)
      BY ConcatAssociative, ConcatProperties
    <3> QED
      BY <3>1, AppendIsConcat
  <2>2. Joined(Append(a \o c, s)) = Joined(a \o c) \o (Slash \o s)
    BY ConcatProperties, JoinedAppend
  <2>3. Joined(a) \o (Joined(c) \o (Slash \o s)) = (Joined(a) \o Joined(c)) \o (Slash \o s)
    <3>1. Joined(a) \in Word /\ Joined(c) \in Word /\ Slash \o s \in Word
      BY JoinedIsWord, SlashedIsWord
    <3> HIDE DEF T
    <3> QED
      BY <3>1, Associative
  <2>4. Joined(Append(c, s)) = Joined(c) \o (Slash \o s) /\ Append(c, s) \in Seq(Word)
    BY JoinedAppend, AppendProperties
  <2> QED
    BY <2>1, <2>2, <2>3, <2>4
<1>3. T = Seq(Word)
  <2> HIDE DEF T
  <2>1. T \in SUBSET Seq(Word)
    BY DEF T
  <2> QED
    BY <1>1, <1>2, <2>1, SeqInduction
<1> QED
  BY <1>3

\* A word that is empty or goes on with a slash.
AtSlash(w) == w = <<>> \/ w[1] = "/"

\* A word, a slash and another word, character by character.
LEMMA Slashed ==
    ASSUME NEW x \in Word, NEW r \in Word
    PROVE  /\ x \o (Slash \o r) \in Word /\ Len(x \o (Slash \o r)) = Len(x) + 1 + Len(r)
           /\ (x \o (Slash \o r))[Len(x) + 1] = "/"
           /\ \A k \in 1..Len(x) : (x \o (Slash \o r))[k] = x[k]
           /\ \A k \in 1..Len(r) : (x \o (Slash \o r))[Len(x) + 1 + k] = r[k]
<1>1. /\ Slash \o r \in Word /\ Len(Slash \o r) = Len(r) + 1 /\ (Slash \o r)[1] = "/"
      /\ \A k \in 1..Len(r) : (Slash \o r)[k + 1] = r[k]
  BY SlashedIsWord
<1>2. PICK v \in Word : v = Slash \o r
  BY <1>1
<1>3. PICK w : w = x \o v
  OBVIOUS
<1>4. /\ w \in Word /\ Len(x) \in Nat /\ Len(v) \in Nat /\ Len(w) = Len(x) + Len(v)
      /\ \A k \in 1..Len(x) : w[k] = x[k]
      /\ \A k \in 1..Len(v) : w[Len(x) + k] = v[k]
  BY <1>3, Concatenated
<1>5. Len(r) \in Nat
  BY LenProperties DEF Word
<1>6. ASSUME NEW k \in 1..Len(r) PROVE w[Len(x) + 1 + k] = r[k]
  <2>1. k + 1 \in 1..Len(v) /\ Len(x) + (k + 1) = Len(x) + 1 + k
    BY <1>1, <1>2, <1>4, <1>5
  <2> QED
    BY <1>1, <1>2, <1>4, <2>1
<1>7. w[Len(x) + 1] = "/"
  BY <1>1, <1>2, <1>4, <1>5
<1> QED
  BY <1>1, <1>2, <1>3, <1>4, <1>5, <1>6, <1>7

\* The last slash of a joined word is where its last segment begins.
LEMMA LastSlash ==
    ASSUME NEW x \in Word, NEW y \in Word, NEW r \in Segment, NEW s \in Segment,
           x \o (Slash \o r) = y \o (Slash \o s)
    PROVE  x = y /\ r = s
<1>1. r \in Word /\ s \in Word
  BY SegmentIsWord
<1>2. PICK l \in Nat, m \in Nat, i \in Nat, j \in Nat : Len(x) = l /\ Len(y) = m /\ Len(r) = i /\ Len(s) = j
  BY <1>1, LenProperties DEF Word
<1>3. PICK w : w = x \o (Slash \o r) /\ w = y \o (Slash \o s)
  OBVIOUS
<1>4. /\ Len(w) = l + 1 + i /\ w[l + 1] = "/"
      /\ \A k \in 1..l : w[k] = x[k]
      /\ \A k \in 1..i : w[l + 1 + k] = r[k]
  <2>1. PICK v : v = x \o (Slash \o r)
    OBVIOUS
  <2>2. /\ Len(v) = Len(x) + 1 + Len(r) /\ v[Len(x) + 1] = "/"
        /\ \A k \in 1..Len(x) : v[k] = x[k]
        /\ \A k \in 1..Len(r) : v[Len(x) + 1 + k] = r[k]
    BY <1>1, <2>1, Slashed
  <2>3. v = w
    BY <1>3, <2>1
  <2> QED
    BY <1>2, <2>2, <2>3
<1>5. /\ Len(w) = m + 1 + j /\ w[m + 1] = "/"
      /\ \A k \in 1..m : w[k] = y[k]
      /\ \A k \in 1..j : w[m + 1 + k] = s[k]
  <2>1. PICK v : v = y \o (Slash \o s)
    OBVIOUS
  <2>2. /\ Len(v) = Len(y) + 1 + Len(s) /\ v[Len(y) + 1] = "/"
        /\ \A k \in 1..Len(y) : v[k] = y[k]
        /\ \A k \in 1..Len(s) : v[Len(y) + 1 + k] = s[k]
    BY <1>1, <2>1, Slashed
  <2>3. v = w
    BY <1>3, <2>1
  <2> QED
    BY <1>2, <2>2, <2>3
<1>6. (\A k \in 1..i : r[k] # "/") /\ (\A k \in 1..j : s[k] # "/")
  BY <1>2, ElementOfSeq DEF Segment
<1>7. l = m
  <2>1. CASE l < m
    <3>1. m - l \in 1..i /\ m + 1 = l + 1 + (m - l)
      BY <1>4, <1>5, <2>1
    <3>2. w[l + 1 + (m - l)] = r[m - l] /\ r[m - l] # "/"
      BY <1>4, <1>6, <3>1
    <3> QED
      BY <1>5, <3>1, <3>2
  <2>2. CASE m < l
    <3>1. l - m \in 1..j /\ l + 1 = m + 1 + (l - m)
      BY <1>4, <1>5, <2>2
    <3>2. w[m + 1 + (l - m)] = s[l - m] /\ s[l - m] # "/"
      BY <1>5, <1>6, <3>1
    <3> QED
      BY <1>4, <3>1, <3>2
  <2> QED
    BY <2>1, <2>2
<1>8. x = y
  <2>1. \A k \in 1..l : x[k] = y[k]
    BY <1>4, <1>5, <1>7
  <2> QED
    BY <1>2, <1>7, <2>1, SameWord
<1>9. i = j
  BY <1>4, <1>5, <1>7
<1>10. r = s
  <2>1. \A k \in 1..i : r[k] = s[k]
    BY <1>4, <1>5, <1>7, <1>9
  <2> QED
    BY <1>1, <1>2, <1>9, <2>1, SameWord
<1> QED
  BY <1>8, <1>10

\* A path is told by what joins its segments, even if some of them are empty.
LEMMA JoinedInjective ==
    ASSUME NEW a \in Seq(Segment), NEW b \in Seq(Segment), Joined(a) = Joined(b)
    PROVE  a = b
<1> DEFINE T == {c \in Seq(Segment) : \A d \in Seq(Segment) : Joined(c) = Joined(d) => c = d}
<1>1. <<>> \in T
  BY JoinedEmpty, JoinedIsWord, SegmentIsWord, EmptySeq
<1>2. ASSUME NEW c \in T, NEW s \in Segment PROVE Append(c, s) \in T
  <2>1. Append(c, s) \in Seq(Segment)
    BY AppendProperties
  <2>2. Joined(Append(c, s)) = Joined(c) \o (Slash \o s) /\ Joined(c) \in Word
    BY JoinedAppend, JoinedIsWord, SegmentIsWord
  <2>3. ASSUME NEW d \in Seq(Segment), Joined(Append(c, s)) = Joined(d) PROVE Append(c, s) = d
    <3>1. Joined(Append(c, s)) # <<>>
      BY <2>1, JoinedIsWord, SegmentIsWord, AppendProperties
    <3>2. d # <<>>
      BY <2>3, <3>1, JoinedEmpty
    <3>3. PICK e \in Seq(Segment), r \in Segment : d = Append(e, r)
      BY <3>2, SequenceEmptyOrAppend
    <3>4. Joined(d) = Joined(e) \o (Slash \o r) /\ Joined(e) \in Word
      BY <3>3, JoinedAppend, JoinedIsWord, SegmentIsWord
    <3>5. Joined(c) \o (Slash \o s) = Joined(e) \o (Slash \o r)
      BY <2>2, <2>3, <3>4
    <3>6. Joined(c) = Joined(e) /\ s = r
      <4>1. PICK x \in Word, y \in Word : x = Joined(c) /\ y = Joined(e)
        BY <2>2, <3>4
      <4>2. x \o (Slash \o s) = y \o (Slash \o r)
        BY <3>5, <4>1
      <4>3. x = y /\ s = r
        BY <4>2, LastSlash
      <4> QED
        BY <4>1, <4>3
    <3> QED
      BY <3>3, <3>6
  <2> QED
    BY <2>1, <2>3
<1>3. T = Seq(Segment)
  <2> HIDE DEF T
  <2>1. T \in SUBSET Seq(Segment)
    BY DEF T
  <2> QED
    BY <1>1, <1>2, <2>1, SeqInduction
<1> QED
  BY <1>3

\* A sequence of segments cut in two.
LEMMA Parts ==
    ASSUME NEW a \in Seq(Segment), NEW k \in 0..Len(a)
    PROVE  /\ SubSeq(a, 1, k) \in Seq(Segment) /\ Len(SubSeq(a, 1, k)) = k
           /\ \A i \in 1..k : SubSeq(a, 1, k)[i] = a[i]
           /\ SubSeq(a, k + 1, Len(a)) \in Seq(Segment) /\ Len(SubSeq(a, k + 1, Len(a))) = Len(a) - k
           /\ \A i \in 1..(Len(a) - k) : SubSeq(a, k + 1, Len(a))[i] = a[k + i]
           /\ a = SubSeq(a, 1, k) \o SubSeq(a, k + 1, Len(a))
<1>1. Len(a) \in Nat /\ \A i \in 1..Len(a) : a[i] \in Segment
  BY LenProperties, ElementOfSeq
<1>2. /\ SubSeq(a, 1, k) \in Seq(Segment) /\ Len(SubSeq(a, 1, k)) = k
      /\ \A i \in 1..k : SubSeq(a, 1, k)[i] = a[i]
  BY <1>1, SubSeqProperties
<1>3. /\ SubSeq(a, k + 1, Len(a)) \in Seq(Segment) /\ Len(SubSeq(a, k + 1, Len(a))) = Len(a) - k
      /\ \A i \in 1..(Len(a) - k) : SubSeq(a, k + 1, Len(a))[i] = a[k + i]
  BY <1>1, SubSeqProperties
<1>4. SubSeq(a, 1, k) \o SubSeq(a, k + 1, Len(a)) = SubSeq(a, 1, Len(a))
  <2>1. 1 \in 1..(Len(a) + 1) /\ k \in (1 - 1)..Len(a) /\ Len(a) \in k..Len(a)
    BY <1>1
  <2> QED
    BY <2>1, ConcatAdjacentSubSeq, Zenon
<1>5. SubSeq(a, 1, Len(a)) = a
  BY SubSeqFull
<1> QED
  BY <1>2, <1>3, <1>4, <1>5

\* A concatenation that is cut elsewhere, later in the second case.
CutLater(x, u, y, v) == \E t \in Word : y = x \o t /\ u = t \o v

\* A word cut at another place.
LEMMA Recut ==
    ASSUME NEW x \in Word, NEW u \in Word, NEW y \in Word, NEW v \in Word, x \o u = y \o v,
           Len(x) <= Len(y)
    PROVE  CutLater(x, u, y, v)
<1>1. PICK w \in Word : w = x \o u /\ w = y \o v
  BY Concatenated
<1>2. /\ Len(x) \in Nat /\ Len(u) \in Nat /\ Len(y) \in Nat /\ Len(v) \in Nat
      /\ Len(w) = Len(x) + Len(u) /\ Len(w) = Len(y) + Len(v)
  BY <1>1, Concatenated
<1>3. /\ \A k \in 1..Len(x) : w[k] = x[k]
      /\ \A k \in 1..Len(u) : w[Len(x) + k] = u[k]
  <2>1. /\ \A k \in 1..Len(x) : (x \o u)[k] = x[k]
        /\ \A k \in 1..Len(u) : (x \o u)[Len(x) + k] = u[k]
    BY Concatenated
  <2> QED
    BY <1>1, <2>1, Zenon
<1>4. \A k \in 1..Len(y) : w[k] = y[k]
  <2>1. \A k \in 1..Len(y) : (y \o v)[k] = y[k]
    BY Concatenated
  <2> QED
    BY <1>1, <2>1, Zenon
<1>5. PICK n \in Nat : n = Len(y) - Len(x)
  <2>1. Len(y) - Len(x) \in Nat
    BY <1>2
  <2> QED
    BY <2>1, Zenon
<1>6. PICK t : t = SubSeq(u, 1, n)
  OBVIOUS
<1>7. t \in Word /\ Len(t) = n /\ \A k \in 1..n : t[k] = u[k]
  <2>1. n <= Len(u) /\ \A k \in 1..Len(u) : u[k] \in Chars
    BY <1>2, <1>5, ElementOfSeq DEF Word
  <2> QED
    BY <1>6, <2>1, SubSeqProperties DEF Word
<1>8. y = x \o t
  <2>1. PICK z \in Word : z = x \o t
    BY <1>7, Concatenated
  <2>2. /\ Len(z) = Len(x) + n
        /\ \A k \in 1..Len(x) : z[k] = x[k]
        /\ \A k \in 1..n : z[Len(x) + k] = t[k]
    <3>1. /\ Len(x \o t) = Len(x) + Len(t)
          /\ \A k \in 1..Len(x) : (x \o t)[k] = x[k]
          /\ \A k \in 1..Len(t) : (x \o t)[Len(x) + k] = t[k]
      BY <1>7, Concatenated
    <3> QED
      BY <1>7, <2>1, <3>1, Zenon
  <2>3. ASSUME NEW k \in 1..Len(y) PROVE y[k] = z[k]
    <3>1. CASE k <= Len(x)
      BY <1>2, <1>3, <1>4, <2>2, <3>1
    <3>2. CASE ~(k <= Len(x))
      <4>1. PICK j \in 1..n : k = Len(x) + j
        <5>1. k - Len(x) \in 1..n /\ k = Len(x) + (k - Len(x))
          BY <1>2, <1>5, <3>2
        <5> QED
          BY <5>1
      <4>2. j \in 1..Len(u)
        BY <1>2, <1>5
      <4>3. w[Len(x) + j] = u[j] /\ z[Len(x) + j] = t[j] /\ t[j] = u[j]
        BY <1>3, <1>7, <2>2, <4>2
      <4> QED
        BY <1>4, <4>1, <4>3
    <3> QED
      BY <3>1, <3>2
  <2>4. Len(y) = Len(z)
    BY <1>2, <1>5, <2>2
  <2>5. y = z
    BY <2>3, <2>4, SameWord
  <2> QED
    BY <2>1, <2>5
<1>9. u = t \o v
  <2>1. PICK z \in Word : z = t \o v
    BY <1>7, Concatenated
  <2>2. /\ Len(z) = n + Len(v) /\ \A k \in 1..n : z[k] = t[k]
        /\ \A k \in 1..Len(v) : z[n + k] = v[k]
    <3>1. t \in Word /\ Len(t) = n
      BY <1>7, Zenon
    <3>2. /\ Len(t \o v) = Len(t) + Len(v) /\ \A k \in 1..Len(t) : (t \o v)[k] = t[k]
          /\ \A k \in 1..Len(v) : (t \o v)[Len(t) + k] = v[k]
      BY <3>1, Concatenated
    <3> QED
      BY <2>1, <3>1, <3>2, Zenon
  <2>3. \A k \in 1..Len(v) : w[Len(y) + k] = v[k]
    <3>1. \A k \in 1..Len(v) : (y \o v)[Len(y) + k] = v[k]
      BY Concatenated
    <3> QED
      BY <1>1, <3>1, Zenon
  <2>4. ASSUME NEW k \in 1..Len(u) PROVE u[k] = z[k]
    <3>1. CASE k <= n
      <4>1. k \in 1..n
        BY <3>1
      <4> QED
        BY <1>7, <2>2, <4>1
    <3>2. CASE ~(k <= n)
      <4>1. PICK j \in 1..Len(v) : k = n + j /\ Len(x) + k = Len(y) + j
        <5>1. k - n \in 1..Len(v) /\ k = n + (k - n) /\ Len(x) + k = Len(y) + (k - n)
          BY <1>2, <1>5, <3>2
        <5> QED
          BY <5>1
      <4>2. u[k] = w[Len(x) + k]
        BY <1>3
      <4>3. w[Len(y) + j] = v[j] /\ z[n + j] = v[j]
        BY <2>2, <2>3
      <4> QED
        BY <4>1, <4>2, <4>3
    <3> QED
      BY <3>1, <3>2
  <2>5. Len(u) = Len(z)
    BY <1>2, <1>5, <2>2
  <2>6. u = z
    BY <2>4, <2>5, SameWord
  <2> QED
    BY <2>1, <2>6
<1> QED
  BY <1>7, <1>8, <1>9 DEF CutLater

\* A joined word that is cut before a slash, or at its end, is cut between two
\* segments.
LEMMA CutBetween ==
    ASSUME NEW a \in Seq(Segment), NEW x \in Word, NEW u \in Word, AtSlash(u), Joined(a) = x \o u
    PROVE  \E k \in 0..Len(a) : x = Joined(SubSeq(a, 1, k))
<1> DEFINE Between(b, y) == \E k \in 0..Len(b) : y = Joined(SubSeq(b, 1, k))
           T == {b \in Seq(Segment) : \A y, v \in Word : AtSlash(v) /\ Joined(b) = y \o v => Between(b, y)}
<1>1. <<>> \in T
  <2>1. ASSUME NEW y \in Word, NEW v \in Word, Joined(<<>>) = y \o v PROVE Between(<<>>, y)
    <3>1. y = <<>>
      BY <2>1, JoinedEmpty, ConcatEqualIffEmpty DEF Word
    <3>2. Len(<<>>) = 0 /\ SubSeq(<<>>, 1, 0) = <<>> /\ 0 \in 0..0
      BY SubSeqEmpty, EmptySeq
    <3> QED
      BY <3>1, <3>2, JoinedEmpty
  <2> HIDE DEF Between
  <2> QED
    BY <2>1, EmptySeq
<1>2. ASSUME NEW b \in T, NEW s \in Segment PROVE Append(b, s) \in T
  <2> DEFINE c == Append(b, s)
  <2>0. b \in Seq(Segment) /\ \A y, v \in Word : AtSlash(v) /\ Joined(b) = y \o v => Between(b, y)
    OBVIOUS
  <2>1. c \in Seq(Segment) /\ Len(c) = Len(b) + 1 /\ Len(b) \in Nat
    BY <2>0, AppendProperties, LenProperties
  <2>2. Joined(c) = Joined(b) \o (Slash \o s) /\ Joined(b) \in Word /\ s \in Word /\ Slash \o s \in Word
    BY <2>0, JoinedAppend, JoinedIsWord, SegmentIsWord, SlashedIsWord
  <2>3. ASSUME NEW k \in 0..Len(b) PROVE SubSeq(c, 1, k) = SubSeq(b, 1, k)
    <3>1. /\ SubSeq(c, 1, k) \in Seq(Segment) /\ Len(SubSeq(c, 1, k)) = k
          /\ \A i \in 1..k : SubSeq(c, 1, k)[i] = c[i]
      BY <2>1, Parts
    <3>2. /\ SubSeq(b, 1, k) \in Seq(Segment) /\ Len(SubSeq(b, 1, k)) = k
          /\ \A i \in 1..k : SubSeq(b, 1, k)[i] = b[i]
      BY <2>0, Parts
    <3>3. \A i \in 1..k : c[i] = b[i]
      BY <2>0, <2>1, AppendProperties
    <3>4. \A i \in 1..k : SubSeq(c, 1, k)[i] = SubSeq(b, 1, k)[i]
      BY <3>1, <3>2, <3>3
    <3> QED
      BY <3>1, <3>2, <3>4, SeqEqual
  <2>4. ASSUME NEW y \in Word, NEW v \in Word, AtSlash(v), Joined(c) = y \o v PROVE Between(c, y)
    <3>1. PICK z \in Word, w \in Word : z = Joined(b) /\ w = Slash \o s
      BY <2>2
    <3>2. y \o v = z \o w
      BY <2>2, <2>4, <3>1
    <3>3. Len(y) \in Nat /\ Len(z) \in Nat
      BY LenProperties DEF Word
    <3>4. CASE Len(y) <= Len(z)
      <4>1. PICK t \in Word : z = y \o t /\ v = t \o w
        <5>1. CutLater(y, v, z, w)
          BY <3>2, <3>4, Recut, Zenon
        <5> QED
          BY <5>1 DEF CutLater
      <4>2. AtSlash(t)
        <5>1. CASE t = <<>>
          BY <5>1 DEF AtSlash
        <5>2. CASE t # <<>>
          <6>1. Len(t) \in Nat \ {0} /\ 1 \in 1..Len(t)
            BY <5>2, EmptySeq, LenProperties DEF Word
          <6>2. (t \o w)[1] = t[1]
            BY <6>1, Concatenated
          <6>3. v # <<>>
            BY <4>1, <5>2, ConcatEqualIffEmpty DEF Word
          <6> QED
            BY <2>4, <4>1, <6>2, <6>3 DEF AtSlash
        <5> QED
          BY <5>1, <5>2
      <4>3. PICK k \in 0..Len(b) : y = Joined(SubSeq(b, 1, k))
        BY <2>0, <3>1, <4>1, <4>2
      <4>4. k \in 0..Len(c) /\ y = Joined(SubSeq(c, 1, k))
        <5>1. k \in 0..Len(c)
          BY <2>1
        <5> HIDE DEF c
        <5> QED
          BY <2>3, <4>3, <5>1, Zenon
      <4> QED
        BY <4>4
    <3>5. CASE Len(z) <= Len(y) /\ Len(z) # Len(y)
      <4>1. PICK t \in Word : y = z \o t /\ w = t \o v
        <5>1. z \o w = y \o v /\ Len(z) <= Len(y)
          BY <3>2, <3>5
        <5>2. CutLater(z, w, y, v)
          BY <5>1, Recut, Zenon
        <5> QED
          BY <5>2 DEF CutLater
      <4>2. Len(t) \in Nat /\ Len(t) # 0 /\ Len(v) \in Nat
        <5>1. Len(z \o t) = Len(z) + Len(t) /\ Len(t) \in Nat /\ Len(v) \in Nat
          BY Concatenated
        <5>2. Len(y) = Len(z) + Len(t)
          BY <4>1, <5>1, Zenon
        <5> QED
          BY <3>3, <3>5, <5>1, <5>2
      <4>3. Len(w) = Len(s) + 1 /\ \A i \in 1..Len(s) : w[i + 1] = s[i]
        BY <2>2, <3>1, SlashedIsWord
      <4>4. Len(s) \in Nat /\ \A i \in 1..Len(s) : s[i] # "/"
        BY LenProperties, ElementOfSeq DEF Segment
      <4>5. v = <<>>
        <5> SUFFICES ASSUME v # <<>> PROVE FALSE
          OBVIOUS
        <5>1. Len(v) # 0 /\ v[1] = "/" /\ 1 \in 1..Len(v)
          BY <2>4, <4>2, EmptySeq DEF AtSlash, Word
        <5>2. Len(t \o v) = Len(t) + Len(v) /\ (t \o v)[Len(t) + 1] = v[1]
          BY <5>1, Concatenated
        <5>3. w[Len(t) + 1] = "/" /\ Len(w) = Len(t) + Len(v)
          BY <4>1, <5>1, <5>2
        <5>4. Len(t) \in 1..Len(s)
          BY <4>2, <4>3, <4>4, <5>1, <5>3
        <5> QED
          BY <4>3, <4>4, <5>3, <5>4
      <4>6. y = Joined(c)
        BY <2>4, <4>5, ConcatEmptySeq DEF Word
      <4>7. SubSeq(c, 1, Len(c)) = c /\ Len(c) \in 0..Len(c)
        BY <2>1, SubSeqFull
      <4> QED
        BY <4>6, <4>7
    <3> QED
      BY <3>3, <3>4, <3>5
  <2> HIDE DEF Between
  <2> QED
    BY <2>1, <2>4
<1>3. T = Seq(Segment)
  <2> HIDE DEF T
  <2>1. T \in SUBSET Seq(Segment)
    BY DEF T
  <2> QED
    BY <1>1, <1>2, <2>1, SeqInduction
<1> QED
  BY <1>3

\* The segments of a joined word that goes on with a slash begin with those of
\* the word, and what it goes on with is the rest of them.
LEMMA CutAtSegments ==
    ASSUME NEW a \in Seq(Segment), NEW b \in Seq(Segment), NEW u \in Word, AtSlash(u),
           Joined(a) = Joined(b) \o u
    PROVE  /\ Len(b) \in 0..Len(a) /\ b = SubSeq(a, 1, Len(b))
           /\ u = Joined(SubSeq(a, Len(b) + 1, Len(a)))
<1>1. a \in Seq(Word) /\ b \in Seq(Word) /\ Joined(a) \in Word /\ Joined(b) \in Word
  BY SegmentIsWord, JoinedIsWord
<1>2. PICK k \in 0..Len(a) : Joined(b) = Joined(SubSeq(a, 1, k))
  BY <1>1, CutBetween
<1>3. b = SubSeq(a, 1, k) /\ Len(SubSeq(a, 1, k)) = k
  BY <1>2, Parts, JoinedInjective
<1>4. PICK c \in Seq(Segment) : c = SubSeq(a, k + 1, Len(a)) /\ a = b \o c
  BY <1>3, Parts
<1>5. Joined(a) = Joined(b) \o Joined(c) /\ Joined(c) \in Word
  BY <1>4, SegmentIsWord, JoinedConcat, JoinedIsWord
<1>6. u = Joined(c)
  BY <1>1, <1>5, ConcatSimplifications DEF Word
<1> QED
  BY <1>2, <1>3, <1>4, <1>6

\* Nothing but slashes; the end that trim_end_matches takes away.
Slashes(w) == \A i \in 1..Len(w) : w[i] = "/"
Trimmed(x) == x = <<>> \/ x[Len(x)] # "/"

\* What TrimEnd leaves of a word that does not end in a slash, and of slashes.
LEMMA TrimEndIs ==
    ASSUME NEW x \in Word, NEW t \in Word, Trimmed(x), Slashes(t)
    PROVE  TrimEnd(x \o t) = x
<1>1. PICK w \in Word : w = x \o t
  BY Concatenated
<1>2. PICK l \in Nat, n \in Nat : l = Len(x) /\ n = Len(t)
  BY LenProperties DEF Word
<1>3. Len(w) = l + n /\ (\A k \in 1..l : w[k] = x[k]) /\ (\A k \in 1..n : w[l + k] = t[k])
  <2>1. /\ Len(x \o t) = Len(x) + Len(t)
        /\ \A k \in 1..Len(x) : (x \o t)[k] = x[k]
        /\ \A k \in 1..Len(t) : (x \o t)[Len(x) + k] = t[k]
    BY Concatenated
  <2> QED
    BY <1>1, <1>2, <2>1, Zenon
<1> DEFINE Cut(i) == /\ i = 0 \/ w[i] # "/"
                     /\ \A j \in (i + 1)..Len(w) : w[j] = "/"
<1>4. l \in 0..Len(w) /\ Cut(l)
  <2>1. l = 0 \/ w[l] # "/"
    BY <1>2, <1>3, EmptySeq DEF Trimmed, Word
  <2>2. ASSUME NEW j \in (l + 1)..Len(w) PROVE w[j] = "/"
    <3>1. j - l \in 1..n /\ j = l + (j - l)
      BY <1>3
    <3>2. w[l + (j - l)] = t[j - l]
      BY <1>3, <3>1
    <3>3. t[j - l] = "/"
      BY <1>2, <3>1 DEF Slashes
    <3> QED
      BY <3>1, <3>2, <3>3
  <2> QED
    BY <1>3, <2>1, <2>2
<1>5. \A i \in 0..Len(w) : Cut(i) => i = l
  <2> SUFFICES ASSUME NEW i \in 0..Len(w), Cut(i), i # l PROVE FALSE
    OBVIOUS
  <2>1. CASE i < l
    <3>1. l \in (i + 1)..Len(w) /\ l # 0
      BY <1>3, <2>1
    <3> QED
      BY <1>4, <3>1
  <2>2. CASE l < i
    <3>1. i \in (l + 1)..Len(w) /\ i # 0
      BY <1>3, <2>2
    <3> QED
      BY <1>4, <3>1
  <2> QED
    BY <1>3, <2>1, <2>2
<1>6. (CHOOSE i \in 0..Len(w) : Cut(i)) = l
  <2> HIDE DEF Cut
  <2> QED
    BY <1>4, <1>5
<1>7. TrimEnd(w) = SubSeq(w, 1, l)
  BY <1>6 DEF TrimEnd
<1>8. SubSeq(w, 1, l) = x
  <2>1. \A k \in 1..l : w[k] \in Chars
    BY <1>3, ElementOfSeq DEF Word
  <2>2. SubSeq(w, 1, l) \in Word /\ Len(SubSeq(w, 1, l)) = l /\ \A k \in 1..l : SubSeq(w, 1, l)[k] = w[k]
    BY <2>1, SubSeqProperties DEF Word
  <2> QED
    BY <1>2, <1>3, <2>2, SameWord
<1> QED
  BY <1>1, <1>7, <1>8

\* TrimEnd takes away exactly the slashes at the end.
LEMMA TrimEndGives ==
    ASSUME NEW w \in Word
    PROVE  \E x, t \in Word : w = x \o t /\ Trimmed(x) /\ Slashes(t) /\ TrimEnd(w) = x
<1> DEFINE Split(v) == \E x, t \in Word : v = x \o t /\ Trimmed(x) /\ Slashes(t)
           T == {v \in Word : Split(v)}
<1>1. <<>> \in T
  <2>1. <<>> \in Word /\ <<>> = <<>> \o <<>> /\ Trimmed(<<>>) /\ Slashes(<<>>)
    BY EmptySeq, ConcatEmptySeq DEF Word, Trimmed, Slashes
  <2> QED
    BY <2>1
<1>2. ASSUME NEW v \in T, NEW c \in Chars PROVE Append(v, c) \in T
  <2>0. v \in Word
    OBVIOUS
  <2>1. Append(v, c) \in Word /\ Append(v, c)[Len(Append(v, c))] = c
    BY <2>0, AppendProperties DEF Word
  <2>2. CASE c = "/"
    <3>1. PICK x \in Word, t \in Word : v = x \o t /\ Trimmed(x) /\ Slashes(t)
      OBVIOUS
    <3>2. Append(t, c) \in Word /\ Slashes(Append(t, c))
      BY <2>2, <3>1, AppendProperties, LenProperties DEF Word, Slashes
    <3>3. Append(v, c) = x \o Append(t, c)
      <4>0. <<c>> \in Word
        BY DEF Word
      <4>1. (x \o t) \o <<c>> = x \o (t \o <<c>>)
        BY <4>0, Associative, ZenonT(60)
      <4>2. Append(v, c) = v \o <<c>> /\ Append(t, c) = t \o <<c>>
        BY <2>0, AppendIsConcat DEF Word
      <4> QED
        BY <3>1, <4>1, <4>2
    <3>4. Split(Append(v, c))
      BY <3>1, <3>2, <3>3
    <3> QED
      BY <2>1, <3>4
  <2>3. CASE c # "/"
    <3>1. Append(v, c) = Append(v, c) \o <<>> /\ <<>> \in Word /\ Slashes(<<>>)
      BY <2>1, ConcatEmptySeq, EmptySeq DEF Word, Slashes
    <3>2. Trimmed(Append(v, c))
      BY <2>1, <2>3 DEF Trimmed
    <3>3. Split(Append(v, c))
      BY <2>1, <3>1, <3>2
    <3> QED
      BY <2>1, <3>3
  <2> QED
    BY <2>2, <2>3
<1>3. T = Seq(Chars)
  <2> HIDE DEF T
  <2>1. T \in SUBSET Seq(Chars)
    BY DEF T, Word
  <2> QED
    BY <1>1, <1>2, <2>1, SeqInduction
<1>4. PICK x \in Word, t \in Word : w = x \o t /\ Trimmed(x) /\ Slashes(t)
  BY <1>3 DEF Word
<1> QED
  BY <1>4, TrimEndIs

\* Only empty segments join to nothing but slashes.
Blank(a) == \A i \in 1..Len(a) : a[i] = <<>>

\* Empty segments join to slashes, and only they do.
LEMMA BlankIsSlashes ==
    ASSUME NEW a \in Seq(Segment)
    PROVE  Slashes(Joined(a)) <=> Blank(a)
<1> DEFINE T == {b \in Seq(Segment) : Slashes(Joined(b)) <=> Blank(b)}
<1>1. <<>> \in T
  BY JoinedEmpty, EmptySeq DEF Slashes, Blank
<1>2. ASSUME NEW b \in T, NEW s \in Segment PROVE Append(b, s) \in T
  <2>1. b \in Seq(Segment) /\ (Slashes(Joined(b)) <=> Blank(b))
    OBVIOUS
  <2>2. /\ Append(b, s) \in Seq(Segment) /\ Len(b) \in Nat /\ Len(Append(b, s)) = Len(b) + 1
        /\ Append(b, s)[Len(b) + 1] = s /\ \A i \in 1..Len(b) : Append(b, s)[i] = b[i]
    BY <2>1, AppendProperties, LenProperties
  <2>3. Blank(Append(b, s)) <=> Blank(b) /\ s = <<>>
    BY <2>2 DEF Blank
  <2>4. PICK x \in Word : x = Joined(b)
    BY <2>1, JoinedIsWord, SegmentIsWord
  <2>5. s \in Word /\ Len(s) \in Nat /\ (s = <<>> <=> Len(s) = 0) /\ \A k \in 1..Len(s) : s[k] # "/"
    BY SegmentIsWord, EmptySeq, LenProperties, ElementOfSeq DEF Segment
  <2>6. PICK w : w = x \o (Slash \o s)
    OBVIOUS
  <2>7. /\ Len(x) \in Nat /\ Len(w) = Len(x) + 1 + Len(s) /\ w[Len(x) + 1] = "/"
        /\ \A k \in 1..Len(x) : w[k] = x[k]
        /\ \A k \in 1..Len(s) : w[Len(x) + 1 + k] = s[k]
    <3>1. /\ Len(x \o (Slash \o s)) = Len(x) + 1 + Len(s)
          /\ (x \o (Slash \o s))[Len(x) + 1] = "/"
          /\ \A k \in 1..Len(x) : (x \o (Slash \o s))[k] = x[k]
          /\ \A k \in 1..Len(s) : (x \o (Slash \o s))[Len(x) + 1 + k] = s[k]
      BY <2>5, Slashed
    <3>2. Len(x) \in Nat
      BY LenProperties DEF Word
    <3> QED
      BY <2>6, <3>1, <3>2, Zenon
  <2>8. Slashes(w) <=> Slashes(x) /\ s = <<>>
    <3>1. ASSUME Slashes(w) PROVE Slashes(x)
      BY <2>5, <2>7, <3>1 DEF Slashes
    <3>2. ASSUME Slashes(w) PROVE Len(s) = 0
      <4> SUFFICES ASSUME Len(s) # 0 PROVE FALSE
        OBVIOUS
      <4>1. 1 \in 1..Len(s) /\ Len(x) + 1 + 1 \in 1..Len(w)
        BY <2>5, <2>7
      <4>2. w[Len(x) + 1 + 1] = s[1] /\ s[1] # "/"
        BY <2>5, <2>7, <4>1
      <4> QED
        BY <3>2, <4>1, <4>2 DEF Slashes
    <3>3. ASSUME Slashes(x), Len(s) = 0 PROVE Slashes(w)
      BY <2>7, <3>3 DEF Slashes
    <3> QED
      BY <2>5, <3>1, <3>2, <3>3
  <2>9. Joined(Append(b, s)) = w
    BY <2>1, <2>4, <2>5, <2>6, JoinedAppend, SegmentIsWord
  <2>10. Slashes(Joined(Append(b, s))) <=> Blank(Append(b, s))
    BY <2>1, <2>3, <2>4, <2>8, <2>9
  <2> QED
    BY <2>2, <2>10
<1>3. T = Seq(Segment)
  <2> HIDE DEF T
  <2>1. T \in SUBSET Seq(Segment)
    BY DEF T
  <2> QED
    BY <1>1, <1>2, <2>1, SeqInduction
<1> QED
  BY <1>3
-----------------------------------------------------------------------------
\* The name of a path other than the root's ends with a character of its last
\* segment.
LEMMA PathJoins ==
    ASSUME NEW p \in Path
    PROVE  /\ p \in Seq(Segment) /\ Joined(p) \in Word /\ Trimmed(Joined(p))
           /\ (Joined(p) = <<>> <=> p = <<>>)
           /\ p # <<>> => Len(Joined(p)) >= 2
<1>1. p \in Seq(Segment) /\ p \in Seq(Word) /\ \A i \in 1..Len(p) : p[i] # <<>>
  BY SeqMonotonic, SegmentIsWord, ElementOfSeq DEF Path
<1>2. Joined(p) \in Word /\ (p # <<>> => Joined(p) # <<>>)
  BY <1>1, JoinedIsWord
<1>3. CASE p = <<>>
  BY <1>1, <1>2, <1>3, JoinedEmpty DEF Trimmed
<1>4. CASE p # <<>>
  <2>1. PICK q \in Seq(Segment), s \in Segment : p = Append(q, s)
    BY <1>1, <1>4, SequenceEmptyOrAppend
  <2>2. s # <<>> /\ s \in Word
    <3>1. Len(q) + 1 \in 1..Len(p) /\ p[Len(q) + 1] = s
      BY <2>1, AppendProperties, LenProperties
    <3> QED
      BY <1>1, <3>1, SegmentIsWord
  <2>3. Len(s) \in Nat \ {0} /\ \A k \in 1..Len(s) : s[k] # "/"
    BY <2>2, EmptySeq, LenProperties, ElementOfSeq DEF Segment
  <2>4. PICK x \in Word : x = Joined(q)
    BY JoinedIsWord, SegmentIsWord
  <2>5. Joined(p) = x \o (Slash \o s)
    BY <2>1, <2>2, <2>4, JoinedAppend, SegmentIsWord
  <2>6. /\ Len(x \o (Slash \o s)) = Len(x) + 1 + Len(s)
        /\ \A k \in 1..Len(s) : (x \o (Slash \o s))[Len(x) + 1 + k] = s[k]
    BY <2>2, Slashed
  <2>7. Len(x) \in Nat /\ Len(s) \in 1..Len(s)
    BY <2>3, LenProperties DEF Word
  <2>8. Len(Joined(p)) = Len(x) + 1 + Len(s) /\ Joined(p)[Len(x) + 1 + Len(s)] = s[Len(s)]
    BY <2>5, <2>6, <2>7, Zenon
  <2>9. Trimmed(Joined(p))
    BY <2>3, <2>7, <2>8 DEF Trimmed
  <2>10. Len(Joined(p)) >= 2
    BY <2>3, <2>7, <2>8
  <2> QED
    BY <1>1, <1>2, <1>4, <2>9, <2>10
<1> QED
  BY <1>3, <1>4

\* The name of a path is what joins its segments, or the root's slash.
LEMMA NameIs ==
    ASSUME NEW p \in Path
    PROVE  /\ Name(p) \in Word
           /\ Name(p) = IF p = <<>> THEN Slash ELSE Joined(p)
           /\ Name(p) = Root <=> p = <<>>
<1>1. Slash \in Word /\ Len(Slash) = 1
  BY CharsAssumption DEF Slash, Word
<1>2. p # <<>> => Len(Joined(p)) >= 2
  BY PathJoins
<1>3. p # <<>> => Joined(p) # Slash
  <2>1. PICK v, n : v = Joined(p) /\ n = Len(v)
    OBVIOUS
  <2>2. p # <<>> => n >= 2
    BY <1>2, <2>1, Zenon
  <2>3. v = Slash => n = 1
    BY <1>1, <2>1, Zenon
  <2>4. p # <<>> => v # Slash
    BY <2>2, <2>3
  <2> QED
    BY <2>1, <2>4, Zenon
<1>4. Joined(p) \in Word
  BY PathJoins
<1> HIDE DEF Path
<1> QED
  BY <1>1, <1>3, <1>4, Zenon DEF Name, Root, Slash

\* What is left of the arguments after a path that they spell is blank, and
\* what joins it is trimmed away.
LEMMA SpelledName ==
    ASSUME NEW p \in Path, NEW args \in Seq(Segment), Spells(args, p)
    PROVE  Name(p) = ContainerName(args)
<1>1. /\ Len(p) \in 0..Len(args) /\ SubSeq(args, 1, Len(p)) = p
      /\ \A i \in (Len(p) + 1)..Len(args) : args[i] = <<>>
  BY LenProperties DEF Spells, Path
<1>2. PICK e \in Seq(Segment) : /\ e = SubSeq(args, Len(p) + 1, Len(args)) /\ args = p \o e
                                /\ Len(e) = Len(args) - Len(p) /\ \A i \in 1..Len(e) : e[i] = args[Len(p) + i]
  <2>1. PICK k \in 0..Len(args) : k = Len(p)
    BY <1>1
  <2>2. PICK e : e = SubSeq(args, k + 1, Len(args))
    OBVIOUS
  <2>3. /\ SubSeq(args, k + 1, Len(args)) \in Seq(Segment) /\ Len(SubSeq(args, k + 1, Len(args))) = Len(args) - k
        /\ \A i \in 1..(Len(args) - k) : SubSeq(args, k + 1, Len(args))[i] = args[k + i]
        /\ args = SubSeq(args, 1, k) \o SubSeq(args, k + 1, Len(args))
    BY Parts, Zenon
  <2>4. e \in Seq(Segment) /\ Len(e) = Len(args) - k /\ \A i \in 1..(Len(args) - k) : e[i] = args[k + i]
    BY <2>2, <2>3, Zenon
  <2>5. args = p \o e
    BY <1>1, <2>1, <2>2, <2>3, Zenon
  <2> QED
    BY <2>1, <2>2, <2>4, <2>5, Zenon
<1>3. Blank(e)
  <2>1. ASSUME NEW i \in 1..Len(e) PROVE e[i] = <<>>
    <3>1. Len(p) + i \in (Len(p) + 1)..Len(args)
      BY <1>1, <1>2, LenProperties
    <3> QED
      BY <1>1, <1>2, <3>1
  <2> QED
    BY <2>1 DEF Blank
<1>4. Joined(args) = Joined(p) \o Joined(e) /\ Joined(e) \in Word
  <2>1. p \in Seq(Word) /\ e \in Seq(Word)
    BY PathJoins, SegmentIsWord
  <2>2. Joined(p \o e) = Joined(p) \o Joined(e) /\ Joined(e) \in Word
    BY <2>1, JoinedConcat, JoinedIsWord, Zenon
  <2> QED
    BY <1>2, <2>2, Zenon
<1>5. TrimEnd(Joined(args)) = Joined(p)
  BY <1>3, <1>4, PathJoins, TrimEndIs, BlankIsSlashes
<1>6. args \in {<<>>, <<<<>>>>} => p = <<>>
  <2> SUFFICES ASSUME args \in {<<>>, <<<<>>>>}, p # <<>> PROVE FALSE
    OBVIOUS
  <2>1. Len(p) \in Nat \ {0} /\ p[1] # <<>>
    BY EmptySeq, LenProperties, ElementOfSeq DEF Path
  <2>2. Len(args) >= 1
    BY <1>1, <2>1
  <2>3. args = <<<<>>>> /\ Len(args) = 1
    BY <2>2, EmptySeq
  <2>4. p[1] = args[1]
    <3>1. 1 \in 1..Len(p) /\ Len(p) \in 0..Len(args)
      BY <1>1, <2>1
    <3>2. SubSeq(args, 1, Len(p))[1] = args[1]
      BY <3>1, Parts
    <3> QED
      BY <1>1, <3>2
  <2> QED
    BY <2>1, <2>3, <2>4
<1> QED
  BY <1>5, <1>6, PathJoins DEF ContainerName, Name

\* A request that names a container spells its path.
LEMMA NameIsSpelled ==
    ASSUME NEW p \in Path, NEW args \in Seq(Segment), Name(p) = ContainerName(args)
    PROVE  Spells(args, p)
<1>1. PICK w \in Word : w = Joined(args)
  BY JoinedIsWord, SegmentIsWord
<1>2. PICK x \in Word, t \in Word : w = x \o t /\ Trimmed(x) /\ Slashes(t) /\ TrimEnd(w) = x
  BY TrimEndGives
<1>3. ContainerName(args) = IF args \in {<<>>, <<<<>>>>} \/ x = <<>> THEN Root ELSE x
  BY <1>1, <1>2 DEF ContainerName
<1>4. CASE p = <<>>
  <2>1. Blank(args)
    <3>1. CASE args \in {<<>>, <<<<>>>>}
      BY <3>1, EmptySeq DEF Blank
    <3>2. CASE args \notin {<<>>, <<<<>>>>}
      <4>1. x = <<>> \/ x = Root
        BY <1>3, <1>4, <3>2 DEF Name
      <4>2. x # Root
        <5>1. Root # <<>> /\ Len(Root) = 1 /\ Root[1] = "/"
          BY EmptySeq DEF Root
        <5> QED
          BY <1>2, <5>1, Zenon DEF Trimmed
      <4>3. w = t
        BY <1>2, <4>1, <4>2, ConcatEmptySeq DEF Word
      <4> QED
        BY <1>1, <1>2, <4>3, BlankIsSlashes
    <3> QED
      BY <3>1, <3>2
  <2>2. Len(p) = 0 /\ Len(args) \in Nat /\ SubSeq(args, 1, 0) = <<>>
    BY <1>4, EmptySeq, LenProperties, SubSeqEmpty
  <2> QED
    BY <1>4, <2>1, <2>2 DEF Spells, Blank
<1>5. CASE p # <<>>
  <2>1. Joined(p) = x
    BY <1>3, <1>5, NameIs DEF Name
  <2>2. AtSlash(t)
    <3>1. t # <<>> => 1 \in 1..Len(t)
      BY EmptySeq DEF Word
    <3> QED
      BY <1>2, <3>1 DEF AtSlash, Slashes
  <2>3. /\ Len(p) \in 0..Len(args) /\ p = SubSeq(args, 1, Len(p))
        /\ t = Joined(SubSeq(args, Len(p) + 1, Len(args)))
    <3>1. Joined(args) = Joined(p) \o t
      BY <1>1, <1>2, <2>1
    <3> QED
      BY <2>2, <3>1, PathJoins, CutAtSegments
  <2>4. PICK e \in Seq(Segment) : /\ e = SubSeq(args, Len(p) + 1, Len(args))
                                  /\ Len(e) = Len(args) - Len(p) /\ \A i \in 1..Len(e) : e[i] = args[Len(p) + i]
    <3>1. /\ SubSeq(args, Len(p) + 1, Len(args)) \in Seq(Segment)
          /\ Len(SubSeq(args, Len(p) + 1, Len(args))) = Len(args) - Len(p)
          /\ \A i \in 1..(Len(args) - Len(p)) : SubSeq(args, Len(p) + 1, Len(args))[i] = args[Len(p) + i]
      BY <2>3, Parts, Zenon
    <3>2. PICK e : e = SubSeq(args, Len(p) + 1, Len(args))
      OBVIOUS
    <3>3. /\ e \in Seq(Segment) /\ Len(e) = Len(args) - Len(p)
          /\ \A i \in 1..Len(e) : e[i] = args[Len(p) + i]
      BY <3>1, <3>2, Zenon
    <3> QED
      BY <3>2, <3>3, Zenon
  <2>5. Blank(e)
    <3>1. Slashes(Joined(e))
      BY <1>2, <2>3, <2>4, Zenon
    <3> QED
      BY <3>1, BlankIsSlashes, Zenon
  <2>6. ASSUME NEW i \in (Len(p) + 1)..Len(args) PROVE args[i] = <<>>
    <3>1. i - Len(p) \in 1..Len(e) /\ i = Len(p) + (i - Len(p))
      BY <2>3, <2>4
    <3> QED
      BY <2>4, <2>5, <3>1 DEF Blank
  <2> QED
    BY <2>3, <2>6 DEF Spells
<1> QED
  BY <1>4, <1>5

\* The names of two containers are different.
LEMMA NameInjective ==
    ASSUME NEW p \in Path, NEW q \in Path, Name(p) = Name(q)
    PROVE  p = q
<1>1. CASE p = <<>> \/ q = <<>>
  BY <1>1, NameIs
<1>2. CASE p # <<>> /\ q # <<>>
  <2>1. Joined(p) = Joined(q)
    BY <1>2, NameIs, Zenon
  <2> QED
    BY <2>1, PathJoins, JoinedInjective, Zenon
<1> QED
  BY <1>1, <1>2

\* What IsPrefix says of words.
Begins(x, w) == \E u \in Word : w = x \o u

\* A prefix is what a longer word begins with.
LEMMA PrefixIs ==
    ASSUME NEW x \in Word, NEW w \in Word
    PROVE  IsPrefix(x, w) <=> Begins(x, w)
<1>1. Len(x) \in Nat /\ Len(w) \in Nat
  BY LenProperties DEF Word
<1>2. ASSUME IsPrefix(x, w) PROVE Begins(x, w)
  <2>1. Len(x) \in 0..Len(w) /\ x = SubSeq(w, 1, Len(x))
    BY <1>1, <1>2, SubSeqFull DEF IsPrefix, Word
  <2>2. PICK k \in 0..Len(w) : k = Len(x)
    BY <2>1
  <2>3. SubSeq(w, k + 1, Len(w)) \in Word
    <3>1. \A i \in 1..Len(w) : w[i] \in Chars
      BY ElementOfSeq DEF Word
    <3> QED
      BY <1>1, <3>1, SubSeqProperties DEF Word
  <2>4. SubSeq(w, 1, k) \o SubSeq(w, k + 1, Len(w)) = SubSeq(w, 1, Len(w))
    <3>1. 1 \in 1..(Len(w) + 1) /\ k \in (1 - 1)..Len(w) /\ Len(w) \in k..Len(w)
      BY <1>1
    <3>2. w \in Seq(Chars)
      BY DEF Word
    <3> QED
      BY <3>1, <3>2, ConcatAdjacentSubSeq, Zenon
  <2>5. SubSeq(w, 1, Len(w)) = w
    BY SubSeqFull DEF Word
  <2> QED
    BY <2>1, <2>2, <2>3, <2>4, <2>5, Zenon DEF Begins
<1>3. ASSUME Begins(x, w) PROVE IsPrefix(x, w)
  <2>1. PICK u \in Word : w = x \o u
    BY <1>3 DEF Begins
  <2>2. /\ Len(u) \in Nat /\ Len(x \o u) = Len(x) + Len(u)
        /\ \A k \in 1..Len(x) : (x \o u)[k] = x[k]
    BY Concatenated
  <2>3. Len(w) = Len(x) + Len(u) /\ \A k \in 1..Len(x) : w[k] = x[k]
    BY <2>1, <2>2, Zenon
  <2>4. Len(x) <= Len(w)
    BY <1>1, <2>2, <2>3
  <2>5. SubSeq(x, 1, Len(x)) = SubSeq(w, 1, Len(x))
    <3>1. (\A i \in 1..Len(w) : w[i] \in Chars) /\ SubSeq(x, 1, Len(x)) = x
      BY ElementOfSeq, SubSeqFull DEF Word
    <3>2. /\ SubSeq(w, 1, Len(x)) \in Word /\ Len(SubSeq(w, 1, Len(x))) = Len(x)
          /\ \A k \in 1..Len(x) : SubSeq(w, 1, Len(x))[k] = w[k]
      BY <1>1, <2>4, <3>1, SubSeqProperties DEF Word
    <3> QED
      BY <2>3, <3>1, <3>2, SameWord
  <2> QED
    BY <2>4, <2>5 DEF IsPrefix
<1> QED
  BY <1>2, <1>3

\* A container's name ends before its descendants' go on with a slash.
LEMMA PrefixOfName ==
    ASSUME NEW q \in Path
    PROVE  Prefix(Name(q)) = Joined(q) \o Slash
<1>1. CASE q = <<>>
  <2>1. <<>> \o Slash = Slash
    BY SlashedIsWord, ConcatEmptySeq, EmptySeq DEF Word
  <2> QED
    BY <1>1, <2>1, JoinedEmpty DEF Prefix, Name, Root, Slash
<1>2. CASE q # <<>>
  BY <1>2, NameIs DEF Prefix, Slash
<1> QED
  BY <1>1, <1>2

\* The names that begin so are those with a joined path, a slash and a rest.
LEMMA BelowPrefix ==
    ASSUME NEW p \in Path, NEW x \in Word
    PROVE  IsPrefix(x \o Slash, Name(p)) <=> \E u \in Word : Name(p) = x \o (Slash \o u)
<1>1. Slash \in Word /\ Name(p) \in Word /\ x \o Slash \in Word
  BY NameIs, Concatenated, SlashedIsWord, EmptySeq DEF Word
<1>2. IsPrefix(x \o Slash, Name(p)) <=> \E u \in Word : Name(p) = (x \o Slash) \o u
  BY <1>1, PrefixIs, Zenon DEF Begins
<1>3. \A u \in Word : (x \o Slash) \o u = x \o (Slash \o u)
  BY <1>1, Associative
<1> QED
  BY <1>2, <1>3, Zenon

\* A word that begins with a slash.
LEMMA SlashFirst ==
    ASSUME NEW w \in Word, w # <<>>, w[1] = "/"
    PROVE  \E u \in Word : w = Slash \o u
<1>1. Slash \in Word /\ Len(Slash) = 1 /\ Slash[1] = "/"
  BY CharsAssumption DEF Slash, Word
<1>2. Len(w) \in Nat \ {0}
  BY EmptySeq, LenProperties DEF Word
<1>3. SubSeq(w, 1, 1) = Slash
  <2>1. \A i \in 1..1 : w[i] \in Chars
    BY CharsAssumption
  <2>2. SubSeq(w, 1, 1) \in Word /\ Len(SubSeq(w, 1, 1)) = 1 /\ SubSeq(w, 1, 1)[1] = w[1]
    BY <1>2, <2>1, SubSeqProperties DEF Word
  <2>3. PICK v \in Word, z \in Word : v = SubSeq(w, 1, 1) /\ z = Slash
    BY <1>1, <2>2
  <2>4. Len(v) = 1 /\ Len(z) = 1 /\ v[1] = "/" /\ z[1] = "/"
    BY <1>1, <2>2, <2>3
  <2>5. v = z
    BY <2>4, SameWord
  <2> QED
    BY <2>3, <2>5
<1>4. IsPrefix(Slash, w)
  <2>1. SubSeq(Slash, 1, 1) = Slash
    BY <1>1, SubSeqFull DEF Word
  <2> QED
    BY <1>1, <1>2, <1>3, <2>1 DEF IsPrefix
<1> QED
  BY <1>1, <1>4, PrefixIs, Zenon DEF Begins

\* A name that goes on after the joined segments of a path with a slash.
LEMMA GoesOn ==
    ASSUME NEW p \in Path, NEW q \in Path, NEW u \in Word, Name(p) = Joined(q) \o (Slash \o u)
    PROVE  Below(p, q) /\ (u # <<>> => p # <<>>)
<1>1. Joined(q) \in Word /\ q \in Seq(Segment)
  BY PathJoins
<1>2. PICK v \in Word : v = Slash \o u /\ AtSlash(v) /\ Len(v) = Len(u) + 1
  BY SlashedIsWord DEF AtSlash
<1>3. CASE p = <<>>
  <2>1. Name(p) = Slash
    BY <1>3, NameIs
  <2>2. Len(Slash) = 1
    BY DEF Slash
  <2>3. PICK y \in Word : y = Joined(q)
    BY <1>1
  <2>4. Len(y \o v) = Len(y) + Len(v) /\ Len(y) \in Nat /\ Len(u) \in Nat
    BY Concatenated, LenProperties DEF Word
  <2>5. Slash = y \o v
    BY <1>2, <2>1, <2>3
  <2>6. Len(y) = 0 /\ Len(u) = 0
    BY <1>2, <2>2, <2>4, <2>5
  <2>7. y = <<>> /\ u = <<>>
    BY <2>6, EmptySeq DEF Word
  <2>8. q = <<>>
    BY <2>3, <2>7, PathJoins
  <2> QED
    BY <1>3, <2>7, <2>8, EmptySeq, SubSeqEmpty DEF Below
<1>4. CASE p # <<>>
  <2>1. Joined(p) = Joined(q) \o v
    BY <1>2, <1>4, NameIs
  <2>2. Len(q) \in 0..Len(p) /\ q = SubSeq(p, 1, Len(q))
    BY <1>1, <1>2, <2>1, PathJoins, CutAtSegments
  <2> QED
    BY <1>4, <2>2 DEF Below
<1> QED
  BY <1>3, <1>4

\* The segments that p has more than q.
LEMMA Rest ==
    ASSUME NEW p \in Path, NEW q \in Path, Below(p, q)
    PROVE  \E e \in Seq(Segment) : p = q \o e /\ Len(p) = Len(q) + Len(e) /\ (Len(p) = Len(q) => p = q)
<1>1. p \in Seq(Segment) /\ q \in Seq(Segment)
  BY PathJoins
<1>2. PICK k \in 0..Len(p) : k = Len(q) /\ SubSeq(p, 1, k) = q
  <2>1. Len(q) \in 0..Len(p) /\ SubSeq(p, 1, Len(q)) = q
    <3>1. Len(q) \in Nat /\ Len(p) \in Nat
      BY <1>1, LenProperties
    <3> QED
      BY <3>1 DEF Below
  <2> QED
    BY <2>1, Zenon
<1>3. PICK e : e = SubSeq(p, k + 1, Len(p))
  OBVIOUS
<1>4. e \in Seq(Segment) /\ Len(e) = Len(p) - k /\ p = q \o e
  <2>1. /\ SubSeq(p, k + 1, Len(p)) \in Seq(Segment) /\ Len(SubSeq(p, k + 1, Len(p))) = Len(p) - k
        /\ p = SubSeq(p, 1, k) \o SubSeq(p, k + 1, Len(p))
    BY <1>1, Parts, Zenon
  <2> QED
    BY <1>2, <1>3, <2>1, Zenon
<1>5. Len(p) \in Nat /\ Len(p) = k + Len(e)
  BY <1>1, <1>4, LenProperties
<1>6. Len(p) = k => p = q
  BY <1>1, <1>2, SubSeqFull
<1> QED
  BY <1>2, <1>4, <1>5, <1>6, Zenon

\* The filter of subcontainers_info takes a container and all that are below.
LEMMA SubtreeOfNames ==
    ASSUME NEW p \in Path, NEW q \in Path
    PROVE  InSubtree(Name(p), Name(q)) <=> Below(p, q)
<1>1. Joined(q) \in Word /\ Len(p) \in Nat /\ Len(q) \in Nat
  BY PathJoins, LenProperties
<1>2. InSubtree(Name(p), Name(q)) <=> Name(p) = Name(q) \/ \E u \in Word : Name(p) = Joined(q) \o (Slash \o u)
  <2>1. IsPrefix(Prefix(Name(q)), Name(p)) <=> IsPrefix(Joined(q) \o Slash, Name(p))
    BY PrefixOfName
  <2> QED
    BY <1>1, <2>1, BelowPrefix, Zenon DEF InSubtree
<1>3. Name(p) = Name(q) => Below(p, q)
  BY <1>1, NameInjective, PathJoins, SubSeqFull DEF Below
<1>4. ASSUME Below(p, q) PROVE Name(p) = Name(q) \/ \E u \in Word : Name(p) = Joined(q) \o (Slash \o u)
  <2>1. PICK e \in Seq(Segment) : p = q \o e /\ Len(p) = Len(q) + Len(e) /\ (Len(p) = Len(q) => p = q)
    BY <1>4, Rest
  <2>2. CASE e = <<>>
    BY <1>1, <2>1, <2>2, EmptySeq
  <2>3. CASE e # <<>>
    <3>1. Joined(p) = Joined(q) \o Joined(e)
      <4>1. q \in Seq(Word) /\ e \in Seq(Word)
        BY PathJoins, SegmentIsWord
      <4> QED
        BY <2>1, <4>1, JoinedConcat, Zenon
    <3>2. Joined(e) \in Word /\ Joined(e) # <<>> /\ Joined(e)[1] = "/"
      BY <2>3, JoinedIsWord, SegmentIsWord
    <3>3. PICK u \in Word : Joined(e) = Slash \o u
      BY <3>2, SlashFirst, Zenon
    <3>4. p # <<>>
      <4>1. Len(e) # 0 /\ Len(e) \in Nat
        BY <2>3, EmptySeq
      <4> QED
        BY <1>1, <2>1, <4>1, EmptySeq
    <3> QED
      BY <3>1, <3>3, <3>4, NameIs
  <2> QED
    BY <2>2, <2>3
<1> QED
  BY <1>2, <1>3, <1>4, GoesOn, Zenon

\* The filter of direct_children takes the containers one level down.
LEMMA ChildrenOfNames ==
    ASSUME NEW p \in Path, NEW q \in Path
    PROVE  DirectChild(Name(p), Name(q)) <=> Len(p) = Len(q) + 1 /\ Below(p, q)
<1>0. p \in Seq(Segment) /\ q \in Seq(Segment) /\ q \in Seq(Word) /\ Len(p) \in Nat /\ Len(q) \in Nat
  BY PathJoins, SegmentIsWord, LenProperties
<1>1. PICK y \in Word : y = Joined(q)
  BY PathJoins
<1>2. Prefix(Name(q)) = y \o Slash /\ Len(y \o Slash) = Len(y) + 1 /\ Len(y) \in Nat
  <2>1. Slash \in Word /\ Len(Slash) = 1
    BY CharsAssumption DEF Slash, Word
  <2>2. Len(y \o Slash) = Len(y) + Len(Slash) /\ Len(y) \in Nat
    BY <2>1, Concatenated
  <2> QED
    BY <1>1, <2>1, <2>2, PrefixOfName
<1>3. DirectChild(Name(p), Name(q)) <=>
        /\ \E u \in Word : Name(p) = y \o (Slash \o u)
        /\ Len(Name(p)) > Len(y) + 1
        /\ \A i \in (Len(y) + 2)..Len(Name(p)) : Name(p)[i] # "/"
  <2>1. IsPrefix(Prefix(Name(q)), Name(p)) <=> \E u \in Word : Name(p) = y \o (Slash \o u)
    BY <1>2, BelowPrefix, Zenon
  <2>2. (Len(y) + 1) + 1 = Len(y) + 2
    BY <1>2
  <2> QED
    BY <1>2, <2>1, <2>2, Zenon DEF DirectChild
<1>4. ASSUME NEW u \in Word, NEW w \in Word, w = y \o (Slash \o u)
      PROVE  /\ Len(w) = Len(y) + 1 + Len(u) /\ Len(u) \in Nat
             /\ \A k \in 1..Len(u) : w[Len(y) + 1 + k] = u[k]
  <2>1. /\ Len(y \o (Slash \o u)) = Len(y) + 1 + Len(u)
        /\ \A k \in 1..Len(u) : (y \o (Slash \o u))[Len(y) + 1 + k] = u[k]
    BY Slashed
  <2>2. Len(u) \in Nat
    BY LenProperties DEF Word
  <2> QED
    BY <1>4, <2>1, <2>2, Zenon
<1>5. ASSUME DirectChild(Name(p), Name(q)) PROVE Len(p) = Len(q) + 1 /\ Below(p, q)
  <2>1. PICK w \in Word : w = Name(p)
    BY NameIs
  <2>2. PICK u \in Word : w = y \o (Slash \o u)
    BY <1>3, <1>5, <2>1
  <2>3. Len(u) > 0 /\ \A k \in 1..Len(u) : u[k] # "/"
    <3>1. Len(w) > Len(y) + 1 /\ \A i \in (Len(y) + 2)..Len(w) : w[i] # "/"
      BY <1>3, <1>5, <2>1, Zenon
    <3>2. Len(w) = Len(y) + 1 + Len(u) /\ Len(u) \in Nat /\ \A k \in 1..Len(u) : w[Len(y) + 1 + k] = u[k]
      BY <1>4, <2>2
    <3>3. ASSUME NEW k \in 1..Len(u) PROVE u[k] # "/"
      <4>1. Len(y) + 1 + k \in (Len(y) + 2)..Len(w)
        BY <1>2, <3>2
      <4> QED
        BY <3>1, <3>2, <4>1
    <3> QED
      BY <1>2, <3>1, <3>2, <3>3
  <2>4. u \in Segment /\ u # <<>>
    <3>1. \A k \in 1..Len(u) : u[k] \in Chars \ {"/"}
      BY <2>3, ElementOfSeq DEF Word
    <3>2. SubSeq(u, 1, Len(u)) \in Seq(Chars \ {"/"})
      BY <2>3, <3>1, LenProperties, SubSeqProperties DEF Word
    <3>3. SubSeq(u, 1, Len(u)) = u
      BY SubSeqFull DEF Word
    <3> QED
      BY <2>3, <3>2, <3>3, EmptySeq DEF Segment
  <2>5. Name(p) = Joined(q) \o (Slash \o u)
    BY <1>1, <2>1, <2>2, Zenon
  <2>6. Below(p, q) /\ p # <<>>
    BY <2>4, <2>5, GoesOn
  <2>7. Append(q, u) \in Seq(Segment) /\ Len(Append(q, u)) = Len(q) + 1
    BY <1>0, <2>4, AppendProperties
  <2>8. Joined(p) = Joined(Append(q, u))
    BY <1>0, <2>5, <2>6, NameIs, JoinedAppend, Zenon
  <2>9. p = Append(q, u)
    BY <1>0, <2>7, <2>8, JoinedInjective, Zenon
  <2> QED
    BY <2>6, <2>7, <2>9
<1>6. ASSUME Len(p) = Len(q) + 1, Below(p, q) PROVE DirectChild(Name(p), Name(q))
  <2>1. PICK c \in Seq(Segment), u \in Segment : p = Append(c, u)
    <3>1. p # <<>>
      BY <1>0, <1>6, EmptySeq
    <3> QED
      BY <1>0, <3>1, SequenceEmptyOrAppend
  <2>2. c = q
    <3>1. Len(c) = Len(q) /\ \A i \in 1..Len(c) : p[i] = c[i]
      BY <1>0, <1>6, <2>1, AppendProperties, LenProperties
    <3>2. \A i \in 1..Len(q) : p[i] = q[i]
      <4>1. Len(q) \in 0..Len(p) /\ SubSeq(p, 1, Len(q)) = q
        BY <1>0, <1>6 DEF Below
      <4>2. \A i \in 1..Len(q) : SubSeq(p, 1, Len(q))[i] = p[i]
        BY <1>0, <4>1, Parts
      <4> QED
        BY <4>1, <4>2
    <3> QED
      BY <1>0, <3>1, <3>2, SeqEqual
  <2>3. u # <<>> /\ u \in Word /\ Len(u) \in Nat \ {0} /\ \A k \in 1..Len(u) : u[k] # "/"
    <3>1. u # <<>>
      <4>1. Len(p) \in 1..Len(p) /\ p[Len(p)] = u
        BY <1>0, <1>6, <2>1, AppendProperties, LenProperties
      <4> QED
        BY <4>1, ElementOfSeq DEF Path
    <3> QED
      BY <3>1, SegmentIsWord, EmptySeq, LenProperties, ElementOfSeq DEF Segment
  <2>4. p # <<>>
    BY <1>0, <1>6, EmptySeq
  <2>5. PICK w \in Word : w = Name(p)
    BY NameIs
  <2>6. w = y \o (Slash \o u)
    BY <1>0, <1>1, <2>1, <2>2, <2>3, <2>4, <2>5, NameIs, JoinedAppend, Zenon
  <2>7. Len(w) = Len(y) + 1 + Len(u) /\ \A k \in 1..Len(u) : w[Len(y) + 1 + k] = u[k]
    BY <1>4, <2>3, <2>6
  <2>8. ASSUME NEW i \in (Len(y) + 2)..Len(w) PROVE w[i] # "/"
    <3>1. i - (Len(y) + 1) \in 1..Len(u) /\ i = Len(y) + 1 + (i - (Len(y) + 1))
      BY <1>2, <2>3, <2>7
    <3>2. w[Len(y) + 1 + (i - (Len(y) + 1))] = u[i - (Len(y) + 1)]
      BY <2>7, <3>1
    <3> QED
      BY <2>3, <3>1, <3>2
  <2>9. Len(w) > Len(y) + 1
    BY <1>2, <2>3, <2>7
  <2> QED
    BY <1>3, <2>3, <2>5, <2>6, <2>8, <2>9, Zenon
<1> QED
  BY <1>5, <1>6

\* The name of a path without the slash of the root's.
LEMMA TrimmedName ==
    ASSUME NEW q \in Path
    PROVE  TrimEnd(Name(q)) = Joined(q)
<1>1. <<>> \in Word /\ Slashes(<<>>) /\ Trimmed(<<>>) /\ Slash \in Word /\ Slashes(Slash)
  BY CharsAssumption, EmptySeq DEF Word, Slashes, Trimmed, Slash
<1>2. CASE q = <<>>
  <2>1. TrimEnd(<<>> \o Slash) = <<>>
    BY <1>1, TrimEndIs
  <2>2. <<>> \o Slash = Slash
    BY <1>1, ConcatEmptySeq DEF Word
  <2> QED
    BY <1>2, <2>1, <2>2, NameIs, JoinedEmpty
<1>3. CASE q # <<>>
  <2>1. PICK x \in Word : x = Joined(q) /\ Trimmed(x)
    BY PathJoins
  <2>2. TrimEnd(x \o <<>>) = x
    BY <1>1, <2>1, TrimEndIs
  <2>3. x \o <<>> = x
    BY ConcatEmptySeq DEF Word
  <2> QED
    BY <1>3, <2>1, <2>2, <2>3, NameIs
<1> QED
  BY <1>2, <1>3

\* The scope of an event of a container: the container the arguments spell,
\* and those below it when they are asked for.
LEMMA EventsOfNames ==
    ASSUME NEW p \in Path, NEW args \in Seq(Segment), NEW below \in BOOLEAN,
           NEW P \in SUBSET Path, p \in P, \A k \in 0..Len(p) : SubSeq(p, 1, k) \in P
    PROVE  EventInScope(Name(p), ContainerName(args), below) <=>
               \E q \in P : Spells(args, q) /\ (p = q \/ (below /\ Below(p, q)))
<1>1. ASSUME NEW q \in P, Spells(args, q), p = q \/ (below /\ Below(p, q))
      PROVE  EventInScope(Name(p), ContainerName(args), below)
  <2>1. q \in Path /\ Name(q) = ContainerName(args)
    BY <1>1, SpelledName
  <2>2. CASE p = q
    BY <2>1, <2>2 DEF EventInScope
  <2>3. CASE below /\ Below(p, q)
    <3>1. Name(p) = Name(q) \/ IsPrefix(Joined(q) \o <<"/">>, Name(p))
      BY <2>1, <2>3, SubtreeOfNames, PrefixOfName, Zenon DEF InSubtree, Slash
    <3> QED
      BY <2>1, <2>3, <3>1, TrimmedName, Zenon DEF EventInScope
  <2> QED
    BY <1>1, <2>2, <2>3
<1>2. ASSUME Name(p) = ContainerName(args)
      PROVE  \E q \in P : Spells(args, q) /\ (p = q \/ (below /\ Below(p, q)))
  BY <1>2, NameIsSpelled
<1>3. ASSUME below, IsPrefix(TrimEnd(ContainerName(args)) \o <<"/">>, Name(p))
      PROVE  \E q \in P : Spells(args, q) /\ (p = q \/ (below /\ Below(p, q)))
  <2>1. PICK w \in Word : w = Joined(args)
    BY JoinedIsWord, SegmentIsWord
  <2>2. PICK y \in Word, t \in Word : w = y \o t /\ Trimmed(y) /\ Slashes(t) /\ TrimEnd(w) = y
    BY TrimEndGives
  <2>3. args \in {<<>>, <<<<>>>>} => y = <<>>
    <3>1. args \in {<<>>, <<<<>>>>} => Blank(args)
      BY EmptySeq DEF Blank
    <3>2. Blank(args) => Slashes(w)
      BY <2>1, BlankIsSlashes
    <3>3. Slashes(w) => y = <<>>
      <4> SUFFICES ASSUME Slashes(w), y # <<>> PROVE FALSE
        OBVIOUS
      <4>1. Len(y) \in Nat \ {0} /\ y[Len(y)] # "/"
        BY <2>2, EmptySeq, LenProperties DEF Trimmed, Word
      <4>2. /\ Len(y \o t) = Len(y) + Len(t) /\ Len(t) \in Nat
            /\ \A k \in 1..Len(y) : (y \o t)[k] = y[k]
        BY Concatenated
      <4>3. Len(w) = Len(y) + Len(t) /\ \A k \in 1..Len(y) : w[k] = y[k]
        BY <2>2, <4>2, Zenon
      <4>4. w[Len(y)] = y[Len(y)] /\ Len(y) \in 1..Len(w)
        BY <4>1, <4>2, <4>3
      <4> QED
        BY <4>1, <4>4 DEF Slashes
    <3> QED
      BY <3>1, <3>2, <3>3
  <2>4. ContainerName(args) = IF y = <<>> THEN Root ELSE y
    BY <2>1, <2>2, <2>3 DEF ContainerName
  <2>5. TrimEnd(ContainerName(args)) = y
    <3>1. <<>> \in Word /\ Slashes(<<>>) /\ y \o <<>> = y
      BY EmptySeq, ConcatEmptySeq DEF Word, Slashes
    <3>2. TrimEnd(y \o <<>>) = y
      BY <2>2, <3>1, TrimEndIs
    <3>3. <<>> \in Path /\ Name(<<>>) = Root /\ Joined(<<>>) = <<>>
      BY EmptySeq, JoinedEmpty DEF Path, Name
    <3>4. TrimEnd(Root) = <<>>
      BY <3>3, TrimmedName
    <3> QED
      BY <2>4, <3>1, <3>2, <3>4
  <2>6. PICK u \in Word : Name(p) = y \o (Slash \o u)
    BY <1>3, <2>5, BelowPrefix DEF Slash
  <2>7. PICK q \in P : q \in Path /\ Joined(q) = y /\ Below(p, q)
    <3>1. CASE p = <<>>
      <4>1. PICK v \in Word : v = Slash \o u /\ Len(v) = Len(u) + 1
        BY SlashedIsWord
      <4>2. Slash = y \o v /\ Len(Slash) = 1
        BY <2>6, <3>1, <4>1, NameIs DEF Slash
      <4>3. Len(y \o v) = Len(y) + Len(v) /\ Len(y) \in Nat /\ Len(u) \in Nat
        BY Concatenated, LenProperties DEF Word
      <4>4. Len(y) = 0
        BY <4>1, <4>2, <4>3
      <4>5. y = <<>>
        BY <4>4, EmptySeq DEF Word
      <4>6. Below(p, p)
        BY <3>1, EmptySeq, SubSeqEmpty DEF Below
      <4>7. Joined(p) = y
        BY <3>1, <4>5, JoinedEmpty
      <4> QED
        BY <4>6, <4>7
    <3>2. CASE p # <<>>
      <4>1. Joined(p) = y \o (Slash \o u) /\ AtSlash(Slash \o u) /\ Slash \o u \in Word
        BY <2>6, <3>2, NameIs, SlashedIsWord DEF AtSlash
      <4>2. PICK k \in 0..Len(p) : y = Joined(SubSeq(p, 1, k))
        <5>1. PICK v \in Word : v = Slash \o u
          BY <4>1
        <5> QED
          BY <4>1, <5>1, PathJoins, CutBetween
      <4>3. SubSeq(p, 1, k) \in P /\ Len(SubSeq(p, 1, k)) = k
        BY PathJoins, Parts
      <4>4. PICK q : q = SubSeq(p, 1, k)
        OBVIOUS
      <4>5. q \in P /\ Len(q) = k /\ Joined(q) = y /\ q = SubSeq(p, 1, k)
        BY <4>2, <4>3, <4>4, Zenon
      <4>6. Below(p, q)
        <5>1. k <= Len(p)
          BY LenProperties DEF Path
        <5> QED
          BY <4>5, <5>1, Zenon DEF Below
      <4> QED
        BY <4>5, <4>6
    <3> QED
      BY <3>1, <3>2
  <2>8. Name(q) = ContainerName(args)
    BY <2>4, <2>7, NameIs, PathJoins, Zenon DEF Root, Slash
  <2> QED
    BY <1>3, <2>7, <2>8, NameIsSpelled
<1> QED
  BY <1>1, <1>2, <1>3, Zenon DEF EventInScope
-----------------------------------------------------------------------------
(* Requests: the inductive invariant.                                      *)

\* The requests that read containers, and how they come to read them.
ReadKinds == {"containers", "subcontainers", "docker", "stats20", "stats21", "machinestats",
              "spec", "summary", "metrics"}
Kinds == ReadKinds \cup Lists \cup {"events", "ps"}

SpecType == [has_cpu : BOOLEAN, has_memory : BOOLEAN, quota : Nat]
Latest == {SampleAt(p, n) : p \in Paths, n \in 1..MaxSamples}
SomeSpec == Seq(SpecType)
Stats == SUBSET [sample : Int, memory : BOOLEAN]
Children == SUBSET Paths
SomeLatest == Seq(Latest)
Disks == SUBSET Devices
Entry == [path : Paths, spec1 : SomeSpec, spec : SomeSpec, stats : Stats,
          children : Children, latest : SomeLatest, disks : Disks]
Points == {"arrive", "look", "collect", "read", "procs", "pids", "done"}
Statuses == {200, 400, 500}
ToDo == SUBSET (Handles \cup Pids)
ToList == SUBSET (Paths \cup Pids)
TaskType == [pc : Points, status : Statuses, todo : ToDo, k : Nat, cur : Handles, entry : Entry,
             out : Seq(Entry), listed : ToList, missed : SUBSET Pids]

RequestTypes ==
    /\ containers \in [Paths -> 0..MaxGen]
    /\ spec \in [Paths -> [1..MaxGen -> Specs]]
    /\ samples \in [Paths -> [1..MaxGen -> 0..MaxSamples]]
    /\ disks \subseteq Devices /\ alive \subseteq Pids
    /\ req \in Asked
    /\ task \in TaskType
    /\ was \in [always : SUBSET Paths, ever : SUBSET Paths,
                samples : [Paths -> [1..MaxGen -> 0..MaxSamples]], limits : [Paths -> Seq(Specs)]]

\* The last limits that the history has of a path are those its first handle has.
Limited == \A p \in Paths : was.limits[p] # <<>> /\ was.limits[p][Len(was.limits[p])] = spec[p][1]

\* What the history says of what there is.
History ==
    /\ <<>> \in was.always /\ Registered \subseteq was.ever
    /\ \A p \in was.always : containers[p] = 1
    /\ \A p \in Paths : was.samples[p][1] <= samples[p][1]
    /\ Limited

\* The kinds that come to each point of a request.
Position ==
    /\ task.pc = "look" =>
          ~ByMetadata /\ Kind \in {"containers", "subcontainers", "stats20", "stats21", "machinestats",
                                   "spec", "summary", "ps"}
    /\ task.pc = "collect" =>
          Kind = "metrics" \/ ByMetadata \/ (Recursive /\ \E q \in Paths : Spells(req.args, q))
    /\ task.pc = "read" => Kind \in ReadKinds /\ task.todo \subseteq Handles
    /\ task.pc \in {"procs", "pids"} => Kind = "ps"
    /\ task.pc = "pids" => task.todo \subseteq Pids
    /\ task.pc = "done" /\ Kind \in ReadKinds /\ task.status = 200 => task.todo = {}
    /\ task.pc \in {"arrive", "look", "collect"} => task.out = <<>> /\ task.k = 0
    /\ task.pc \in {"arrive", "look", "collect", "read", "procs"} => task.status = 200
    /\ task.k = 0 => task.entry = NoEntry
    /\ task.k > 0 => task.pc = "read" /\ task.cur \in task.todo /\ task.entry.path = task.cur.path
                     /\ task.k < Len(Program(Kind))
    /\ task.out # <<>> => Kind \in ReadKinds

\* The containers an answer must have.
AboutSet == {p \in Paths : About(p) /\ (Kind = "stats21" => p # <<>>)}
Pending == {h.path : h \in task.todo}
\* Every container that is about is answered or going to be, once.
Accounted ==
    task.pc = "read" \/ (Done(200) /\ Kind \in ReadKinds) =>
        /\ was.always \cap AboutSet \subseteq Answered \cup Pending
        /\ Answered \cup Pending \subseteq was.ever \cap AboutSet
        /\ \A g, h \in task.todo : g.path = h.path => g = h
        /\ Answered \cap Pending = {}
        /\ \A i, j \in DOMAIN task.out : task.out[i].path = task.out[j].path => i = j
        /\ \A h \in task.todo : h.path \in was.always => h.gen = 1

\* What has been read of an entry after the first n reads.
HasRead(what, n) == \E i \in 1..n : Program(Kind)[i] = what
Kids(p) == {q \in Paths : Len(q) = Len(p) + 1 /\ Below(q, p)}
\* The limits that are read first are those of one moment, and the ones read
\* next are of that moment or a later one.
LimitsOk(e) ==
    e.path \in was.always /\ e.spec1 # <<>> =>
        \E i \in DOMAIN was.limits[e.path] :
            /\ e.spec1[1].has_memory = was.limits[e.path][i].has_memory
            /\ e.spec # <<>> => \E j \in i..Len(was.limits[e.path]) : e.spec = <<V2Spec(was.limits[e.path][j])>>
\* The samples of a v2 answer are shown by the limits that are read first.
StatsOk(e) ==
    Kind \in {"stats20", "stats21", "machinestats"} =>
        \A s \in e.stats : e.spec1 # <<>> /\ s.memory = e.spec1[1].has_memory
EntryOk(e, n) ==
    /\ e.spec1 # <<>> => Kind \in {"stats20", "stats21", "machinestats"}
    /\ e.spec1 # <<>> <=> HasRead("spec1", n)
    /\ e.spec # <<>> => Kind \in {"containers", "subcontainers", "docker", "stats21", "spec", "metrics"}
    /\ e.spec # <<>> <=> HasRead("spec", n)
    /\ LimitsOk(e) /\ StatsOk(e)
    /\ HasRead("children", n) => was.always \cap Kids(e.path) \subseteq e.children
                                 /\ e.children \subseteq was.ever \cap Kids(e.path)
    /\ HasRead("stats", n) /\ e.path \in was.always /\ Limit # 0 /\ was.samples[e.path][1] > 0
          => \E s \in e.stats : s.sample >= was.samples[e.path][1]
Entries ==
    /\ \A i \in DOMAIN task.out : EntryOk(task.out[i], Len(Program(Kind)))
    /\ task.k > 0 => EntryOk(task.entry, task.k)

\* The other answers.
Others ==
    /\ task.pc = "pids" => alive \subseteq task.listed \cup task.missed \cup task.todo
    /\ Done(200) /\ Kind = "ps" /\ (\E p \in was.always : About(p)) =>
           alive \subseteq task.listed \cup task.missed
    /\ Done(200) /\ Kind = "events" =>
           task.listed = {p \in Paths : EventInScope(Name(p), Target, req.recursive)}
    /\ Done(500) /\ Kind # "unknown" => \A p \in was.always : ~Sought(p)

RequestsInv == RequestTypes /\ History /\ Position /\ Accounted /\ Entries /\ Others
-----------------------------------------------------------------------------
\* The kinds of requests there are: every route leads to one of them.
LEMMA RouteKinds == \A r : Route(r) \in Kinds
<1>1. \A v, t : HandleV1(v, t) \in Kinds
  BY DEF HandleV1, Kinds, ReadKinds, Lists
<1>2. \A v, t : HandleV2(v, t) \in Kinds
  BY DEF HandleV2, Kinds, ReadKinds, Lists
<1>3. {"events", "listing", "unknown", "metrics"} \subseteq Kinds
  BY DEF Kinds, ReadKinds, Lists
<1> QED
  BY <1>1, <1>2, <1>3 DEF Route

\* What a request asks does not change.
LEMMA AskedStays ==
    ASSUME req' = req
    PROVE  /\ Kind' = Kind /\ ByMetadata' = ByMetadata /\ Recursive' = Recursive
           /\ Target' = Target /\ Limit' = Limit /\ AboutSet' = AboutSet
           /\ \A p : About(p)' = About(p) /\ Sought(p)' = Sought(p)
           /\ \A what, n : HasRead(what, n)' = HasRead(what, n)
<1>1. Kind' = Kind
  BY DEF Kind
<1>2. ByMetadata' = ByMetadata /\ Recursive' = Recursive /\ Target' = Target /\ Limit' = Limit
  BY <1>1 DEF ByMetadata, Recursive, Target, Limit
<1>3. \A p : About(p)' = About(p)
  BY <1>1, <1>2 DEF About
<1>4. \A p : Sought(p)' = Sought(p)
  BY <1>2, <1>3 DEF Sought
<1>5. AboutSet' = AboutSet
  BY <1>1, <1>3 DEF AboutSet
<1>6. \A what, n : HasRead(what, n)' = HasRead(what, n)
  BY <1>1 DEF HasRead
<1> QED
  BY <1>1, <1>2, <1>3, <1>4, <1>5, <1>6

\* What each kind of request reads.
LEMMA Programs ==
    ASSUME NEW kind \in ReadKinds
    PROVE  /\ Len(Program(kind)) \in 1..3
           /\ \A i \in 1..Len(Program(kind)) :
                 /\ Program(kind)[i] \in {"stats", "children", "spec1", "spec", "latest", "disks"}
                 /\ Program(kind)[i] = "spec1" => kind \in {"stats20", "stats21", "machinestats"}
                 /\ Program(kind)[i] = "spec" =>
                       kind \in {"containers", "subcontainers", "docker", "stats21", "spec", "metrics"}
           /\ Range(Program(kind)) = {Program(kind)[i] : i \in 1..Len(Program(kind))}
           /\ kind \in {"containers", "subcontainers"} => Program(kind)[2] = "children" /\ Len(Program(kind)) = 3
           /\ kind \in {"stats20", "stats21", "machinestats"} =>
                 \A i \in 1..Len(Program(kind)) : Program(kind)[i] = "spec1" <=> i = 1
           /\ kind = "stats21" => Program(kind)[2] = "spec" /\ Len(Program(kind)) = 3
<1>1. /\ kind \in {"containers", "subcontainers"} => Program(kind) = <<"stats", "children", "spec">>
      /\ kind = "docker" => Program(kind) = <<"stats", "spec">>
      /\ kind = "stats21" => Program(kind) = <<"spec1", "spec", "stats">>
      /\ kind \in {"stats20", "machinestats"} => Program(kind) = <<"spec1", "stats">>
      /\ kind = "spec" => Program(kind) = <<"spec">>
      /\ kind = "summary" => Program(kind) = <<"stats">>
      /\ kind = "metrics" => Program(kind) = <<"spec", "latest", "disks">>
  BY DEF Program
<1>2. DOMAIN Program(kind) = 1..Len(Program(kind))
  BY <1>1 DEF ReadKinds
<1> QED
  BY <1>1, <1>2 DEF ReadKinds, Range

\* The container a request names by its path.
LEMMA SpelledIsNamed ==
    ASSUME RequestTypes, NEW p \in Paths
    PROVE  /\ p \in Path /\ req.args \in Seq(Segment)
           /\ Name(p) = ContainerName(req.args) <=> Spells(req.args, p)
<1>1. p \in Path /\ req.args \in Seq(Segment)
  BY PathsAssumption, AskedAssumption DEF RequestTypes
<1> QED
  BY <1>1, SpelledName, NameIsSpelled

\* The root, and nothing else, has the root's name.
LEMMA RootIsNamed == <<>> \in Paths /\ <<>> \in Path /\ Name(<<>>) = Root /\ \A p \in Paths : Name(p) = Root => p = <<>>
<1>1. <<>> \in Paths /\ Paths \subseteq Path
  BY PathsAssumption
<1> QED
  BY <1>1, NameIs

\* Looking a container up finds the one that is sought.
LEMMA LookFinds ==
    ASSUME RequestTypes, ~ByMetadata, NEW p \in Paths,
           Kind \in {"containers", "subcontainers", "stats20", "stats21", "machinestats",
                     "spec", "summary", "ps"}
    PROVE  Name(p) = Target <=> Sought(p)
<1>1. CASE Kind = "machinestats"
  <2>1. Target = Root /\ ~Recursive /\ (About(p) <=> p = <<>>)
    BY <1>1 DEF Target, Recursive, Resolved, About
  <2> QED
    BY <2>1, RootIsNamed DEF Sought
<1>2. CASE Kind # "machinestats"
  <2>1. Target = ContainerName(req.args)
    BY <1>2 DEF Target
  <2>2. ~Recursive => (About(p) <=> Spells(req.args, p))
    BY <1>2 DEF About
  <2> QED
    BY <2>1, <2>2, SpelledIsNamed DEF Sought
<1> QED
  BY <1>1, <1>2

\* A request for one container reads the one it is about, if it may be shown.
LEMMA LookLists ==
    ASSUME RequestTypes, ~ByMetadata, ~Recursive, NEW p \in Paths,
           Kind \in {"containers", "subcontainers", "stats20", "stats21", "machinestats",
                     "spec", "summary"}
    PROVE  Name(p) = Target /\ Listed(p) <=> p \in AboutSet
<1>1. Name(p) = Target <=> About(p)
  BY LookFinds DEF Sought
<1>2. Name(p) = Target => (Listed(p) <=> (Kind = "stats21" => p # <<>>))
  BY DEF Listed, InSubtree
<1> QED
  BY <1>1, <1>2 DEF AboutSet

\* A list has the containers that the answer is about.
LEMMA CollectLists ==
    ASSUME RequestTypes, NEW p \in Paths,
           Kind = "metrics" \/ ByMetadata \/ (Recursive /\ \E q \in Paths : Spells(req.args, q))
    PROVE  Listed(p) <=> p \in AboutSet
<1>1. CASE Kind = "metrics"
  <2>0. ~ByMetadata /\ ~Recursive /\ Kind # "machinestats"
    BY <1>1 DEF ByMetadata, Recursive, Resolved
  <2>1. About(p)
    BY <1>1, <2>0 DEF About
  <2>2. Listed(p) <=> (Kind = "stats21" => p # <<>>)
    BY <1>1, <2>0 DEF Listed
  <2> QED
    BY <2>1, <2>2 DEF AboutSet
<1>2. CASE Kind # "metrics" /\ ByMetadata
  <2>1. Kind # "machinestats"
    BY <1>2 DEF ByMetadata, Resolved
  <2>2. Named(Meta[p], TrimStart(Target)) => Meta[p].namespace # ""
    BY Zenon DEF Named
  <2>3. Listed(p) <=> (Kind = "stats21" => p # <<>>) /\ Named(Meta[p], TrimStart(Target))
    BY <1>2 DEF Listed
  <2>4. About(p) <=> Meta[p].namespace # "" /\ Named(Meta[p], TrimStart(Target))
    BY <1>2, <2>1 DEF About
  <2> QED
    BY <2>2, <2>3, <2>4 DEF AboutSet
<1>3. CASE Kind # "metrics" /\ ~ByMetadata
  <2>1. Kind # "machinestats" /\ Recursive
    BY <1>3 DEF Recursive, Resolved
  <2>2. Target = ContainerName(req.args)
    BY <2>1 DEF Target
  <2>3. PICK q \in Paths : Spells(req.args, q)
    BY <1>3
  <2>4. q \in Path /\ p \in Path /\ Name(q) = Target
    BY <2>2, <2>3, SpelledIsNamed
  <2>5. InSubtree(Name(p), Target) <=> Below(p, q)
    BY <2>4, SubtreeOfNames
  <2>6. ASSUME NEW r \in Paths, Spells(req.args, r) PROVE r = q
    <3>1. r \in Path /\ Name(r) = Target
      BY <2>2, <2>6, SpelledIsNamed
    <3> QED
      BY <2>4, <3>1, NameInjective
  <2>7. About(p) <=> Below(p, q)
    BY <1>3, <2>1, <2>3, <2>6 DEF About
  <2>8. Listed(p) <=> (Kind = "stats21" => p # <<>>) /\ InSubtree(Name(p), Target)
    BY <1>3 DEF Listed
  <2> QED
    BY <2>5, <2>7, <2>8 DEF AboutSet
<1> QED
  BY <1>1, <1>2, <1>3
-----------------------------------------------------------------------------
\* A request that comes satisfies the invariant.
LEMMA InitRequests == Init => RequestsInv
<1> SUFFICES ASSUME Init PROVE RequestsInv
  OBVIOUS
<1> USE DEF Init
<1>1. PICK S \in Present : containers = [p \in Paths |-> IF p \in S THEN 1 ELSE 0]
  OBVIOUS
<1>2. /\ <<>> \in S /\ S \subseteq Paths /\ <<>> \in Paths /\ 1 \in 1..MaxGen /\ MaxGen \in Nat
      /\ MaxSamples - 1 \in 0..MaxSamples /\ 0 \in 0..MaxSamples
  BY PathsAssumption, BoundsAssumption
<1>3. Registered = S
  BY <1>1, <1>2 DEF Registered
<1>4. \A p \in Paths : Given[p] \in Specs
  BY SpecsAssumption
<1>5. task = Task("arrive") /\ task.pc = "arrive" /\ task.todo = {} /\ task.k = 0 /\ task.out = <<>>
      /\ task.entry = NoEntry /\ task.status = 200
  BY DEF Task
<1>6. task \in TaskType
  <2>1. NoEntry \in Entry
    BY <1>2, EmptySeq DEF NoEntry, Entry, SomeSpec, Stats, Children, SomeLatest, Disks
  <2>2. [path |-> <<>>, gen |-> 1] \in Handles
    BY <1>2 DEF Handles
  <2> QED
    BY <1>5, <2>1, <2>2, EmptySeq DEF Task, TaskType, Points, Statuses, ToDo, ToList
<1>7. RequestTypes
  <2>1. containers \in [Paths -> 0..MaxGen]
    BY <1>1, <1>2
  <2>2. spec \in [Paths -> [1..MaxGen -> Specs]]
    BY <1>4
  <2>3. samples \in [Paths -> [1..MaxGen -> 0..MaxSamples]]
    BY <1>2
  <2>4. [p \in Paths |-> <<Given[p]>>] \in [Paths -> Seq(Specs)]
    <3>1. ASSUME NEW p \in Paths PROVE <<Given[p]>> \in Seq(Specs)
      BY <1>4
    <3> QED
      BY <3>1
  <2>5. was \in [always : SUBSET Paths, ever : SUBSET Paths,
                samples : [Paths -> [1..MaxGen -> 0..MaxSamples]], limits : [Paths -> Seq(Specs)]]
    BY <1>2, <1>3, <2>3, <2>4
  <2> QED
    BY <1>6, <2>1, <2>2, <2>3, <2>5 DEF RequestTypes
<1>8. History
  <2>1. ASSUME NEW p \in Paths
        PROVE  was.limits[p] # <<>> /\ was.limits[p][Len(was.limits[p])] = spec[p][1]
    <3>1. was.limits[p] = <<Given[p]>> /\ spec[p][1] = Given[p]
      BY <1>2
    <3> QED
      BY <3>1
  <2> QED
    BY <1>1, <1>2, <1>3, <2>1 DEF History, Limited
<1>9. Position
  BY <1>5 DEF Position
<1>10. Accounted /\ Entries /\ Others
  BY <1>5 DEF Accounted, Entries, Others, Done
<1> QED
  BY <1>7, <1>8, <1>9, <1>10 DEF RequestsInv
-----------------------------------------------------------------------------
\* A sequence gets more elements, or none.
Grows(s, t) ==
    \A i \in DOMAIN s : /\ i \in DOMAIN t /\ t[i] = s[i]
                        /\ \A j \in i..Len(s) : j \in i..Len(t) /\ t[j] = s[j]

LEMMA GrowsByNothing == \A s : Grows(s, s)
BY DEF Grows

LEMMA GrowsByOne ==
    ASSUME NEW T, NEW s \in Seq(T), NEW x \in T
    PROVE  /\ Append(s, x) \in Seq(T) /\ Grows(s, Append(s, x))
           /\ Append(s, x) # <<>> /\ Append(s, x)[Len(Append(s, x))] = x
<1>1. PICK n \in Nat : n = Len(s) /\ DOMAIN s = 1..n
  OBVIOUS
<1>2. PICK t \in Seq(T) : t = Append(s, x)
  BY AppendProperties
<1>3. Len(t) = n + 1 /\ DOMAIN t = 1..(n + 1) /\ t[n + 1] = x /\ \A i \in 1..n : t[i] = s[i]
  BY <1>1, <1>2, AppendProperties
<1>4. Grows(s, t)
  BY <1>1, <1>3 DEF Grows
<1> QED
  BY <1>1, <1>2, <1>3, <1>4

\* What was read of an entry stays right while containers come and go.
LEMMA EntryStays ==
    ASSUME req' = req, was'.always \subseteq was.always, was.ever \subseteq was'.ever,
           \A p \in was.always : Grows(was.limits[p], was'.limits[p]), was'.samples = was.samples,
           NEW e, NEW n, EntryOk(e, n)
    PROVE  EntryOk(e, n)'
<1>1. /\ Kind' = Kind /\ Limit' = Limit
      /\ HasRead("children", n)' = HasRead("children", n)
      /\ HasRead("stats", n)' = HasRead("stats", n)
      /\ HasRead("spec", n)' = HasRead("spec", n)
      /\ HasRead("spec1", n)' = HasRead("spec1", n)
  BY AskedStays
<1>2. Kids(e.path)' = Kids(e.path)
  BY DEF Kids
<1> HIDE DEF Kids, Kind, Limit, HasRead
<1>3. /\ e.spec1 # <<>> => Kind' \in {"stats20", "stats21", "machinestats"}
      /\ e.spec # <<>> => Kind' \in {"containers", "subcontainers", "docker", "stats21", "spec", "metrics"}
      /\ e.spec # <<>> <=> HasRead("spec", n)'
      /\ e.spec1 # <<>> <=> HasRead("spec1", n)'
  BY <1>1 DEF EntryOk
<1>4. LimitsOk(e)' /\ StatsOk(e)'
  <2>1. ASSUME e.path \in was'.always, e.spec1 # <<>>
        PROVE  \E i \in DOMAIN was'.limits[e.path] :
                  /\ e.spec1[1].has_memory = was'.limits[e.path][i].has_memory
                  /\ e.spec # <<>> => \E j \in i..Len(was'.limits[e.path]) :
                                        e.spec = <<V2Spec(was'.limits[e.path][j])>>
    <3>1. PICK i \in DOMAIN was.limits[e.path] :
             /\ e.spec1[1].has_memory = was.limits[e.path][i].has_memory
             /\ e.spec # <<>> => \E j \in i..Len(was.limits[e.path]) : e.spec = <<V2Spec(was.limits[e.path][j])>>
      BY <2>1 DEF EntryOk, LimitsOk
    <3>2. Grows(was.limits[e.path], was'.limits[e.path])
      BY <2>1
    <3>3. /\ i \in DOMAIN was'.limits[e.path] /\ was'.limits[e.path][i] = was.limits[e.path][i]
          /\ \A j \in i..Len(was.limits[e.path]) :
                j \in i..Len(was'.limits[e.path]) /\ was'.limits[e.path][j] = was.limits[e.path][j]
      BY <3>1, <3>2 DEF Grows
    <3>4. ASSUME e.spec # <<>>
          PROVE  \E j \in i..Len(was'.limits[e.path]) : e.spec = <<V2Spec(was'.limits[e.path][j])>>
      <4>1. PICK j \in i..Len(was.limits[e.path]) : e.spec = <<V2Spec(was.limits[e.path][j])>>
        BY <3>1, <3>4, Zenon
      <4>2. j \in i..Len(was'.limits[e.path]) /\ was'.limits[e.path][j] = was.limits[e.path][j]
        BY <3>3, <4>1
      <4> QED
        BY <4>1, <4>2, Zenon
    <3> QED
      BY <3>1, <3>3, <3>4, Zenon
  <2>2. StatsOk(e)
    BY DEF EntryOk
  <2> QED
    BY <1>1, <2>1, <2>2 DEF LimitsOk, StatsOk
<1>5. HasRead("children", n)' => was'.always \cap Kids(e.path)' \subseteq e.children
                                 /\ e.children \subseteq was'.ever \cap Kids(e.path)'
  BY <1>1, <1>2 DEF EntryOk
<1>6. HasRead("stats", n)' /\ e.path \in was'.always /\ Limit' # 0 /\ was'.samples[e.path][1] > 0
          => \E s \in e.stats : s.sample >= was'.samples[e.path][1]
  BY <1>1 DEF EntryOk
<1> QED
  BY <1>3, <1>4, <1>5, <1>6 DEF EntryOk

\* ... and while nothing does.
LEMMA EntryRests ==
    ASSUME req' = req, was' = was, NEW e, NEW n, EntryOk(e, n)
    PROVE  EntryOk(e, n)'
BY EntryStays, GrowsByNothing

\* A step of the rest of the program, by what it may do to what a request has read.
LEMMA EnvInvariant ==
    ASSUME RequestsInv, req' = req, task' = task, task.pc \notin {"arrive", "done"},
           was'.always \subseteq was.always, was.ever \subseteq was'.ever,
           \A p \in was.always : Grows(was.limits[p], was'.limits[p]),
           was'.samples = was.samples, alive' \subseteq alive
    PROVE  (Position /\ Accounted /\ Entries /\ Others)'
<1> USE DEF RequestsInv
<1>1. Kind' = Kind /\ ByMetadata' = ByMetadata /\ Recursive' = Recursive /\ AboutSet' = AboutSet
  BY AskedStays
<1>2. Position'
  BY <1>1 DEF Position
<1>3. Accounted'
  <2>1. ~Done(200)' /\ Answered' = Answered /\ Pending' = Pending
    BY DEF Done, Answered, Pending
  <2>2. CASE task.pc = "read"
    <3>1. /\ was.always \cap AboutSet \subseteq Answered \cup Pending
          /\ Answered \cup Pending \subseteq was.ever \cap AboutSet
          /\ \A g, h \in task.todo : g.path = h.path => g = h
          /\ Answered \cap Pending = {}
          /\ \A i, j \in DOMAIN task.out : task.out[i].path = task.out[j].path => i = j
          /\ \A h \in task.todo : h.path \in was.always => h.gen = 1
      BY <2>2 DEF Accounted
    <3> HIDE DEF RequestsInv
    <3> QED
      BY <1>1, <2>1, <3>1 DEF Accounted
  <2>3. CASE task.pc # "read"
    BY <2>1, <2>3 DEF Accounted
  <2> QED
    BY <2>2, <2>3
<1>4. Entries'
  <2>1. ASSUME NEW i \in DOMAIN task.out PROVE EntryOk(task.out[i], Len(Program(Kind)))'
    <3>1. PICK e, n : e = task.out[i] /\ n = Len(Program(Kind)) /\ e = task'.out[i] /\ n = Len(Program(Kind'))
      BY <1>1
    <3>2. EntryOk(e, n)
      BY <3>1 DEF Entries
    <3>3. EntryOk(e, n)'
      BY <3>2, EntryStays
    <3> QED
      BY <3>1, <3>3
  <2>2. ASSUME task.k > 0 PROVE EntryOk(task.entry, task.k)'
    <3>1. PICK e, n : e = task.entry /\ n = task.k /\ e = task'.entry /\ n = task'.k
      OBVIOUS
    <3>2. EntryOk(e, n)
      BY <2>2, <3>1 DEF Entries
    <3>3. EntryOk(e, n)'
      BY <3>2, EntryStays
    <3> QED
      BY <3>1, <3>3
  <2> QED
    BY <2>1, <2>2 DEF Entries
<1>5. Others'
  BY DEF Others, Done
<1> QED
  BY <1>2, <1>3, <1>4, <1>5

WasType == [always : SUBSET Paths, ever : SUBSET Paths,
            samples : [Paths -> [1..MaxGen -> 0..MaxSamples]], limits : [Paths -> Seq(Specs)]]

\* The history, when a container is added.
LEMMA EverGrows ==
    ASSUME was \in WasType, NEW p \in Paths, was' = [was EXCEPT !.ever = @ \cup {p}]
    PROVE  /\ was' \in WasType
           /\ was'.always = was.always /\ was'.ever = was.ever \cup {p} /\ was'.samples = was.samples /\ was'.limits = was.limits
<1>1. PICK S \in SUBSET Paths : S = was.ever \cup {p}
  BY DEF WasType
<1>2. was' = [was EXCEPT !.ever = S]
  BY <1>1
<1> QED
  BY <1>1, <1>2 DEF WasType

\* The history, when a container is removed.
LEMMA AlwaysShrinks ==
    ASSUME was \in WasType, NEW p \in Paths, was' = [was EXCEPT !.always = @ \ {p}]
    PROVE  /\ was' \in WasType
           /\ was'.always = was.always \ {p} /\ was'.ever = was.ever /\ was'.samples = was.samples /\ was'.limits = was.limits
<1>1. PICK S \in SUBSET Paths : S = was.always \ {p}
  BY DEF WasType
<1>2. was' = [was EXCEPT !.always = S]
  BY <1>1
<1> QED
  BY <1>1, <1>2 DEF WasType

\* The history, when limits are read again.
LEMMA LimitsGrow ==
    ASSUME was \in WasType, NEW p \in Paths, NEW x \in Specs,
           was' = [was EXCEPT !.limits[p] = Append(@, x)]
    PROVE  /\ was' \in WasType
           /\ was'.always = was.always /\ was'.ever = was.ever /\ was'.samples = was.samples
           /\ was'.limits = [was.limits EXCEPT ![p] = Append(was.limits[p], x)]
<1>1. PICK s \in Seq(Specs) : s = Append(was.limits[p], x)
  <2>1. was.limits[p] \in Seq(Specs)
    BY DEF WasType
  <2> QED
    BY <2>1, AppendProperties
<1>2. PICK l \in [Paths -> Seq(Specs)] : l = [was.limits EXCEPT ![p] = s]
  BY DEF WasType
<1>3. was' = [was EXCEPT !.limits = l]
  BY <1>1, <1>2 DEF WasType
<1> QED
  BY <1>1, <1>2, <1>3 DEF WasType

\* One value of a function of functions changes.
LEMMA NestedUpdate ==
    ASSUME NEW A, NEW B, NEW C, NEW f \in [A -> [B -> C]], NEW a \in A, NEW b \in B, NEW c \in C
    PROVE  [f EXCEPT ![a][b] = c] \in [A -> [B -> C]]
OBVIOUS

\* A container is added: it need not be answered, and may be.
LEMMA AddInvariant ==
    ASSUME RequestsInv, NEW p \in Paths, AddContainer(p)
    PROVE  RequestsInv'
<1> USE DEF RequestsInv, RequestTypes, History, AddContainer, Change
<1>3. /\ was' \in WasType
      /\ was'.always = was.always /\ was'.ever = was.ever \cup {p} /\ was'.samples = was.samples /\ was'.limits = was.limits
  <2>1. was \in WasType /\ was' = [was EXCEPT !.ever = @ \cup {p}]
    BY DEF WasType
  <2> HIDE DEF RequestsInv, RequestTypes, History, AddContainer, RemoveContainer, Refresh, Change
  <2> QED
    BY <2>1, EverGrows
<1>4. PICK g \in 1..MaxGen : containers' = [containers EXCEPT ![p] = g]
  OBVIOUS
<1>5. RequestTypes'
  <2>1. containers' \in [Paths -> 0..MaxGen]
    BY <1>4, BoundsAssumption
  <2> QED
    BY <1>3, <2>1 DEF WasType
<1>6. History'
  <2>1. p \notin was.always
    OBVIOUS
  <2>2. Registered' = Registered \cup {p}
    BY <1>4, BoundsAssumption DEF Registered
  <2> QED
    BY <1>3, <1>4, <2>1, <2>2 DEF Limited
<1> QED
  BY <1>3, <1>5, <1>6, GrowsByNothing, EnvInvariant

\* A container is removed: it need not be answered any more.
LEMMA RemoveInvariant ==
    ASSUME RequestsInv, NEW p \in Paths, RemoveContainer(p)
    PROVE  RequestsInv'
<1> USE DEF RequestsInv, RequestTypes, History, RemoveContainer, Change
<1>3. /\ was' \in WasType
      /\ was'.always = was.always \ {p} /\ was'.ever = was.ever /\ was'.samples = was.samples /\ was'.limits = was.limits
  <2>1. was \in WasType /\ was' = [was EXCEPT !.always = @ \ {p}]
    BY DEF WasType
  <2> HIDE DEF RequestsInv, RequestTypes, History, AddContainer, RemoveContainer, Refresh, Change
  <2> QED
    BY <2>1, AlwaysShrinks
<1>4. RequestTypes'
  <2>1. containers' \in [Paths -> 0..MaxGen]
    BY BoundsAssumption
  <2> QED
    BY <1>3, <2>1 DEF WasType
<1>5. History'
  <2>1. Registered' \subseteq Registered
    BY DEF Registered
  <2> QED
    BY <1>3, <2>1 DEF Limited
<1> QED
  BY <1>3, <1>4, <1>5, GrowsByNothing, EnvInvariant

\* A sample is taken: no answer is older for it.
LEMMA SampleInvariant ==
    ASSUME RequestsInv, NEW p \in Paths, Sample(p)
    PROVE  RequestsInv'
<1> USE DEF RequestsInv, Sample, Change
<1>1. PICK g \in 1..MaxGen : g = containers[p]
  BY BoundsAssumption DEF RequestTypes
<1>2. PICK n \in 0..MaxSamples : n = samples[p][g] /\ n + 1 \in 0..MaxSamples
  BY <1>1, BoundsAssumption DEF RequestTypes
<1>3. samples' = [samples EXCEPT ![p][g] = n + 1]
  BY <1>1, <1>2
<1>4. /\ samples' \in [Paths -> [1..MaxGen -> 0..MaxSamples]]
      /\ \A q \in Paths, h \in 1..MaxGen : samples'[q][h] = IF q = p /\ h = g THEN n + 1 ELSE samples[q][h]
  <2>1. PICK f \in [Paths -> [1..MaxGen -> 0..MaxSamples]] : f = samples
    BY DEF RequestTypes
  <2>2. PICK c \in 0..MaxSamples : c = n + 1
    BY <1>2
  <2>3. samples' = [f EXCEPT ![p][g] = c]
    BY <1>3, <2>1, <2>2
  <2> HIDE DEF RequestsInv, Sample, Change
  <2>4. samples' \in [Paths -> [1..MaxGen -> 0..MaxSamples]]
    BY <2>3, NestedUpdate
  <2>5. ASSUME NEW q \in Paths, NEW h \in 1..MaxGen
        PROVE  samples'[q][h] = IF q = p /\ h = g THEN c ELSE f[q][h]
    <3>1. [f EXCEPT ![p][g] = c][q][h] = IF q = p /\ h = g THEN c ELSE f[q][h]
      OBVIOUS
    <3> QED
      BY <2>3, <3>1
  <2> QED
    BY <2>1, <2>2, <2>4, <2>5
<1>5. RequestTypes'
  BY <1>4 DEF RequestTypes
<1>6. History'
  <2>1. Registered' = Registered
    BY DEF Registered
  <2>2. ASSUME NEW q \in Paths PROVE was.samples[q][1] <= samples'[q][1]
    <3>0. 1 \in 1..MaxGen
      BY BoundsAssumption
    <3>1. samples \in [Paths -> [1..MaxGen -> 0..MaxSamples]]
      BY DEF RequestTypes
    <3>2. was.samples \in [Paths -> [1..MaxGen -> 0..MaxSamples]]
      BY DEF RequestTypes
    <3>3. PICK m \in Int, i \in Int : m = samples[q][1] /\ i = was.samples[q][1] /\ i <= m
      <4>1. samples[q][1] \in 0..MaxSamples /\ was.samples[q][1] \in 0..MaxSamples
        BY <3>0, <3>1, <3>2
      <4>2. samples[q][1] \in Int /\ was.samples[q][1] \in Int /\ was.samples[q][1] <= samples[q][1]
        BY <4>1 DEF History
      <4> QED
        BY <4>2, Zenon
    <3>4. samples'[q][1] = m \/ samples'[q][1] = m + 1
      BY <1>2, <1>4, <3>0, <3>3
    <3> QED
      BY <3>3, <3>4
  <2>3. Limited'
    BY DEF History, Limited
  <2> QED
    BY <2>1, <2>2, <2>3 DEF History
<1> QED
  BY <1>5, <1>6, GrowsByNothing, EnvInvariant

\* Limits are read again: an answer may show the ones before.
LEMMA RefreshInvariant ==
    ASSUME RequestsInv, NEW p \in Paths, NEW x \in Specs, Refresh(p, x)
    PROVE  RequestsInv'
<1> USE DEF RequestsInv, RequestTypes, Refresh, Change
<1>1. PICK g \in 1..MaxGen : g = containers[p] /\ spec' = [spec EXCEPT ![p][g] = x]
  <2>1. containers[p] \in 1..MaxGen
    BY BoundsAssumption
  <2> QED
    BY <2>1
<1>2. 1 \in 1..MaxGen /\ spec \in [Paths -> [1..MaxGen -> Specs]]
  BY BoundsAssumption
<1>3. /\ spec' \in [Paths -> [1..MaxGen -> Specs]]
      /\ \A q \in Paths : spec'[q][1] = IF q = p /\ g = 1 THEN x ELSE spec[q][1]
  <2>1. PICK f \in [Paths -> [1..MaxGen -> Specs]] : f = spec
    OBVIOUS
  <2>2. spec' = [f EXCEPT ![p][g] = x]
    BY <1>1, <2>1
  <2> HIDE DEF RequestsInv, RequestTypes, Refresh, Change
  <2>3. ASSUME NEW q \in Paths PROVE [f EXCEPT ![p][g] = x][q][1] = IF q = p /\ g = 1 THEN x ELSE f[q][1]
    BY <1>2
  <2> QED
    BY <2>1, <2>2, <2>3, NestedUpdate
<1>4. /\ was' \in WasType
      /\ was'.always = was.always /\ was'.ever = was.ever /\ was'.samples = was.samples
      /\ g # 1 => was'.limits = was.limits
      /\ g = 1 => was'.limits = [was.limits EXCEPT ![p] = Append(was.limits[p], x)]
  <2>1. was \in WasType /\ was' = IF g = 1 THEN [was EXCEPT !.limits[p] = Append(@, x)] ELSE was
    BY <1>1 DEF WasType
  <2> HIDE DEF RequestsInv, RequestTypes, Refresh, Change
  <2>2. CASE g = 1
    BY <2>1, <2>2, LimitsGrow
  <2>3. CASE g # 1
    BY <2>1, <2>3
  <2> QED
    BY <2>2, <2>3
<1>5. ASSUME NEW q \in Paths
      PROVE  /\ Grows(was.limits[q], was'.limits[q])
             /\ was'.limits[q] # <<>> /\ was'.limits[q][Len(was'.limits[q])] = spec'[q][1]
  <2>1. PICK s \in Seq(Specs) : s = was.limits[q]
    OBVIOUS
  <2>2. s # <<>> /\ s[Len(s)] = spec[q][1] /\ was.limits \in [Paths -> Seq(Specs)]
    BY <2>1 DEF History, Limited
  <2> HIDE DEF RequestsInv, RequestTypes, Refresh, Change
  <2>3. CASE q = p /\ g = 1
    <3>1. was'.limits[q] = Append(s, x) /\ spec'[q][1] = x
      BY <1>3, <1>4, <2>1, <2>2, <2>3
    <3> QED
      BY <2>1, <3>1, GrowsByOne
  <2>4. CASE ~(q = p /\ g = 1)
    <3>1. was'.limits[q] = s /\ spec'[q][1] = spec[q][1]
      BY <1>3, <1>4, <2>1, <2>2, <2>4
    <3> QED
      BY <2>1, <2>2, <3>1, GrowsByNothing
  <2> QED
    BY <2>3, <2>4
<1>6. RequestTypes'
  BY <1>3, <1>4 DEF WasType
<1>7. History'
  <2>1. Registered' = Registered
    BY DEF Registered
  <2>2. Limited'
    BY <1>5 DEF Limited
  <2> QED
    BY <1>4, <2>1, <2>2 DEF History
<1>8. \A q \in was.always : Grows(was.limits[q], was'.limits[q])
  BY <1>5
<1> QED
  BY <1>4, <1>6, <1>7, <1>8, EnvInvariant

\* A device gets its name.
LEMMA NameDiskInvariant ==
    ASSUME RequestsInv, NEW d \in Devices, NameDisk(d)
    PROVE  RequestsInv'
<1> USE DEF RequestsInv, NameDisk, Change
<1>1. RequestTypes' /\ History'
  BY DEF RequestTypes, History, Limited, Registered
<1> QED
  BY <1>1, GrowsByNothing, EnvInvariant

\* A process exits: it need not be listed any more.
LEMMA ExitInvariant ==
    ASSUME RequestsInv, NEW pid \in Pids, Exit(pid)
    PROVE  RequestsInv'
<1> USE DEF RequestsInv, Exit, Change
<1>1. RequestTypes' /\ History'
  BY DEF RequestTypes, History, Limited, Registered
<1> QED
  BY <1>1, GrowsByNothing, EnvInvariant
-----------------------------------------------------------------------------
\* A step of the request changes its task only.
LEMMA TaskSteps ==
    ASSUME RequestsInv, UNCHANGED <<env, req, was>>, task' \in TaskType
    PROVE  RequestTypes' /\ History'
BY DEF RequestsInv, RequestTypes, History, Limited, env, Registered

\* The task goes to another point.
LEMMA Moves ==
    ASSUME task \in TaskType, NEW pc \in Points,
           task' = [task EXCEPT !.pc = pc]
    PROVE  /\ task' \in TaskType
           /\ task'.pc = pc /\ task'.status = task.status /\ task'.todo = task.todo /\ task'.k = task.k
           /\ task'.cur = task.cur /\ task'.entry = task.entry /\ task'.out = task.out /\ task'.listed = task.listed
           /\ task'.missed = task.missed
BY DEF TaskType

\* ... with a status.
LEMMA MovesStatus ==
    ASSUME task \in TaskType, NEW pc \in Points, NEW st \in Statuses,
           task' = [task EXCEPT !.pc = pc, !.status = st]
    PROVE  /\ task' \in TaskType
           /\ task'.pc = pc /\ task'.status = st /\ task'.todo = task.todo /\ task'.k = task.k
           /\ task'.cur = task.cur /\ task'.entry = task.entry /\ task'.out = task.out /\ task'.listed = task.listed
           /\ task'.missed = task.missed
BY DEF TaskType

\* ... with things to read.
LEMMA MovesTodo ==
    ASSUME task \in TaskType, NEW pc \in Points, NEW S \in ToDo,
           task' = [task EXCEPT !.pc = pc, !.todo = S]
    PROVE  /\ task' \in TaskType
           /\ task'.pc = pc /\ task'.status = task.status /\ task'.todo = S /\ task'.k = task.k
           /\ task'.cur = task.cur /\ task'.entry = task.entry /\ task'.out = task.out /\ task'.listed = task.listed
           /\ task'.missed = task.missed
BY DEF TaskType

\* ... with a list.
LEMMA MovesListed ==
    ASSUME task \in TaskType, NEW pc \in Points, NEW L \in ToList,
           task' = [task EXCEPT !.pc = pc, !.listed = L]
    PROVE  /\ task' \in TaskType
           /\ task'.pc = pc /\ task'.status = task.status /\ task'.todo = task.todo /\ task'.k = task.k
           /\ task'.cur = task.cur /\ task'.entry = task.entry /\ task'.out = task.out /\ task'.listed = L
           /\ task'.missed = task.missed
BY DEF TaskType

\* One thing less to read, and more listed.
LEMMA ListsMore ==
    ASSUME task \in TaskType, NEW S \in ToDo, NEW L \in ToList,
           task' = [task EXCEPT !.todo = S, !.listed = L]
    PROVE  /\ task' \in TaskType
           /\ task'.pc = task.pc /\ task'.status = task.status /\ task'.todo = S /\ task'.k = task.k
           /\ task'.cur = task.cur /\ task'.entry = task.entry /\ task'.out = task.out /\ task'.listed = L
           /\ task'.missed = task.missed
BY DEF TaskType

\* ... or more missed.
LEMMA MissesMore ==
    ASSUME task \in TaskType, NEW S \in ToDo, NEW M \in SUBSET Pids,
           task' = [task EXCEPT !.todo = S, !.missed = M]
    PROVE  /\ task' \in TaskType
           /\ task'.pc = task.pc /\ task'.todo = S /\ task'.k = task.k
           /\ task'.entry = task.entry /\ task'.out = task.out /\ task'.listed = task.listed /\ task'.missed = M
BY DEF TaskType

\* All is missed.
LEMMA MovesMissed ==
    ASSUME task \in TaskType, NEW pc \in Points, NEW M \in SUBSET Pids,
           task' = [task EXCEPT !.pc = pc, !.missed = M]
    PROVE  /\ task' \in TaskType
           /\ task'.pc = pc /\ task'.status = task.status /\ task'.todo = task.todo /\ task'.k = task.k
           /\ task'.entry = task.entry /\ task'.out = task.out /\ task'.missed = M
BY DEF TaskType

\* An entry is done.
EntryDone(S, k, x, c, O) == task' = [task EXCEPT !.todo = S, !.k = k, !.entry = x, !.cur = c, !.out = O]
LEMMA EntryIsDone ==
    ASSUME task \in TaskType, NEW S \in ToDo, NEW k \in Nat, NEW x \in Entry, NEW c \in Handles,
           NEW O \in Seq(Entry), EntryDone(S, k, x, c, O)
    PROVE  /\ task' \in TaskType
           /\ task'.pc = task.pc /\ task'.status = task.status /\ task'.todo = S
           /\ task'.k = k /\ task'.entry = x /\ task'.out = O
<1>1. PICK O2 : O2 = Seq(Entry)
  OBVIOUS
<1>2. task \in [pc : Points, status : Statuses, todo : ToDo, k : Nat, cur : Handles, entry : Entry,
                out : O2, listed : ToList, missed : SUBSET Pids] /\ O \in O2
  BY <1>1 DEF TaskType
<1>3. task' \in [pc : Points, status : Statuses, todo : ToDo, k : Nat, cur : Handles, entry : Entry,
                 out : O2, listed : ToList, missed : SUBSET Pids]
  BY <1>2 DEF EntryDone
<1>4. task' \in TaskType
  BY <1>1, <1>3 DEF TaskType
<1> QED
  BY <1>2, <1>4 DEF EntryDone

\* A reply ends the task.
LEMMA Replied ==
    ASSUME task \in TaskType, NEW st \in Statuses, Reply(st)
    PROVE  /\ task' \in TaskType
           /\ task'.pc = "done" /\ task'.status = st /\ task'.todo = task.todo /\ task'.k = task.k
           /\ task'.cur = task.cur /\ task'.entry = task.entry /\ task'.out = task.out /\ task'.listed = task.listed
           /\ task'.missed = task.missed
<1>1. PICK pc \in Points : pc = "done"
  BY DEF Points
<1>2. task' = [task EXCEPT !.pc = pc, !.status = st]
  BY <1>1 DEF Reply
<1> HIDE DEF Reply
<1> QED
  BY <1>1, <1>2, MovesStatus

\* The handles to read are known.
LEMMA ReadBegins ==
    ASSUME task \in TaskType, NEW S \in ToDo, task' = [task EXCEPT !.pc = "read", !.todo = S]
    PROVE  /\ task' \in TaskType
           /\ task'.pc = "read" /\ task'.status = task.status /\ task'.todo = S /\ task'.k = task.k
           /\ task'.cur = task.cur /\ task'.entry = task.entry /\ task'.out = task.out /\ task'.listed = task.listed
           /\ task'.missed = task.missed
<1>1. PICK pc \in Points : pc = "read"
  BY DEF Points
<1>2. task' = [task EXCEPT !.pc = pc, !.todo = S]
  BY <1>1
<1> QED
  BY <1>1, <1>2, MovesTodo

\* The history of events is answered.
LEMMA EventsListed ==
    ASSUME task \in TaskType, NEW L \in ToList, task' = [task EXCEPT !.pc = "done", !.listed = L]
    PROVE  /\ task' \in TaskType
           /\ task'.pc = "done" /\ task'.status = task.status /\ task'.todo = task.todo /\ task'.k = task.k
           /\ task'.cur = task.cur /\ task'.entry = task.entry /\ task'.out = task.out /\ task'.listed = L
<1>1. PICK pc \in Points : pc = "done"
  BY DEF Points
<1>2. task' = [task EXCEPT !.pc = pc, !.listed = L]
  BY <1>1
<1> QED
  BY <1>1, <1>2, MovesListed

\* The finished entries are not touched.
LEMMA OutStays ==
    ASSUME RequestsInv, UNCHANGED <<env, req, was>>, task'.out = task.out, task'.k = 0
    PROVE  Entries'
<1>1. Kind' = Kind
  BY AskedStays
<1>2. ASSUME NEW i \in DOMAIN task'.out PROVE EntryOk(task.out[i], Len(Program(Kind)))'
  <2>1. PICK e, n : e = task.out[i] /\ n = Len(Program(Kind)) /\ e = task'.out[i] /\ n = Len(Program(Kind'))
    BY <1>1
  <2>2. EntryOk(e, n)
    BY <2>1 DEF Entries, RequestsInv
  <2>3. EntryOk(e, n)'
    BY <2>2, EntryRests
  <2> QED
    BY <2>1, <2>3
<1> QED
  BY <1>1, <1>2 DEF Entries

\* A reply, by what it must not leave out.
LEMMA ReplyInvariant ==
    ASSUME RequestsInv, UNCHANGED <<env, req, was>>, NEW st \in Statuses, Reply(st), task.k = 0,
           Kind \in ReadKinds /\ st = 200 => task.pc = "read" /\ task.todo = {},
           st = 200 /\ Kind = "ps" /\ (\E p \in was.always : About(p))
              => alive \subseteq task.listed \cup task.missed,
           st # 200 \/ Kind # "events",
           st = 500 /\ Kind # "unknown" => \A p \in was.always : ~Sought(p)
    PROVE  RequestsInv'
<1>1. /\ task' \in TaskType /\ task'.pc = "done" /\ task'.status = st
      /\ task'.todo = task.todo /\ task'.k = 0
      /\ task'.entry = task.entry /\ task'.out = task.out /\ task'.listed = task.listed
      /\ task'.missed = task.missed
  BY Replied DEF RequestsInv, RequestTypes
<1>2. /\ Kind' = Kind /\ AboutSet' = AboutSet
      /\ \A p : About(p)' = About(p) /\ Sought(p)' = Sought(p)
  BY AskedStays
<1>3. RequestTypes' /\ History'
  BY <1>1, TaskSteps
<1>4. Position'
  BY <1>1, <1>2 DEF Position, RequestsInv
<1>5. Accounted'
  <2>1. CASE st = 200 /\ Kind \in ReadKinds
    <3>1. Answered' = Answered /\ Pending' = Pending
      BY <1>1 DEF Answered, Pending
    <3> QED
      BY <1>1, <1>2, <2>1, <3>1 DEF Accounted, RequestsInv
  <2>2. CASE ~(st = 200 /\ Kind \in ReadKinds)
    BY <1>1, <1>2, <2>2 DEF Accounted, Done
  <2> QED
    BY <2>1, <2>2
<1>6. Entries'
  BY <1>1, OutStays
<1>7. Others'
  <2>1. alive' = alive /\ was' = was
    BY DEF env
  <2> QED
    BY <1>1, <1>2, <2>1 DEF Others, Done
<1> QED
  BY <1>3, <1>4, <1>5, <1>6, <1>7 DEF RequestsInv

\* The handles of registered containers are told by their paths.
LEMMA HandlesOf ==
    ASSUME RequestTypes, NEW L \in SUBSET Paths, \A p \in L : p \in Registered
    PROVE  /\ {HandleOf(p) : p \in L} \subseteq Handles
           /\ \A h \in {HandleOf(p) : p \in L} : h.path \in L /\ h.gen = containers[h.path]
           /\ {h.path : h \in {HandleOf(p) : p \in L}} = L
<1>1. ASSUME NEW p \in L PROVE HandleOf(p) \in Handles /\ HandleOf(p).path = p /\ HandleOf(p).gen = containers[p]
  <2>1. containers[p] \in 1..MaxGen /\ p \in Paths
    BY BoundsAssumption DEF RequestTypes, Registered
  <2> QED
    BY <2>1 DEF HandleOf, Handles
<1> QED
  BY <1>1

\* The list of handles is made: every container that is about and registered now.
LEMMA ListInvariant ==
    ASSUME RequestsInv, UNCHANGED <<env, req, was>>, task.pc \in {"look", "collect"}, Kind \in ReadKinds,
           NEW L \in SUBSET Paths, \A p \in Paths : p \in L <=> p \in Registered /\ p \in AboutSet,
           task' = [task EXCEPT !.pc = "read", !.todo = {HandleOf(p) : p \in L}]
    PROVE  RequestsInv'
<1>1. PICK S : S = {HandleOf(p) : p \in L}
  OBVIOUS
<1>2. /\ S \subseteq Handles
      /\ \A h \in S : h.path \in L /\ h.gen = containers[h.path]
      /\ {h.path : h \in S} = L
  BY <1>1, HandlesOf DEF RequestsInv
<1>3. task \in TaskType /\ task.out = <<>> /\ task.k = 0 /\ task.status = 200
  BY DEF RequestsInv, RequestTypes, Position
<1>4. /\ task' \in TaskType /\ task'.pc = "read" /\ task'.status = 200 /\ task'.todo = S /\ task'.k = 0
      /\ task'.entry = task.entry /\ task'.out = task.out
  <2>1. task' = [task EXCEPT !.pc = "read", !.todo = S]
    BY <1>1
  <2>2. S \in ToDo
    BY <1>2 DEF ToDo
  <2> QED
    BY <1>3, <2>1, <2>2, ReadBegins, ZenonT(60)
<1>5. Kind' = Kind /\ AboutSet' = AboutSet
  BY AskedStays
<1>6. RequestTypes' /\ History'
  BY <1>4, TaskSteps
<1>7. Position'
  BY <1>2, <1>3, <1>4, <1>5 DEF Position, RequestsInv
<1>8. Accounted'
  <2>1. Answered' = {} /\ Pending' = L
    BY <1>2, <1>3, <1>4 DEF Answered, Pending
  <2>2. was.always \cap AboutSet \subseteq L /\ L \subseteq was.ever \cap AboutSet
    <3>1. was.always \subseteq Registered /\ Registered \subseteq was.ever
      BY DEF RequestsInv, RequestTypes, History, Registered
    <3> QED
      BY <3>1 DEF AboutSet
  <2>3. \A g, h \in S : g.path = h.path => g = h
    BY <1>2 DEF Handles
  <2>4. \A h \in S : h.path \in was.always => h.gen = 1
    BY <1>2 DEF RequestsInv, History
  <2> QED
    BY <1>3, <1>4, <1>5, <2>1, <2>2, <2>3, <2>4 DEF Accounted
<1>9. Entries'
  BY <1>4, OutStays
<1>10. Others'
  BY <1>4 DEF Others, Done
<1> QED
  BY <1>6, <1>7, <1>8, <1>9, <1>10 DEF RequestsInv

\* A step to a point before any entry is read.
LEMMA PointInvariant ==
    ASSUME RequestsInv, UNCHANGED <<env, req, was>>, task' \in TaskType,
           task'.status = task.status, task'.k = task.k, task'.entry = task.entry, task'.out = task.out,
           task.pc \in {"arrive", "look"}, task'.pc \in {"look", "collect", "procs"},
           task'.pc = "look" =>
              ~ByMetadata /\ Kind \in {"containers", "subcontainers", "stats20", "stats21", "machinestats",
                                       "spec", "summary", "ps"},
           task'.pc = "collect" =>
              Kind = "metrics" \/ ByMetadata \/ (Recursive /\ \E q \in Paths : Spells(req.args, q)),
           task'.pc = "procs" => Kind = "ps"
    PROVE  RequestsInv'
<1>1. Kind' = Kind /\ ByMetadata' = ByMetadata /\ Recursive' = Recursive
  BY AskedStays
<1>2. RequestTypes' /\ History'
  BY TaskSteps
<1>3. task.out = <<>> /\ task.k = 0 /\ task.status = 200
  BY DEF RequestsInv, Position
<1>4. Position'
  BY <1>1, <1>3 DEF Position, RequestsInv
<1>5. Accounted' /\ Others'
  BY DEF Accounted, Others, Done
<1>6. Entries'
  BY <1>3, OutStays
<1> QED
  BY <1>2, <1>4, <1>5, <1>6 DEF RequestsInv

\* The handler begins.
LEMMA ArriveInvariant == RequestsInv /\ Arrive => RequestsInv'
<1> SUFFICES ASSUME RequestsInv, Arrive PROVE RequestsInv'
  OBVIOUS
<1>1. /\ task.pc = "arrive" /\ UNCHANGED <<env, req, was>> /\ task \in TaskType
      /\ task.k = 0 /\ task.out = <<>> /\ task.status = 200
  BY DEF RequestsInv, RequestTypes, Position, Arrive
<1>2. Kind \in Kinds
  BY RouteKinds DEF Kind
<1>3. CASE Kind = "listing"
  <2>1. Reply(400) /\ 400 \in Statuses
    BY <1>3 DEF Arrive, Lists, Statuses
  <2> QED
    BY <1>1, <1>3, <2>1, ReplyInvariant DEF ReadKinds
<1>4. CASE Kind = "unknown"
  <2>1. Reply(500) /\ 500 \in Statuses
    BY <1>4 DEF Arrive, Lists, Statuses
  <2> QED
    BY <1>1, <1>4, <2>1, ReplyInvariant DEF ReadKinds
<1>5. CASE Kind \in Lists \ {"listing", "unknown"}
  <2>1. Reply(200) /\ 200 \in Statuses
    BY <1>5 DEF Arrive, Lists, Statuses
  <2> QED
    BY <1>1, <1>5, <2>1, ReplyInvariant DEF ReadKinds, Lists
<1>6. CASE Kind = "events"
  <2>1. PICK L \in ToList : L = {p \in Paths : EventInScope(Name(p), Target, req.recursive)}
    BY DEF ToList
  <2>2. task' = [task EXCEPT !.pc = "done", !.listed = L]
    BY <1>6, <2>1 DEF Arrive, Lists
  <2>5. /\ task' \in TaskType /\ task'.pc = "done" /\ task'.status = 200 /\ task'.k = 0
        /\ task'.entry = task.entry /\ task'.out = task.out /\ task'.listed = L
    BY <1>1, <2>2, EventsListed, ZenonT(60)
  <2>6. Kind' = Kind /\ Target' = Target
    BY <1>1, AskedStays
  <2>7. RequestTypes' /\ History'
    BY <1>1, <2>5, TaskSteps
  <2>8. Position'
    BY <1>1, <1>6, <2>5, <2>6 DEF Position, RequestsInv, ReadKinds
  <2>9. Accounted'
    BY <1>6, <2>5, <2>6 DEF Accounted, Done, ReadKinds
  <2>10. Entries'
    BY <1>1, <2>5, OutStays
  <2>11. Others'
    <3>1. L = {p \in Paths : EventInScope(Name(p), Target', req'.recursive)}
      BY <1>1, <2>1, <2>6
    <3> QED
      BY <1>1, <1>6, <2>5, <2>6, <3>1 DEF Others, Done
  <2> QED
    BY <2>7, <2>8, <2>9, <2>10, <2>11 DEF RequestsInv
<1>7. CASE Kind \in ReadKinds \cup {"ps"}
  <2>1. PICK pc \in Points : pc = IF Kind = "metrics" \/ ByMetadata THEN "collect" ELSE "look"
    BY DEF Points
  <2>2. task' = [task EXCEPT !.pc = pc]
    BY <1>7, <2>1 DEF Arrive, Lists, ReadKinds
  <2>3. /\ task' \in TaskType /\ task'.pc = pc /\ task'.status = task.status /\ task'.k = task.k
        /\ task'.entry = task.entry /\ task'.out = task.out
    BY <1>1, <2>2, Moves
  <2>4. pc = "look" => ~ByMetadata /\ Kind \in {"containers", "subcontainers", "stats20", "stats21",
                                                "machinestats", "spec", "summary", "ps"}
    BY <1>7, <2>1 DEF ReadKinds, ByMetadata
  <2> QED
    BY <1>1, <2>1, <2>3, <2>4, PointInvariant
<1> QED
  BY <1>2, <1>3, <1>4, <1>5, <1>6, <1>7 DEF Kinds

\* The look-up of the container finds it or fails for a reason.
LEMMA LookInvariant == RequestsInv /\ Look => RequestsInv'
<1> SUFFICES ASSUME RequestsInv, Look PROVE RequestsInv'
  OBVIOUS
<1>1. /\ task.pc = "look" /\ UNCHANGED <<env, req, was>> /\ task \in TaskType /\ RequestTypes
      /\ task.k = 0 /\ task.out = <<>>
  BY DEF RequestsInv, RequestTypes, Position, Look
<1>2. /\ ~ByMetadata
      /\ Kind \in {"containers", "subcontainers", "stats20", "stats21", "machinestats", "spec", "summary", "ps"}
  BY <1>1 DEF RequestsInv, Position
<1>3. PICK found : found = {p \in Registered : Name(p) = Target}
  OBVIOUS
<1>4. \A p \in Registered : p \in Paths /\ (p \in found <=> Sought(p))
  BY <1>1, <1>2, <1>3, LookFinds DEF Registered
<1>5. was.always \subseteq Registered
  BY DEF RequestsInv, RequestTypes, History, Registered
<1>6. Kind = "ps" => ~Recursive
  BY DEF Recursive, Resolved
<1>7. CASE found = {} /\ Reply(IF Kind = "ps" THEN 200 ELSE 500)
  <2>1. \A p \in was.always : ~Sought(p)
    BY <1>4, <1>5, <1>7
  <2>2. CASE Kind = "ps"
    <3>1. 200 \in Statuses /\ Reply(200)
      BY <1>7, <2>2 DEF Statuses
    <3>2. \A p : Sought(p) <=> About(p)
      BY <1>6, <2>2 DEF Sought
    <3> QED
      BY <1>1, <2>1, <2>2, <3>1, <3>2, ReplyInvariant DEF ReadKinds
  <2>3. CASE Kind # "ps"
    <3>1. 500 \in Statuses /\ Reply(500)
      BY <1>7, <2>3 DEF Statuses
    <3> QED
      BY <1>1, <2>1, <2>3, <3>1, ReplyInvariant DEF ReadKinds
  <2> QED
    BY <2>2, <2>3
<1>8. CASE /\ found # {}
           /\ task' = [task EXCEPT !.pc = CASE Recursive -> "collect"
                                            [] Kind = "ps" -> "procs"
                                            [] OTHER -> "read",
                                   !.todo = {HandleOf(p) : p \in {q \in found : Listed(q)}}]
  <2>1. PICK L \in SUBSET Paths : L = {q \in found : Listed(q)} /\ \A p \in L : p \in Registered
    <3>1. {q \in found : Listed(q)} \in SUBSET Paths /\ \A p \in {q \in found : Listed(q)} : p \in Registered
      BY <1>3 DEF Registered
    <3> QED
      BY <3>1, Zenon
  <2>2. PICK S : S = {HandleOf(p) : p \in L}
    OBVIOUS
  <2>3. S \in ToDo
    BY <1>1, <2>1, <2>2, HandlesOf DEF ToDo
  <2>4. CASE Recursive
    <3>1. task' = [task EXCEPT !.pc = "collect", !.todo = S]
      BY <1>6, <1>8, <2>1, <2>2, <2>4
    <3>2. PICK pc \in Points : pc = "collect"
      BY DEF Points
    <3>3. task' = [task EXCEPT !.pc = pc, !.todo = S]
      BY <3>1, <3>2
    <3>4. /\ task' \in TaskType /\ task'.pc = pc /\ task'.status = task.status /\ task'.k = task.k
          /\ task'.entry = task.entry /\ task'.out = task.out
      BY <1>1, <2>3, <3>3, MovesTodo
    <3>5. PICK q \in found : q \in Paths /\ Sought(q)
      BY <1>3, <1>4, <1>8 DEF Registered
    <3>6. Spells(req.args, q)
      BY <1>2, <2>4, <3>5 DEF Sought
    <3> QED
      BY <1>1, <2>4, <3>2, <3>4, <3>5, <3>6, PointInvariant
  <2>5. CASE ~Recursive /\ Kind = "ps"
    <3>1. task' = [task EXCEPT !.pc = "procs", !.todo = S]
      BY <1>6, <1>8, <2>1, <2>2, <2>5
    <3>2. PICK pc \in Points : pc = "procs"
      BY DEF Points
    <3>3. task' = [task EXCEPT !.pc = pc, !.todo = S]
      BY <3>1, <3>2
    <3>4. /\ task' \in TaskType /\ task'.pc = pc /\ task'.status = task.status /\ task'.k = task.k
          /\ task'.entry = task.entry /\ task'.out = task.out
      BY <1>1, <2>3, <3>3, MovesTodo
    <3> QED
      BY <1>1, <2>5, <3>2, <3>4, PointInvariant
  <2>6. CASE ~Recursive /\ Kind # "ps"
    <3>1. task' = [task EXCEPT !.pc = "read", !.todo = {HandleOf(p) : p \in L}]
      BY <1>8, <2>1, <2>6
    <3>2. ASSUME NEW p \in Paths PROVE p \in L <=> p \in Registered /\ p \in AboutSet
      <4>1. Name(p) = Target /\ Listed(p) <=> p \in AboutSet
        BY <1>1, <1>2, <2>6, LookLists
      <4> QED
        BY <1>3, <2>1, <4>1
    <3> QED
      BY <1>1, <1>2, <2>6, <3>1, <3>2, ListInvariant DEF ReadKinds
  <2> QED
    BY <2>4, <2>5, <2>6
<1> QED
  BY <1>3, <1>7, <1>8 DEF Look

\* The list of handles has what was there, or an id names nothing.
LEMMA CollectInvariant == RequestsInv /\ Collect => RequestsInv'
<1> SUFFICES ASSUME RequestsInv, Collect PROVE RequestsInv'
  OBVIOUS
<1>1. /\ task.pc = "collect" /\ UNCHANGED <<env, req, was>> /\ task \in TaskType /\ RequestTypes
      /\ task.k = 0 /\ task.out = <<>>
      /\ Kind = "metrics" \/ ByMetadata \/ (Recursive /\ \E q \in Paths : Spells(req.args, q))
  BY DEF RequestsInv, RequestTypes, Position, Collect
<1>2. Kind \in ReadKinds /\ Kind # "ps" /\ Kind # "events"
  BY <1>1 DEF ByMetadata, Recursive, Resolved, ReadKinds
<1>3. PICK L \in SUBSET Paths : L = {p \in Registered : Listed(p)}
  BY DEF Registered
<1>4. CASE /\ ByMetadata /\ \A p \in Registered : ~Named(Meta[p], TrimStart(Target))
           /\ Reply(500)
  <2>1. ASSUME NEW p \in was.always PROVE ~Sought(p)
    <3>1. p \in Registered
      BY DEF RequestsInv, RequestTypes, History, Registered
    <3>2. Sought(p) <=> About(p)
      BY <1>4 DEF Sought
    <3>3. Kind # "metrics" /\ Kind # "machinestats"
      BY <1>4 DEF ByMetadata, Resolved
    <3>4. About(p) <=> Meta[p].namespace # "" /\ Named(Meta[p], TrimStart(Target))
      BY <1>4, <3>3 DEF About
    <3> QED
      BY <1>4, <3>1, <3>2, <3>4
  <2>2. 500 \in Statuses
    BY DEF Statuses
  <2> QED
    BY <1>1, <1>2, <1>4, <2>1, <2>2, ReplyInvariant
<1>5. CASE task' = [task EXCEPT !.pc = "read", !.todo = {HandleOf(p) : p \in L}]
  <2>1. ASSUME NEW p \in Paths PROVE p \in L <=> p \in Registered /\ p \in AboutSet
    BY <1>1, <1>3, CollectLists
  <2> QED
    BY <1>1, <1>2, <1>5, <2>1, ListInvariant
<1> QED
  BY <1>3, <1>4, <1>5 DEF Collect

\* An answer is given when no handle is left.
LEMMA FinishInvariant == RequestsInv /\ Finish => RequestsInv'
<1> SUFFICES ASSUME RequestsInv, Finish PROVE RequestsInv'
  OBVIOUS
<1>1. /\ task.pc = "read" /\ task.todo = {} /\ Reply(200) /\ UNCHANGED <<env, req, was>>
      /\ Kind \in ReadKinds
  BY DEF RequestsInv, Position, Finish
<1>2. task.k = 0
  BY <1>1 DEF RequestsInv, RequestTypes, TaskType, Position
<1>3. Kind # "ps" /\ Kind # "events" /\ 200 \in Statuses
  BY <1>1 DEF ReadKinds, Statuses
<1> QED
  BY <1>1, <1>2, <1>3, ReplyInvariant

\* The list of processes is read, or cannot be.
LEMMA ReadProcsInvariant == RequestsInv /\ ReadProcs => RequestsInv'
<1> SUFFICES ASSUME RequestsInv, ReadProcs PROVE RequestsInv'
  OBVIOUS
<1>1. /\ task.pc = "procs" /\ UNCHANGED <<env, req, was>> /\ task \in TaskType /\ alive \subseteq Pids
      /\ Kind = "ps" /\ task.k = 0 /\ task.out = <<>>
  BY DEF RequestsInv, RequestTypes, Position, ReadProcs, ReadKinds, TaskType
<1>2. Kind' = Kind /\ alive' = alive /\ task.entry = NoEntry
  <2>1. Kind' = Kind /\ alive' = alive
    BY <1>1, AskedStays DEF env
  <2>2. task.k = 0 => task.entry = NoEntry
    BY DEF RequestsInv, Position
  <2> QED
    BY <1>1, <2>1, <2>2
<1>3. CASE task' = [task EXCEPT !.pc = "pids", !.todo = alive]
  <2>1. PICK pc \in Points : pc = "pids"
    BY DEF Points
  <2>2. PICK S \in ToDo : S = alive
    BY <1>1 DEF ToDo
  <2>3. task' = [task EXCEPT !.pc = pc, !.todo = S]
    BY <1>3, <2>1, <2>2
  <2>4. /\ task' \in TaskType /\ task'.pc = "pids" /\ task'.todo = alive /\ task'.k = 0
        /\ task'.entry = task.entry /\ task'.out = task.out
    BY <1>1, <2>1, <2>2, <2>3, MovesTodo
  <2>5. RequestTypes' /\ History'
    BY <1>1, <2>4, TaskSteps
  <2>6. Position'
    BY <1>1, <1>2, <2>4 DEF Position
  <2>7. Accounted' /\ Others'
    BY <1>2, <2>4 DEF Accounted, Others, Done
  <2>8. Entries'
    BY <1>1, <2>4, OutStays
  <2> QED
    BY <2>5, <2>6, <2>7, <2>8 DEF RequestsInv
<1>4. CASE task' = [task EXCEPT !.pc = "done", !.missed = alive]
  <2>1. PICK pc \in Points : pc = "done"
    BY DEF Points
  <2>2. PICK M \in SUBSET Pids : M = alive
    BY <1>1
  <2>10. task' = [task EXCEPT !.pc = pc, !.missed = M]
    BY <1>4, <2>1, <2>2
  <2>3. /\ task' \in TaskType /\ task'.pc = "done" /\ task'.status = task.status /\ task'.k = 0
        /\ task'.entry = task.entry /\ task'.out = task.out /\ task'.missed = alive
    BY <1>1, <2>1, <2>2, <2>10, MovesMissed, ZenonT(60)
  <2>4. RequestTypes' /\ History'
    BY <1>1, <2>3, TaskSteps
  <2>5. Kind \notin ReadKinds /\ Kind # "events"
    BY <1>1 DEF ReadKinds
  <2>6. Position'
    BY <1>1, <1>2, <2>3, <2>5 DEF Position
  <2>7. Accounted'
    BY <1>2, <2>3, <2>5 DEF Accounted, Done
  <2>8. Others'
    <3>1. task.status = 200
      BY <1>1 DEF RequestsInv, Position
    <3> QED
      BY <1>1, <1>2, <2>3, <2>5, <3>1 DEF Others, Done
  <2>9. Entries'
    BY <1>1, <2>3, OutStays
  <2> QED
    BY <2>4, <2>6, <2>7, <2>8, <2>9 DEF RequestsInv
<1> QED
  BY <1>3, <1>4 DEF ReadProcs

\* A step of the loop over the processes, by what it must not lose.
LEMMA PidStep ==
    ASSUME RequestsInv, UNCHANGED <<env, req, was>>, task.pc = "pids", task' \in TaskType,
           task'.pc = "pids", task'.k = 0, task'.entry = NoEntry, task'.out = <<>>,
           task'.todo \subseteq task.todo, task.todo \subseteq Pids, Kind = "ps",
           alive \subseteq task'.listed \cup task'.missed \cup task'.todo
    PROVE  RequestsInv'
<1>1. RequestTypes' /\ History'
  BY TaskSteps
<1>2. Kind' = Kind /\ alive' = alive
  BY AskedStays DEF env
<1>3. Position'
  BY <1>2 DEF Position
<1>4. Accounted' /\ Others'
  BY <1>2 DEF Accounted, Others, Done
<1>5. Entries'
  BY DEF Entries
<1> QED
  BY <1>1, <1>3, <1>4, <1>5 DEF RequestsInv

\* A process is listed unless it has exited or cannot be read.
LEMMA ReadPidInvariant == RequestsInv /\ ReadPid => RequestsInv'
<1> SUFFICES ASSUME RequestsInv, ReadPid PROVE RequestsInv'
  OBVIOUS
<1>1. /\ task.pc = "pids" /\ UNCHANGED <<env, req, was>> /\ task \in TaskType /\ alive \subseteq Pids
      /\ Kind = "ps" /\ task.todo \subseteq Pids /\ task.k = 0 /\ task.out = <<>> /\ task.entry = NoEntry
      /\ alive \subseteq task.listed \cup task.missed \cup task.todo
  <2>1. /\ task.pc = "pids" /\ UNCHANGED <<env, req, was>> /\ task \in TaskType /\ alive \subseteq Pids
        /\ Kind = "ps" /\ task.todo \subseteq Pids /\ alive \subseteq task.listed \cup task.missed \cup task.todo
    BY DEF RequestsInv, RequestTypes, Position, Others, ReadPid
  <2>2. task.k = 0 /\ task.entry = NoEntry
    BY <2>1 DEF RequestsInv, Position, TaskType
  <2>3. task.out = <<>>
    BY <2>1 DEF RequestsInv, Position, ReadKinds
  <2> QED
    BY <2>1, <2>2, <2>3
<1>2. CASE task.todo = {} /\ Reply(200)
  <2>1. 200 \in Statuses /\ Kind \notin ReadKinds /\ Kind # "events" /\ alive \subseteq task.listed \cup task.missed
    BY <1>1, <1>2 DEF Statuses, ReadKinds
  <2> QED
    BY <1>1, <1>2, <2>1, ReplyInvariant
<1>3. CASE \E pid \in task.todo :
              task' = [task EXCEPT !.todo = @ \ {pid}, !.listed = @ \cup ({pid} \cap alive)]
  <2>1. PICK pid \in task.todo :
              task' = [task EXCEPT !.todo = task.todo \ {pid}, !.listed = task.listed \cup ({pid} \cap alive)]
    BY <1>3
  <2>2. PICK S \in ToDo, L \in ToList : S = task.todo \ {pid} /\ L = task.listed \cup ({pid} \cap alive)
    BY <1>1 DEF TaskType, ToDo, ToList
  <2>3. task' = [task EXCEPT !.todo = S, !.listed = L]
    BY <2>1, <2>2
  <2>4. /\ task' \in TaskType /\ task'.pc = "pids" /\ task'.todo = S /\ task'.k = 0 /\ task'.listed = L
        /\ task'.entry = task.entry /\ task'.out = task.out /\ task'.missed = task.missed
    BY <1>1, <2>3, ListsMore
  <2>5. alive \subseteq L \cup task.missed \cup S /\ S \subseteq task.todo
    BY <1>1, <2>2
  <2> QED
    BY <1>1, <2>4, <2>5, PidStep
<1>4. CASE \E pid \in task.todo :
              task' = [task EXCEPT !.todo = @ \ {pid}, !.missed = @ \cup {pid}]
  <2>1. PICK pid \in task.todo :
              task' = [task EXCEPT !.todo = task.todo \ {pid}, !.missed = task.missed \cup {pid}]
    BY <1>4
  <2>2. PICK S \in ToDo, M \in SUBSET Pids : S = task.todo \ {pid} /\ M = task.missed \cup {pid}
    BY <1>1 DEF TaskType, ToDo
  <2>3. task' = [task EXCEPT !.todo = S, !.missed = M]
    BY <2>1, <2>2
  <2>4. /\ task' \in TaskType /\ task'.pc = "pids" /\ task'.todo = S /\ task'.k = 0 /\ task'.listed = task.listed
        /\ task'.entry = task.entry /\ task'.out = task.out /\ task'.missed = M
    BY <1>1, <2>3, MissesMore
  <2>5. alive \subseteq task.listed \cup M \cup S /\ S \subseteq task.todo
    BY <1>1, <2>2
  <2> QED
    BY <1>1, <2>4, <2>5, PidStep
<1> QED
  BY <1>2, <1>3, <1>4 DEF ReadPid
-----------------------------------------------------------------------------
(* The reads of an entry.                                                  *)

\* An entry with another path is an entry.
LEMMA SetsPath ==
    ASSUME NEW e \in Entry, NEW x \in Paths, NEW u, u = [e EXCEPT !.path = x]
    PROVE  /\ u \in Entry
           /\ u.path = x /\ u.spec1 = e.spec1 /\ u.spec = e.spec /\ u.stats = e.stats /\ u.children = e.children /\ u.latest = e.latest /\ u.disks = e.disks
BY DEF Entry

\* ... with another first spec.
LEMMA SetsSpec1 ==
    ASSUME NEW e \in Entry, NEW x \in SomeSpec, NEW u, u = [e EXCEPT !.spec1 = x]
    PROVE  /\ u \in Entry
           /\ u.path = e.path /\ u.spec1 = x /\ u.spec = e.spec /\ u.stats = e.stats /\ u.children = e.children /\ u.latest = e.latest /\ u.disks = e.disks
BY DEF Entry

\* ... with another spec.
LEMMA SetsSpec ==
    ASSUME NEW e \in Entry, NEW x \in SomeSpec, NEW u, u = [e EXCEPT !.spec = x]
    PROVE  /\ u \in Entry
           /\ u.path = e.path /\ u.spec1 = e.spec1 /\ u.spec = x /\ u.stats = e.stats /\ u.children = e.children /\ u.latest = e.latest /\ u.disks = e.disks
BY DEF Entry

\* ... with other samples.
LEMMA SetsStats ==
    ASSUME NEW e \in Entry, NEW x \in Stats, NEW u, u = [e EXCEPT !.stats = x]
    PROVE  /\ u \in Entry
           /\ u.path = e.path /\ u.spec1 = e.spec1 /\ u.spec = e.spec /\ u.stats = x /\ u.children = e.children /\ u.latest = e.latest /\ u.disks = e.disks
BY DEF Entry

\* ... with other children.
LEMMA SetsChildren ==
    ASSUME NEW e \in Entry, NEW x \in Children, NEW u, u = [e EXCEPT !.children = x]
    PROVE  /\ u \in Entry
           /\ u.path = e.path /\ u.spec1 = e.spec1 /\ u.spec = e.spec /\ u.stats = e.stats /\ u.children = x /\ u.latest = e.latest /\ u.disks = e.disks
BY DEF Entry

\* ... with another latest sample.
LEMMA SetsLatest ==
    ASSUME NEW e \in Entry, NEW x \in SomeLatest, NEW u, u = [e EXCEPT !.latest = x]
    PROVE  /\ u \in Entry
           /\ u.path = e.path /\ u.spec1 = e.spec1 /\ u.spec = e.spec /\ u.stats = e.stats /\ u.children = e.children /\ u.latest = x /\ u.disks = e.disks
BY DEF Entry

\* ... with other devices.
LEMMA SetsDisks ==
    ASSUME NEW e \in Entry, NEW x \in Disks, NEW u, u = [e EXCEPT !.disks = x]
    PROVE  /\ u \in Entry
           /\ u.path = e.path /\ u.spec1 = e.spec1 /\ u.spec = e.spec /\ u.stats = e.stats /\ u.children = e.children /\ u.latest = e.latest /\ u.disks = x
BY DEF Entry

\* What has been read with one read more.
LEMMA ReadMore ==
    ASSUME NEW n \in Nat, NEW what
    PROVE  HasRead(what, n + 1) <=> HasRead(what, n) \/ Program(Kind)[n + 1] = what
<1>1. 1..(n + 1) = (1..n) \cup {n + 1}
  OBVIOUS
<1> QED
  BY <1>1 DEF HasRead

\* Nothing is wrong with an entry of which nothing has been read.
LEMMA EntryBegins ==
    ASSUME RequestsInv, NEW h \in Handles, NEW e, e = [NoEntry EXCEPT !.path = h.path]
    PROVE  e \in Entry /\ e.path = h.path /\ EntryOk(e, 0)
<1>1. NoEntry \in Entry /\ h.path \in Paths /\ NoEntry.spec = <<>> /\ NoEntry.spec1 = <<>>
      /\ NoEntry.stats = {}
  BY PathsAssumption, EmptySeq DEF NoEntry, Entry, SomeSpec, Stats, Children, SomeLatest, Disks, Handles
<1>2. e \in Entry /\ e.path = h.path /\ e.spec = <<>> /\ e.spec1 = <<>> /\ e.stats = {}
  BY <1>1, SetsPath
<1>3. \A what : ~HasRead(what, 0)
  BY DEF HasRead
<1> QED
  BY <1>2, <1>3 DEF EntryOk, LimitsOk, StatsOk

\* Trimming the old side keeps the newest.
LEMMA NewestInRange ==
    ASSUME NEW n \in Nat, NEW max \in Int
    PROVE  InRange(n, max) \subseteq Int /\ (n > 0 /\ max # 0 => n \in InRange(n, max))
BY DEF InRange

\* The number of samples asked for.
LEMMA Limits == RequestTypes => Limit \in Int
BY AskedAssumption DEF RequestTypes, Limit

\* The samples that are read, with the newest there was when the request came.
LEMMA StatsRead ==
    ASSUME RequestsInv, NEW h \in Handles, NEW e \in Entry, h.path \in was.always => h.gen = 1,
           NEW X, X = ReadOf("stats", h, e).stats
    PROVE  /\ X \in Stats /\ ReadOf("stats", h, e) = [e EXCEPT !.stats = X]
           /\ h.path \in was.always /\ Limit # 0 /\ was.samples[h.path][1] > 0
                 => \E s \in X : s.sample >= was.samples[h.path][1]
           /\ e.spec1 # <<>> => \A s \in X : s.memory = e.spec1[1].has_memory
<1>1. PICK n \in Nat : n = SamplesOf(h)
  <2>1. h.path \in Paths /\ h.gen \in 1..MaxGen
    BY DEF Handles
  <2>3. samples \in [Paths -> [1..MaxGen -> 0..MaxSamples]]
    BY DEF RequestsInv, RequestTypes
  <2>2. samples[h.path][h.gen] \in 0..MaxSamples
    BY <2>1, <2>3
  <2> QED
    BY <2>2 DEF SamplesOf
<1>2. PICK R : R = InRange(n, Limit)
  OBVIOUS
<1>3. R \subseteq Int /\ (n > 0 /\ Limit # 0 => n \in R)
  BY <1>2, NewestInRange, Limits DEF RequestsInv
<1>4. PICK m : m = IF e.spec1 = <<>> THEN TRUE ELSE e.spec1[1].has_memory
  OBVIOUS
<1>5. m \in BOOLEAN
  <2>1. e.spec1 \in Seq(SpecType)
    BY DEF Entry, SomeSpec
  <2>2. e.spec1 # <<>> => e.spec1[1] \in SpecType
    BY <2>1, EmptySeq, ElementOfSeq
  <2> QED
    BY <1>4, <2>2 DEF SpecType
<1>6. PICK Y : Y = {[sample |-> i, memory |-> m] : i \in R}
  OBVIOUS
<1>7. ReadOf("stats", h, e) = [e EXCEPT !.stats = Y]
  BY <1>1, <1>2, <1>4, <1>6 DEF ReadOf, V2Stats
<1>8. Y \in Stats
  BY <1>3, <1>5, <1>6 DEF Stats
<1>9. X = Y
  BY <1>7, <1>8, SetsStats
<1>10. ASSUME h.path \in was.always, Limit # 0, was.samples[h.path][1] > 0
       PROVE  \E s \in X : s.sample >= was.samples[h.path][1]
  <2>1. h.path \in Paths /\ h.gen = 1 /\ 1 \in 1..MaxGen
    BY <1>10, BoundsAssumption DEF Handles
  <2>2. was.samples[h.path][1] \in 0..MaxSamples
    <3>1. was.samples \in [Paths -> [1..MaxGen -> 0..MaxSamples]]
      BY DEF RequestsInv, RequestTypes
    <3> QED
      BY <2>1, <3>1
  <2>3. n >= was.samples[h.path][1]
    BY <1>1, <2>1 DEF SamplesOf, RequestsInv, History
  <2>4. n \in R
    BY <1>3, <1>10, <2>2, <2>3
  <2>5. [sample |-> n, memory |-> m] \in X
    BY <1>6, <1>9, <2>4
  <2> QED
    BY <2>3, <2>5
<1>11. e.spec1 # <<>> => \A s \in X : s.memory = e.spec1[1].has_memory
  BY <1>4, <1>6, <1>9
<1> QED
  BY <1>7, <1>8, <1>9, <1>10, <1>11

\* The limits that a handle has, and what of them v2 shows.
LEMMA SpecsOf ==
    ASSUME RequestsInv, NEW h \in Handles
    PROVE  /\ SpecOf(h) \in SpecType /\ V2Spec(SpecOf(h)) \in SpecType
           /\ V2Spec(SpecOf(h)).has_memory = SpecOf(h).has_memory
<1>1. h.path \in Paths /\ h.gen \in 1..MaxGen
  BY DEF Handles
<1>2. spec[h.path][h.gen] \in Specs
  BY <1>1 DEF RequestsInv, RequestTypes
<1>3. SpecOf(h) \in SpecType
  BY <1>2, SpecsAssumption DEF SpecOf, SpecType
<1>4. PICK x \in SpecType : x = SpecOf(h)
  BY <1>3
<1>5. V2Spec(x) \in SpecType /\ V2Spec(x).has_memory = x.has_memory
  BY DEF V2Spec, SpecType
<1> QED
  BY <1>4, <1>5

\* Those of the first handle of a path are the last that the history has.
LEMMA LastLimits ==
    ASSUME RequestsInv, NEW h \in Handles, h.gen = 1
    PROVE  \E i \in DOMAIN was.limits[h.path] :
              i = Len(was.limits[h.path]) /\ was.limits[h.path][i] = SpecOf(h)
<1>1. h.path \in Paths
  BY DEF Handles
<1>2. PICK s \in Seq(Specs) : s = was.limits[h.path]
  BY <1>1 DEF RequestsInv, RequestTypes
<1>3. s # <<>> /\ s[Len(s)] = SpecOf(h)
  BY <1>1, <1>2 DEF RequestsInv, History, Limited, SpecOf
<1>4. Len(s) \in DOMAIN s
  BY <1>3
<1> QED
  BY <1>2, <1>3, <1>4

\* What an entry shows of limits is in its specs and samples.
LEMMA LimitsStay ==
    ASSUME NEW e, NEW e0, e.path = e0.path, e.spec1 = e0.spec1, e.spec = e0.spec, LimitsOk(e0)
    PROVE  LimitsOk(e)
BY DEF LimitsOk

LEMMA StatsStay ==
    ASSUME NEW e, NEW e0, e.spec1 = e0.spec1, e.stats = e0.stats, StatsOk(e0)
    PROVE  StatsOk(e)
BY DEF StatsOk

\* A sequence of one.
LEMMA OneOf ==
    ASSUME NEW T, NEW x \in T
    PROVE  <<x>> \in Seq(T) /\ <<x>> # <<>> /\ <<x>>[1] = x
OBVIOUS

\* The children that are listed.
LEMMA ChildrenRead ==
    ASSUME RequestsInv, NEW h \in Handles,
           NEW X, X = {p \in Registered : DirectChild(Name(p), Name(h.path))}
    PROVE  X \in Children /\ was.always \cap Kids(h.path) \subseteq X /\ X \subseteq was.ever \cap Kids(h.path)
<1>1. h.path \in Paths /\ Paths \subseteq Path /\ Registered \subseteq Paths
  BY PathsAssumption DEF Handles, Registered
<1>2. ASSUME NEW p \in Paths PROVE DirectChild(Name(p), Name(h.path)) <=> p \in Kids(h.path)
  <2>1. p \in Path /\ h.path \in Path
    BY <1>1
  <2>2. DirectChild(Name(p), Name(h.path)) <=> Len(p) = Len(h.path) + 1 /\ Below(p, h.path)
    BY <2>1, ChildrenOfNames
  <2> QED
    BY <2>2 DEF Kids
<1>3. was.always \subseteq Registered /\ Registered \subseteq was.ever
  BY DEF RequestsInv, RequestTypes, History, Registered
<1> QED
  BY <1>1, <1>2, <1>3 DEF Children

\* One read more of an entry.
LEMMA ReadOfEntry ==
    ASSUME RequestsInv, Kind \in ReadKinds, NEW h \in Handles, NEW e0 \in Entry, e0.path = h.path,
           NEW n \in Nat, n < Len(Program(Kind)), EntryOk(e0, n),
           h.path \in was.always => h.gen = 1,
           NEW e, e = ReadOf(Program(Kind)[n + 1], h, e0)
    PROVE  e \in Entry /\ e.path = h.path /\ EntryOk(e, n + 1)
<1>1. PICK what : what = Program(Kind)[n + 1]
  OBVIOUS
<1>2. /\ what \in {"stats", "children", "spec1", "spec", "latest", "disks"}
      /\ what = "spec1" => Kind \in {"stats20", "stats21", "machinestats"}
      /\ what = "spec" => Kind \in {"containers", "subcontainers", "docker", "stats21", "spec", "metrics"}
  <2>1. n + 1 \in 1..Len(Program(Kind))
    BY Programs
  <2> QED
    BY <1>1, <2>1, Programs
<1>3. \A x : HasRead(x, n + 1) <=> HasRead(x, n) \/ what = x
  BY <1>1, ReadMore
<1>4. e = ReadOf(what, h, e0)
  BY <1>1
<1>5. /\ e0.spec1 # <<>> => Kind \in {"stats20", "stats21", "machinestats"}
      /\ e0.spec # <<>> => Kind \in {"containers", "subcontainers", "docker", "stats21", "spec", "metrics"}
      /\ e0.spec # <<>> <=> HasRead("spec", n)
      /\ e0.spec1 # <<>> <=> HasRead("spec1", n)
      /\ LimitsOk(e0) /\ StatsOk(e0)
      /\ HasRead("children", n) => was.always \cap Kids(h.path) \subseteq e0.children
                                   /\ e0.children \subseteq was.ever \cap Kids(h.path)
      /\ HasRead("stats", n) /\ h.path \in was.always /\ Limit # 0 /\ was.samples[h.path][1] > 0
             => \E s \in e0.stats : s.sample >= was.samples[h.path][1]
  BY DEF EntryOk
<1>13. Kind \in {"stats20", "stats21", "machinestats"} => (what = "spec1" <=> n = 0)
  <2>1. n + 1 \in 1..Len(Program(Kind))
    BY Programs
  <2> QED
    BY <1>1, <2>1, Programs
<1>6. CASE what = "stats"
  <2>1. PICK X : X = ReadOf("stats", h, e0).stats
    OBVIOUS
  <2>2. /\ X \in Stats /\ e = [e0 EXCEPT !.stats = X]
        /\ h.path \in was.always /\ Limit # 0 /\ was.samples[h.path][1] > 0
              => \E s \in X : s.sample >= was.samples[h.path][1]
        /\ e0.spec1 # <<>> => \A s \in X : s.memory = e0.spec1[1].has_memory
    BY <1>4, <1>6, <2>1, StatsRead
  <2>3. e \in Entry /\ e.path = h.path /\ e.spec1 = e0.spec1 /\ e.spec = e0.spec /\ e.stats = X
        /\ e.children = e0.children
    BY <2>2, SetsStats
  <2>4. LimitsOk(e)
    BY <1>5, <2>3, LimitsStay
  <2>5. StatsOk(e)
    <3>1. Kind \in {"stats20", "stats21", "machinestats"} => HasRead("spec1", n)
      <4>1. ASSUME Kind \in {"stats20", "stats21", "machinestats"} PROVE n > 0 /\ Program(Kind)[1] = "spec1"
        <5>1. 1 \in 1..Len(Program(Kind))
          BY Programs
        <5> QED
          BY <1>6, <1>13, <4>1, <5>1, Programs
      <4> QED
        BY <4>1 DEF HasRead
    <3> QED
      BY <1>5, <2>2, <2>3, <3>1 DEF StatsOk
  <2> QED
    BY <1>3, <1>5, <1>6, <2>2, <2>3, <2>4, <2>5 DEF EntryOk
<1>7. CASE what = "children"
  <2>1. PICK X : X = {p \in Registered : DirectChild(Name(p), Name(h.path))}
    OBVIOUS
  <2>2. X \in Children /\ was.always \cap Kids(h.path) \subseteq X /\ X \subseteq was.ever \cap Kids(h.path)
    BY <2>1, ChildrenRead
  <2>3. e = [e0 EXCEPT !.children = X]
    BY <1>4, <1>7, <2>1 DEF ReadOf
  <2>4. e \in Entry /\ e.path = h.path /\ e.spec1 = e0.spec1 /\ e.spec = e0.spec /\ e.stats = e0.stats
        /\ e.children = X
    BY <2>2, <2>3, SetsChildren
  <2>5. LimitsOk(e) /\ StatsOk(e)
    BY <1>5, <2>4, LimitsStay, StatsStay
  <2> QED
    BY <1>3, <1>5, <1>7, <2>2, <2>4, <2>5 DEF EntryOk
<1>8. CASE what = "spec1"
  <2>1. PICK m \in SpecType : m = SpecOf(h)
    BY SpecsOf
  <2>2. PICK X \in SomeSpec : X = <<m>> /\ X # <<>> /\ X[1] = m
    BY OneOf DEF SomeSpec
  <2>3. e = [e0 EXCEPT !.spec1 = X]
    BY <1>4, <1>8, <2>1, <2>2 DEF ReadOf
  <2>4. e \in Entry /\ e.path = h.path /\ e.spec1 = X /\ e.spec = e0.spec /\ e.stats = e0.stats
        /\ e.children = e0.children
    BY <2>2, <2>3, SetsSpec1
  <2>5. e0.spec = <<>> /\ e0.spec1 = <<>>
    <3>1. n = 0
      BY <1>2, <1>8, <1>13
    <3>2. ~HasRead("spec", n) /\ ~HasRead("spec1", n)
      BY <3>1 DEF HasRead
    <3> QED
      BY <1>5, <3>2
  <2>6. LimitsOk(e)
    <3>1. ASSUME h.path \in was.always
          PROVE  \E i \in DOMAIN was.limits[h.path] : X[1].has_memory = was.limits[h.path][i].has_memory
      BY <2>1, <2>2, <3>1, LastLimits
    <3> QED
      BY <2>4, <2>5, <3>1 DEF LimitsOk
  <2>7. StatsOk(e)
    BY <1>5, <2>4, <2>5 DEF StatsOk
  <2> QED
    BY <1>2, <1>3, <1>5, <1>8, <2>2, <2>4, <2>5, <2>6, <2>7 DEF EntryOk
<1>9. CASE what = "spec"
  <2>1. PICK m \in SpecType : m = IF Kind \in {"stats21", "spec"} THEN V2Spec(SpecOf(h)) ELSE SpecOf(h)
    BY SpecsOf
  <2>2. PICK X \in SomeSpec : X = <<m>> /\ X # <<>> /\ X[1] = m
    BY OneOf DEF SomeSpec
  <2>3. e = [e0 EXCEPT !.spec = X]
    BY <1>4, <1>9, <2>1, <2>2 DEF ReadOf
  <2>4. e \in Entry /\ e.path = h.path /\ e.spec1 = e0.spec1 /\ e.spec = X /\ e.stats = e0.stats
        /\ e.children = e0.children
    BY <2>2, <2>3, SetsSpec
  <2>5. LimitsOk(e)
    <3> SUFFICES ASSUME h.path \in was.always, e0.spec1 # <<>>
                 PROVE  \E i \in DOMAIN was.limits[h.path] :
                           /\ e0.spec1[1].has_memory = was.limits[h.path][i].has_memory
                           /\ \E j \in i..Len(was.limits[h.path]) : X = <<V2Spec(was.limits[h.path][j])>>
      BY <2>4 DEF LimitsOk
    <3>1. X = <<V2Spec(SpecOf(h))>>
      BY <1>2, <1>5, <1>9, <2>1, <2>2
    <3>2. PICK s \in Seq(Specs) : s = was.limits[h.path]
      <4>1. h.path \in Paths
        BY DEF Handles
      <4> QED
        BY <4>1 DEF RequestsInv, RequestTypes
    <3>3. PICK i \in DOMAIN s : e0.spec1[1].has_memory = s[i].has_memory
      BY <1>5, <3>2 DEF LimitsOk
    <3>4. s[Len(s)] = SpecOf(h) /\ Len(s) \in i..Len(s)
      BY <3>2, <3>3, LastLimits
    <3> QED
      BY <3>1, <3>2, <3>3, <3>4
  <2>6. StatsOk(e)
    BY <1>5, <2>4, StatsStay
  <2> QED
    BY <1>2, <1>3, <1>5, <1>9, <2>2, <2>4, <2>5, <2>6 DEF EntryOk
<1>10. CASE what = "latest"
  <2>1. PICK X : X = IF SamplesOf(h) = 0 THEN <<>> ELSE <<SampleAt(h.path, SamplesOf(h))>>
    OBVIOUS
  <2>2. X \in SomeLatest
    <3>1. h.path \in Paths /\ h.gen \in 1..MaxGen
      BY DEF Handles
    <3>2. samples[h.path][h.gen] \in 0..MaxSamples /\ MaxSamples \in Nat
      BY <3>1, BoundsAssumption DEF RequestsInv, RequestTypes
    <3>3. CASE SamplesOf(h) = 0
      BY <2>1, <3>3, EmptySeq DEF SomeLatest
    <3>4. CASE SamplesOf(h) # 0
      <4>1. SamplesOf(h) \in 1..MaxSamples
        BY <3>2, <3>4 DEF SamplesOf
      <4>2. PICK x \in Latest : x = SampleAt(h.path, SamplesOf(h))
        BY <3>1, <4>1 DEF Latest
      <4> QED
        BY <2>1, <3>4, <4>2, OneOf DEF SomeLatest
    <3> QED
      BY <3>3, <3>4
  <2>3. e = [e0 EXCEPT !.latest = X]
    BY <1>4, <1>10, <2>1 DEF ReadOf
  <2>4. e \in Entry /\ e.path = h.path /\ e.spec1 = e0.spec1 /\ e.spec = e0.spec /\ e.stats = e0.stats
        /\ e.children = e0.children
    BY <2>2, <2>3, SetsLatest
  <2>5. LimitsOk(e) /\ StatsOk(e)
    BY <1>5, <2>4, LimitsStay, StatsStay
  <2> QED
    BY <1>3, <1>5, <1>10, <2>4, <2>5 DEF EntryOk
<1>11. CASE what = "disks"
  <2>1. disks \in Disks
    BY DEF RequestsInv, RequestTypes, Disks
  <2>2. e = [e0 EXCEPT !.disks = disks]
    BY <1>4, <1>11 DEF ReadOf
  <2>3. e \in Entry /\ e.path = h.path /\ e.spec1 = e0.spec1 /\ e.spec = e0.spec /\ e.stats = e0.stats
        /\ e.children = e0.children
    BY <2>1, <2>2, SetsDisks
  <2>5. LimitsOk(e) /\ StatsOk(e)
    BY <1>5, <2>3, LimitsStay, StatsStay
  <2> QED
    BY <1>3, <1>5, <1>11, <2>3, <2>5 DEF EntryOk
<1> QED
  BY <1>2, <1>6, <1>7, <1>8, <1>9, <1>10, <1>11

\* An entry that is not finished.
LEMMA ReadOnInvariant ==
    ASSUME RequestsInv, UNCHANGED <<env, req, was>>, task.pc = "read", NEW h \in task.todo,
           NEW k \in Nat, k > 0, k < Len(Program(Kind)), NEW e \in Entry, e.path = h.path,
           EntryOk(e, k),
           task' = [task EXCEPT !.cur = h, !.k = k, !.entry = e]
    PROVE  RequestsInv'
<1>1. /\ task \in TaskType /\ Kind \in ReadKinds /\ task.todo \subseteq Handles /\ task.status = 200
  BY DEF RequestsInv, RequestTypes, Position
<1>2. /\ task' \in TaskType /\ task'.pc = "read" /\ task'.status = 200 /\ task'.todo = task.todo
      /\ task'.k = k /\ task'.cur = h /\ task'.entry = e /\ task'.out = task.out
  <2>1. h \in Handles
    BY <1>1
  <2> QED
    BY <1>1, <2>1 DEF TaskType
<1>3. Kind' = Kind /\ AboutSet' = AboutSet
  BY AskedStays
<1>4. RequestTypes' /\ History'
  BY <1>2, TaskSteps
<1>5. Position'
  BY <1>1, <1>2, <1>3 DEF Position
<1>6. Accounted'
  <2>1. Answered' = Answered /\ Pending' = Pending
    BY <1>2 DEF Answered, Pending
  <2> QED
    BY <1>2, <1>3, <2>1 DEF Accounted, RequestsInv
<1>7. Entries'
  <2>1. ASSUME NEW i \in DOMAIN task'.out PROVE EntryOk(task.out[i], Len(Program(Kind)))'
    <3>1. PICK x, n : x = task.out[i] /\ n = Len(Program(Kind)) /\ x = task'.out[i] /\ n = Len(Program(Kind'))
      BY <1>2, <1>3
    <3>2. EntryOk(x, n)
      BY <1>2, <3>1 DEF Entries, RequestsInv
    <3>3. EntryOk(x, n)'
      BY <3>2, EntryRests
    <3> QED
      BY <3>1, <3>3
  <2>2. EntryOk(e, k)'
    BY EntryRests
  <2>3. EntryOk(task.entry, task.k)'
    BY <1>2, <2>2
  <2> QED
    BY <1>2, <2>1, <2>3 DEF Entries
<1>8. Others'
  BY <1>2 DEF Others, Done
<1> QED
  BY <1>4, <1>5, <1>6, <1>7, <1>8 DEF RequestsInv

\* The last read of an entry.
LEMMA ReadLastInvariant ==
    ASSUME RequestsInv, UNCHANGED <<env, req, was>>, task.pc = "read", NEW h \in task.todo,
           NEW e \in Entry, e.path = h.path, EntryOk(e, Len(Program(Kind))),
           task' = [task EXCEPT !.todo = @ \ {h}, !.k = 0, !.entry = NoEntry, !.cur = HandleOf(<<>>),
                                !.out = Append(@, e)]
    PROVE  RequestsInv'
<1>1. /\ task \in TaskType /\ Kind \in ReadKinds /\ task.todo \subseteq Handles /\ task.status = 200
      /\ task.out \in Seq(Entry)
  BY DEF RequestsInv, RequestTypes, Position, TaskType
<1>2. NoEntry \in Entry
  BY PathsAssumption, EmptySeq DEF NoEntry, Entry, SomeSpec, Stats, Children, SomeLatest, Disks
<1>3. PICK c \in Handles : c = HandleOf(<<>>)
  <2>1. containers[<<>>] = 1
    BY DEF RequestsInv, History
  <2>2. HandleOf(<<>>) \in Handles
    BY <2>1, PathsAssumption, BoundsAssumption DEF HandleOf, Handles
  <2> QED
    BY <2>2
<1>4. PICK S \in ToDo : S = task.todo \ {h}
  BY <1>1 DEF ToDo
<1>5. PICK O \in Seq(Entry) : O = Append(task.out, e)
  <2>1. Append(task.out, e) \in Seq(Entry)
    BY <1>1, AppendProperties
  <2> QED
    BY <2>1
<1>6. task' = [task EXCEPT !.todo = S, !.k = 0, !.entry = NoEntry, !.cur = c, !.out = O]
  BY <1>3, <1>4, <1>5
<1>7. PICK z \in Nat : z = 0
  OBVIOUS
<1>8. PICK none \in Entry : none = NoEntry
  BY <1>2
<1>9. EntryDone(S, z, none, c, O)
  BY <1>6, <1>7, <1>8 DEF EntryDone
<1>10. /\ task' \in TaskType /\ task'.pc = "read" /\ task'.status = 200 /\ task'.todo = S
       /\ task'.k = 0 /\ task'.entry = NoEntry /\ task'.out = O
  <2>1. task \in TaskType /\ S \in ToDo /\ z \in Nat /\ none \in Entry /\ c \in Handles /\ O \in Seq(Entry)
    BY <1>1
  <2>2. /\ task' \in TaskType /\ task'.pc = task.pc /\ task'.status = task.status /\ task'.todo = S
        /\ task'.k = z /\ task'.entry = none /\ task'.out = O
    BY <2>1, <1>9, EntryIsDone
  <2> QED
    BY <1>1, <1>7, <1>8, <2>2
<1>11. Kind' = Kind /\ AboutSet' = AboutSet
  BY AskedStays
<1>12. RequestTypes' /\ History'
  BY <1>10, TaskSteps
<1>13. Position'
  BY <1>1, <1>4, <1>10, <1>11 DEF Position
<1>14. PICK m \in Nat : m = Len(task.out)
  BY <1>1
<1>15. /\ DOMAIN task.out = 1..m /\ DOMAIN O = 1..(m + 1) /\ O[m + 1] = e
       /\ \A i \in 1..m : O[i] = task.out[i]
  BY <1>1, <1>5, <1>14
<1>16. Accounted'
  <2>1. Answered' = Answered \cup {h.path}
    BY <1>10, <1>15 DEF Answered
  <2>2. \A g \in task.todo : g.path = h.path => g = h
    BY DEF RequestsInv, Accounted
  <2>3. Pending' = Pending \ {h.path} /\ h.path \in Pending
    BY <1>4, <1>10, <2>2 DEF Pending
  <2>4. Answered \cap Pending = {}
    BY DEF RequestsInv, Accounted
  <2>5. \A i, j \in DOMAIN O : O[i].path = O[j].path => i = j
    <3>1. \A i, j \in 1..m : task.out[i].path = task.out[j].path => i = j
      BY <1>15 DEF RequestsInv, Accounted
    <3>2. \A i \in 1..m : task.out[i].path # h.path
      BY <1>15, <2>3, <2>4 DEF Answered
    <3> QED
      BY <1>15, <3>1, <3>2
  <2>6. /\ was.always \cap AboutSet \subseteq Answered' \cup Pending'
        /\ Answered' \cup Pending' \subseteq was.ever \cap AboutSet
        /\ Answered' \cap Pending' = {}
    BY <2>1, <2>3, <2>4 DEF RequestsInv, Accounted
  <2>7. /\ \A f, g \in S : f.path = g.path => f = g
        /\ \A g \in S : g.path \in was.always => g.gen = 1
    BY <1>4 DEF RequestsInv, Accounted
  <2> QED
    BY <1>10, <1>11, <2>5, <2>6, <2>7 DEF Accounted
<1>17. Entries'
  <2>1. ASSUME NEW i \in DOMAIN O PROVE EntryOk(task.out[i], Len(Program(Kind)))'
    <3>1. PICK x, n : x = O[i] /\ n = Len(Program(Kind)) /\ x = task'.out[i] /\ n = Len(Program(Kind'))
      BY <1>10, <1>11
    <3>2. EntryOk(x, n)
      <4>1. \A j \in 1..m : EntryOk(task.out[j], Len(Program(Kind)))
        BY <1>15 DEF Entries, RequestsInv
      <4>2. CASE i \in 1..m
        BY <1>15, <3>1, <4>1, <4>2
      <4>3. CASE i = m + 1
        BY <1>15, <3>1, <4>3
      <4> QED
        BY <1>15, <4>2, <4>3
    <3>3. EntryOk(x, n)'
      BY <3>2, EntryRests
    <3> QED
      BY <3>1, <3>3
  <2> QED
    BY <1>10, <2>1 DEF Entries
<1>18. Others'
  BY <1>10 DEF Others, Done
<1> QED
  BY <1>12, <1>13, <1>16, <1>17, <1>18 DEF RequestsInv

\* Read, of whichever handle.
LEMMA ReadInvariant == RequestsInv /\ Read => RequestsInv'
<1> SUFFICES ASSUME RequestsInv, Read PROVE RequestsInv'
  OBVIOUS
<1>1. /\ task.pc = "read" /\ UNCHANGED <<env, req, was>> /\ task \in TaskType /\ Kind \in ReadKinds
      /\ task.todo \subseteq Handles /\ task.k \in Nat
  BY DEF RequestsInv, RequestTypes, Position, Read, TaskType
<1>2. PICK h \in IF task.k > 0 THEN {task.cur} ELSE task.todo :
         LET program == Program(Kind)
             e == ReadOf(program[task.k + 1], h,
                         IF task.k > 0 THEN task.entry ELSE [NoEntry EXCEPT !.path = h.path])
         IN  task' = IF task.k + 1 < Len(program)
                     THEN [task EXCEPT !.cur = h, !.k = @ + 1, !.entry = e]
                     ELSE [task EXCEPT !.todo = @ \ {h}, !.k = 0, !.entry = NoEntry,
                                       !.cur = HandleOf(<<>>), !.out = Append(@, e)]
  BY DEF Read
<1>3. PICK n \in Nat : n = task.k
  BY <1>1
<1>4. PICK e0 : e0 = IF n > 0 THEN task.entry ELSE [NoEntry EXCEPT !.path = h.path]
  OBVIOUS
<1>5. PICK e : e = ReadOf(Program(Kind)[n + 1], h, e0)
  OBVIOUS
<1>6. task' = IF n + 1 < Len(Program(Kind))
              THEN [task EXCEPT !.cur = h, !.k = n + 1, !.entry = e]
              ELSE [task EXCEPT !.todo = @ \ {h}, !.k = 0, !.entry = NoEntry,
                                !.cur = HandleOf(<<>>), !.out = Append(@, e)]
  BY <1>2, <1>3, <1>4, <1>5
<1>7. h \in task.todo /\ h \in Handles /\ n < Len(Program(Kind)) /\ Len(Program(Kind)) \in Nat
  <2>1. Len(Program(Kind)) \in 1..3
    BY <1>1, Programs
  <2>2. CASE n > 0
    <3>1. h = task.cur /\ task.cur \in task.todo /\ n < Len(Program(Kind))
      BY <1>2, <1>3, <2>2 DEF RequestsInv, Position
    <3> QED
      BY <1>1, <2>1, <3>1
  <2>3. CASE n = 0
    BY <1>1, <1>2, <1>3, <2>1, <2>3
  <2> QED
    BY <2>2, <2>3
<1>8. e0 \in Entry /\ e0.path = h.path /\ EntryOk(e0, n)
  <2>1. CASE n > 0
    <3>1. h = task.cur /\ e0 = task.entry
      BY <1>2, <1>3, <1>4, <2>1
    <3>2. e0 \in Entry /\ e0.path = h.path
      BY <1>1, <1>3, <2>1, <3>1 DEF TaskType, RequestsInv, Position
    <3>3. EntryOk(e0, n)
      BY <1>3, <2>1, <3>1 DEF RequestsInv, Entries
    <3> QED
      BY <3>2, <3>3
  <2>2. CASE n = 0
    BY <1>4, <1>7, <2>2, EntryBegins
  <2> QED
    BY <2>1, <2>2
<1>9. h.path \in was.always => h.gen = 1
  BY <1>1, <1>7 DEF RequestsInv, Accounted
<1>10. e \in Entry /\ e.path = h.path /\ EntryOk(e, n + 1)
  BY <1>1, <1>5, <1>7, <1>8, <1>9, ReadOfEntry
<1>11. CASE n + 1 < Len(Program(Kind))
  <2>1. PICK k \in Nat : k = n + 1
    OBVIOUS
  <2>2. task' = [task EXCEPT !.cur = h, !.k = k, !.entry = e] /\ k > 0 /\ k < Len(Program(Kind)) /\ EntryOk(e, k)
    BY <1>6, <1>10, <1>11, <2>1
  <2> QED
    BY <1>1, <1>7, <1>10, <2>2, ReadOnInvariant
<1>12. CASE ~(n + 1 < Len(Program(Kind)))
  <2>1. EntryOk(e, Len(Program(Kind)))
    <3>1. Len(Program(Kind)) = n + 1
      BY <1>7, <1>12
    <3> QED
      BY <1>10, <3>1
  <2>2. task' = [task EXCEPT !.todo = @ \ {h}, !.k = 0, !.entry = NoEntry, !.cur = HandleOf(<<>>),
                             !.out = Append(@, e)]
    BY <1>6, <1>12
  <2> QED
    BY <1>1, <1>7, <1>10, <2>1, <2>2, ReadLastInvariant
<1> QED
  BY <1>11, <1>12
-----------------------------------------------------------------------------
\* Nothing happens to what the invariant is about.
LEMMA RestInvariant == RequestsInv /\ UNCHANGED vars => RequestsInv'
<1> SUFFICES ASSUME RequestsInv, UNCHANGED vars PROVE RequestsInv'
  OBVIOUS
<1>1. req' = req /\ task' = task /\ was' = was /\ alive' = alive /\ UNCHANGED <<env, req, was>>
  BY DEF vars, env
<1>2. /\ Kind' = Kind /\ ByMetadata' = ByMetadata /\ Recursive' = Recursive /\ Target' = Target
      /\ AboutSet' = AboutSet /\ \A p : About(p)' = About(p) /\ Sought(p)' = Sought(p)
  BY <1>1, AskedStays
<1>3. RequestTypes' /\ History'
  BY <1>1, TaskSteps DEF RequestsInv, RequestTypes
<1>4. Position'
  BY <1>1, <1>2 DEF RequestsInv, Position
<1>5. Accounted'
  <2>1. Answered' = Answered /\ Pending' = Pending /\ Done(200)' = Done(200)
    BY <1>1 DEF Answered, Pending, Done
  <2> QED
    BY <1>1, <1>2, <2>1 DEF RequestsInv, Accounted
<1>6. Entries'
  <2>1. ASSUME NEW i \in DOMAIN task'.out PROVE EntryOk(task.out[i], Len(Program(Kind)))'
    <3>1. PICK x, n : x = task.out[i] /\ n = Len(Program(Kind)) /\ x = task'.out[i] /\ n = Len(Program(Kind'))
      BY <1>1, <1>2
    <3>2. EntryOk(x, n)
      BY <1>1, <3>1 DEF Entries, RequestsInv
    <3>3. EntryOk(x, n)'
      BY <1>1, <3>2, EntryRests
    <3> QED
      BY <3>1, <3>3
  <2>2. ASSUME task.k > 0 PROVE EntryOk(task.entry, task.k)'
    <3>1. PICK x, n : x = task.entry /\ n = task.k /\ x = task'.entry /\ n = task'.k
      BY <1>1
    <3>2. EntryOk(x, n)
      BY <2>2, <3>1 DEF Entries, RequestsInv
    <3>3. EntryOk(x, n)'
      BY <1>1, <3>2, EntryRests
    <3> QED
      BY <3>1, <3>3
  <2> QED
    BY <1>1, <2>1, <2>2 DEF Entries
<1>7. Others'
  BY <1>1, <1>2 DEF RequestsInv, Others, Done
<1> QED
  BY <1>3, <1>4, <1>5, <1>6, <1>7 DEF RequestsInv

\* The invariant is inductive.
LEMMA StepsInvariant == RequestsInv /\ [Next]_vars => RequestsInv'
<1> SUFFICES ASSUME RequestsInv, [Next]_vars PROVE RequestsInv'
  OBVIOUS
<1>1. CASE Step
  BY <1>1, ArriveInvariant, LookInvariant, CollectInvariant, ReadInvariant, FinishInvariant,
     ReadProcsInvariant, ReadPidInvariant DEF Step
<1>2. CASE \E p \in Paths : AddContainer(p) \/ RemoveContainer(p) \/ Sample(p) \/ \E x \in Specs : Refresh(p, x)
  BY <1>2, AddInvariant, RemoveInvariant, SampleInvariant, RefreshInvariant
<1>3. CASE \E d \in Devices : NameDisk(d)
  BY <1>3, NameDiskInvariant
<1>4. CASE \E pid \in Pids : Exit(pid)
  BY <1>4, ExitInvariant
<1>5. CASE UNCHANGED vars
  BY <1>5, RestInvariant
<1> QED
  BY <1>1, <1>2, <1>3, <1>4, <1>5 DEF Next

\* Whatever comes and goes while a request is answered: it accounts for every container
\* it is about, and for what it has read of each (container_info, subcontainers_info,
\* docker_containers, container_pids, handle_v2 and render read without a common lock).
THEOREM RequestsInvariant == Spec => []RequestsInv
<1> QED
  BY InitRequests, StepsInvariant, PTL DEF Spec
-----------------------------------------------------------------------------
(* Requests: what follows from the invariant.                              *)

\* As many different things as the sequence is long, when none is repeated.
LEMMA NoneRepeated ==
    ASSUME NEW n \in Nat, NEW T, NEW f, f \in [1..n -> T], \A i, j \in 1..n : f[i] = f[j] => i = j,
           T = {f[i] : i \in 1..n}
    PROVE  Cardinality(T) = n
<1>1. f \in Bijection(1..n, T)
  BY DEF Bijection, Injection, Surjection, IsInjective
<1>2. ExistsBijection(1..n, T)
  BY <1>1 DEF ExistsBijection
<1> QED
  BY <1>2, FS_CountingElements

\* The samples and the spec beside them.
LEMMA InvDescribes == RequestsInv => SpecDescribesStats
<1> SUFFICES ASSUME RequestsInv, Kind \in {"stats20", "stats21", "machinestats"},
                    NEW n \in DOMAIN task.out, task.out[n].path \in was.always
             PROVE  \E i \in DOMAIN was.limits[task.out[n].path] :
                       /\ \A s \in task.out[n].stats : s.memory = was.limits[task.out[n].path][i].has_memory
                       /\ Kind = "stats21" =>
                             \E j \in i..Len(was.limits[task.out[n].path]) :
                                 task.out[n].spec = <<V2Spec(was.limits[task.out[n].path][j])>>
  BY DEF SpecDescribesStats
<1>1. PICK e : e = task.out[n]
  OBVIOUS
<1>2. EntryOk(e, Len(Program(Kind))) /\ Kind \in ReadKinds
  BY <1>1 DEF RequestsInv, Entries, ReadKinds
<1>3. HasRead("spec1", Len(Program(Kind))) /\ (Kind = "stats21" => HasRead("spec", Len(Program(Kind))))
  <2>1. 1 \in 1..Len(Program(Kind)) /\ (Kind = "stats21" => 2 \in 1..Len(Program(Kind)))
    BY <1>2, Programs
  <2> QED
    BY <1>2, <2>1, Programs DEF HasRead
<1>4. e.spec1 # <<>> /\ (Kind = "stats21" => e.spec # <<>>) /\ LimitsOk(e) /\ StatsOk(e)
  BY <1>2, <1>3 DEF EntryOk
<1>5. PICK i \in DOMAIN was.limits[e.path] :
          /\ e.spec1[1].has_memory = was.limits[e.path][i].has_memory
          /\ e.spec # <<>> => \E j \in i..Len(was.limits[e.path]) : e.spec = <<V2Spec(was.limits[e.path][j])>>
  BY <1>1, <1>4 DEF LimitsOk
<1>6. \A s \in e.stats : s.memory = was.limits[e.path][i].has_memory
  BY <1>4, <1>5 DEF StatsOk
<1>7. Kind = "stats21" => \E j \in i..Len(was.limits[e.path]) : e.spec = <<V2Spec(was.limits[e.path][j])>>
  BY <1>4, <1>5, Zenon
<1> QED
  BY <1>1, <1>6, <1>7, Zenon

\* A failure.
LEMMA InvGenuine == RequestsInv => FailureIsGenuine
BY DEF RequestsInv, Others, FailureIsGenuine

\* The containers of an answer.
LEMMA InvAnswered == RequestsInv => ContainersAreAnswered
<1> SUFFICES ASSUME RequestsInv, Done(200), Kind \notin Lists \cup {"ps", "events"}
             PROVE  /\ was.always \cap AboutSet \subseteq Answered
                    /\ Answered \subseteq was.ever \cap AboutSet
                    /\ Cardinality(Answered) = Len(task.out)
  BY DEF ContainersAreAnswered, AboutSet
<1>1. Kind \in ReadKinds
  BY RouteKinds DEF Kind, Kinds
<1>2. Pending = {}
  BY <1>1 DEF RequestsInv, Position, Done, Pending
<1>3. /\ was.always \cap AboutSet \subseteq Answered
      /\ Answered \subseteq was.ever \cap AboutSet
      /\ \A i, j \in DOMAIN task.out : task.out[i].path = task.out[j].path => i = j
  BY <1>1, <1>2 DEF RequestsInv, Accounted
<1>4. PICK n \in Nat : n = Len(task.out) /\ DOMAIN task.out = 1..n
  BY DEF RequestsInv, RequestTypes, TaskType
<1>5. Cardinality(Answered) = n
  <2>1. PICK f : f = [i \in 1..n |-> task.out[i].path]
    OBVIOUS
  <2>2. f \in [1..n -> Answered] /\ Answered = {f[i] : i \in 1..n} /\ \A i, j \in 1..n : f[i] = f[j] => i = j
    BY <1>3, <1>4, <2>1 DEF Answered
  <2> QED
    BY <2>2, NoneRepeated
<1> QED
  BY <1>3, <1>4, <1>5

\* The children of an entry.
LEMMA InvChildren == RequestsInv => ChildrenAreDirect
<1> SUFFICES ASSUME RequestsInv, Kind \in {"containers", "subcontainers"}, NEW i \in DOMAIN task.out
             PROVE  /\ was.always \cap {p \in Paths : Len(p) = Len(task.out[i].path) + 1 /\ Below(p, task.out[i].path)}
                          \subseteq task.out[i].children
                    /\ task.out[i].children \subseteq was.ever \cap
                          {p \in Paths : Len(p) = Len(task.out[i].path) + 1 /\ Below(p, task.out[i].path)}
  BY DEF ChildrenAreDirect
<1>1. Kind \in ReadKinds
  BY DEF ReadKinds
<1>2. Program(Kind)[2] = "children" /\ Len(Program(Kind)) = 3
  BY <1>1, Programs
<1>3. HasRead("children", Len(Program(Kind)))
  BY <1>2 DEF HasRead
<1>4. EntryOk(task.out[i], Len(Program(Kind)))
  BY DEF RequestsInv, Entries
<1> QED
  BY <1>3, <1>4 DEF EntryOk, Kids

\* The newest sample.
LEMMA InvNewest == RequestsInv => NewestIsAnswered
<1> SUFFICES ASSUME RequestsInv, NEW i \in DOMAIN task.out, "stats" \in Range(Program(Kind)),
                    task.out[i].path \in was.always, Limit # 0, was.samples[task.out[i].path][1] > 0
             PROVE  \E s \in task.out[i].stats : s.sample >= was.samples[task.out[i].path][1]
  BY DEF NewestIsAnswered
<1>1. Kind \in ReadKinds
  BY DEF RequestsInv, Position
<1>2. HasRead("stats", Len(Program(Kind)))
  BY <1>1, Programs DEF HasRead
<1>3. EntryOk(task.out[i], Len(Program(Kind)))
  BY DEF RequestsInv, Entries
<1> QED
  BY <1>2, <1>3 DEF EntryOk

\* The events of a subtree: names are told by their letters, paths by their segments.
LEMMA InvEvents == RequestsInv => EventsOfSubtree
<1> SUFFICES ASSUME RequestsInv, Done(200), Kind = "events"
             PROVE  task.listed = {p \in Paths : \E q \in Paths : Spells(req.args, q)
                                      /\ (p = q \/ (req.recursive /\ Below(p, q)))}
  BY DEF EventsOfSubtree
<1>1. /\ task.listed = {p \in Paths : EventInScope(Name(p), Target, req.recursive)}
      /\ Target = ContainerName(req.args)
  BY DEF RequestsInv, Others, Target
<1>2. /\ req.args \in Seq(Segment) /\ req.recursive \in BOOLEAN /\ Paths \in SUBSET Path
      /\ \A p \in Paths : \A k \in 0..Len(p) : SubSeq(p, 1, k) \in Paths
  BY PathsAssumption, AskedAssumption DEF RequestsInv, RequestTypes
<1>3. ASSUME NEW p \in Paths
      PROVE  EventInScope(Name(p), ContainerName(req.args), req.recursive) <=>
                \E q \in Paths : Spells(req.args, q) /\ (p = q \/ (req.recursive /\ Below(p, q)))
  BY <1>2, EventsOfNames
<1> QED
  BY <1>1, <1>3

\* The processes.
LEMMA InvLiving == RequestsInv => LivingAreListed
BY DEF RequestsInv, Others, LivingAreListed

\* All samples of a container in a v2 answer show what its limits at one moment of the
\* request say that it has, and the spec beside them is never older, although the two are
\* read one after the other while the limits change (handle_v2, v2_stats, v2_spec).
THEOREM RequestsDescribe == Spec => []SpecDescribesStats
<1> QED
  BY RequestsInvariant, InvDescribes, PTL

\* No container that was registered all the time is reported as unknown, in whatever
\* form a request names it (Manager::handle, container_name, resolve).
THEOREM RequestsFailGenuinely == Spec => []FailureIsGenuine
<1> QED
  BY RequestsInvariant, InvGenuine, PTL

\* An answer has the containers, children, newest samples and events it is about that
\* were there throughout, and none that were not there (the filters by prefixes of names
\* of subcontainers_info, direct_children and the event history), and of the processes
\* that live on those whose files under /proc it could read (container_pids, process_list).
THEOREM RequestsAnswer == Spec => []AnswerIsComplete
<1>1. RequestsInv => AnswerIsComplete
  BY InvAnswered, InvChildren, InvNewest, InvEvents, InvLiving DEF AnswerIsComplete
<1> QED
  BY <1>1, RequestsInvariant, PTL
-----------------------------------------------------------------------------
(* What a scrape serves.  The lists it is made of are sequences of their   *)
(* own elements.                                                           *)
IsSeq(x) == x \in Seq(Range(x))

\* Every sequence is one.
LEMMA SeqIsSeq ==
    ASSUME NEW S, NEW x \in Seq(S)
    PROVE  IsSeq(x) /\ Len(x) \in Nat /\ DOMAIN x = 1..Len(x) /\ Range(x) \subseteq S
<1>1. Len(x) \in Nat /\ DOMAIN x = 1..Len(x) /\ x = [i \in 1..Len(x) |-> x[i]]
  BY LenProperties
<1>2. \A i \in 1..Len(x) : x[i] \in Range(x) /\ x[i] \in S
  BY <1>1 DEF Range
<1>3. [i \in 1..Len(x) |-> x[i]] \in Seq(Range(x))
  BY <1>1, <1>2
<1> QED
  BY <1>1, <1>2, <1>3 DEF IsSeq, Range

\* And is a sequence over whatever has its elements.
LEMMA IsSeqOver ==
    ASSUME NEW x, IsSeq(x)
    PROVE  /\ Len(x) \in Nat /\ DOMAIN x = 1..Len(x)
           /\ \A i \in 1..Len(x) : x[i] \in Range(x)
           /\ \A S : Range(x) \subseteq S => x \in Seq(S)
<1>1. x \in Seq(Range(x))
  BY DEF IsSeq
<1>2. Len(x) \in Nat /\ DOMAIN x = 1..Len(x) /\ \A i \in 1..Len(x) : x[i] \in Range(x)
  BY <1>1, SeqIsSeq DEF Range
<1>3. ASSUME NEW S, Range(x) \subseteq S PROVE x \in Seq(S)
  BY <1>1, <1>3, SeqMonotonic
<1> QED
  BY <1>2, <1>3

\* A function of the numbers up to n is a sequence.
LEMMA ListIsSeq ==
    ASSUME NEW n \in Nat, NEW x, x = [i \in 1..n |-> x[i]]
    PROVE  IsSeq(x) /\ Len(x) = n /\ DOMAIN x = 1..n
<1>1. DOMAIN x = 1..n
  BY Zenon
<1>2. \A i \in 1..n : x[i] \in Range(x)
  BY <1>1 DEF Range
<1>3. [i \in 1..n |-> x[i]] \in Seq(Range(x))
  BY <1>2
<1>4. x \in Seq(Range(x))
  BY <1>3, Zenon
<1>5. Len(x) = n
  BY <1>1, <1>4, LenProperties
<1> QED
  BY <1>1, <1>4, <1>5 DEF IsSeq

\* Where the elements of a concatenation come from, and in which order.
InOrder(s, n, a, b) ==
    \E k1, k2 \in 1..n : \E j1 \in 1..Len(s[k1]), j2 \in 1..Len(s[k2]) :
        a = s[k1][j1] /\ b = s[k2][j2] /\ k1 <= k2 /\ (k1 = k2 => j1 < j2)
FlatOf(S, s, y) ==
    /\ y \in Seq(S)
    /\ \A i \in 1..Len(y) : \E k \in 1..Len(s) : \E j \in 1..Len(s[k]) : y[i] = s[k][j]
    /\ \A k \in 1..Len(s) : \A j \in 1..Len(s[k]) : \E i \in 1..Len(y) : y[i] = s[k][j]
    /\ \A i1, i2 \in 1..Len(y) : i1 < i2 => InOrder(s, Len(s), y[i1], y[i2])

\* Elements in order.
LEMMA AreInOrder ==
    ASSUME NEW s, NEW n, NEW k1 \in 1..n, NEW k2 \in 1..n,
           NEW j1 \in 1..Len(s[k1]), NEW j2 \in 1..Len(s[k2]), k1 <= k2, k1 = k2 => j1 < j2
    PROVE  InOrder(s, n, s[k1][j1], s[k2][j2])
BY DEF InOrder

\* One sequence more.
LEMMA FlatOfMore ==
    ASSUME NEW S, NEW s \in Seq(Seq(S)), NEW t \in Seq(S), NEW y, FlatOf(S, s, y)
    PROVE  FlatOf(S, Append(s, t), y \o t)
<1>1. PICK m \in Nat, n \in Nat, l \in Nat : m = Len(y) /\ n = Len(t) /\ l = Len(s)
  BY LenProperties DEF FlatOf
<1>2. PICK u \in Seq(Seq(S)) : u = Append(s, t)
  BY AppendProperties
<1>3. Len(u) = l + 1 /\ u[l + 1] = t /\ \A k \in 1..l : u[k] = s[k]
  BY <1>1, <1>2, AppendProperties
<1>4. PICK z \in Seq(S) : z = y \o t
  BY ConcatProperties DEF FlatOf
<1>5. /\ Len(z) = m + n
      /\ \A i \in 1..m : z[i] = y[i]
      /\ \A i \in 1..n : z[m + i] = t[i]
  BY <1>1, <1>4, ConcatProperties DEF FlatOf
<1>6. \A k \in 1..l : k \in 1..(l + 1) /\ k < l + 1
  OBVIOUS
<1>7. ASSUME NEW i \in 1..(m + n), ~(i \in 1..m)
      PROVE  i - m \in 1..n /\ z[i] = t[i - m] /\ z[i] = u[l + 1][i - m]
  <2>1. i - m \in 1..n /\ m + (i - m) = i
    BY <1>7
  <2> QED
    BY <1>3, <1>5, <2>1
<1>8. ASSUME NEW i \in 1..m PROVE \E k \in 1..l : \E j \in 1..Len(u[k]) : z[i] = u[k][j]
  <2>1. PICK k \in 1..l : \E j \in 1..Len(s[k]) : y[i] = s[k][j]
    BY <1>1 DEF FlatOf
  <2>2. u[k] = s[k] /\ z[i] = y[i]
    BY <1>3, <1>5
  <2> QED
    BY <2>1, <2>2
<1>9. ASSUME NEW i \in 1..(m + n)
      PROVE  \E k \in 1..(l + 1) : \E j \in 1..Len(u[k]) : z[i] = u[k][j]
  <2>1. CASE i \in 1..m
    BY <1>6, <1>8, <2>1
  <2>2. CASE ~(i \in 1..m)
    <3>1. l + 1 \in 1..(l + 1) /\ i - m \in 1..Len(u[l + 1])
      BY <1>1, <1>3, <1>7, <2>2
    <3> QED
      BY <1>7, <2>2, <3>1
  <2> QED
    BY <2>1, <2>2
<1>10. ASSUME NEW k \in 1..(l + 1), NEW j \in 1..Len(u[k])
       PROVE  \E i \in 1..(m + n) : z[i] = u[k][j]
  <2>1. CASE k \in 1..l
    <3>1. u[k] = s[k]
      BY <1>3, <2>1
    <3>2. PICK i \in 1..m : y[i] = s[k][j]
      BY <1>1, <2>1, <3>1 DEF FlatOf
    <3>3. i \in 1..(m + n)
      OBVIOUS
    <3> QED
      BY <1>5, <3>1, <3>2, <3>3
  <2>2. CASE ~(k \in 1..l)
    <3>1. k = l + 1
      BY <2>2
    <3>2. j \in 1..n /\ u[k][j] = t[j]
      BY <1>1, <1>3, <3>1
    <3>3. m + j \in 1..(m + n)
      BY <3>2
    <3> QED
      BY <1>5, <3>2, <3>3
  <2> QED
    BY <2>1, <2>2
<1>11. ASSUME NEW i1 \in 1..(m + n), NEW i2 \in 1..(m + n), i1 < i2
       PROVE  InOrder(u, l + 1, z[i1], z[i2])
  <2>1. CASE i2 \in 1..m
    <3>1. i1 \in 1..m
      BY <1>11, <2>1
    <3>0. InOrder(s, l, y[i1], y[i2])
      BY <1>1, <1>11, <2>1, <3>1 DEF FlatOf
    <3>1a. PICK k1 \in 1..l, k2 \in 1..l :
              \E j1 \in 1..Len(s[k1]), j2 \in 1..Len(s[k2]) :
                  y[i1] = s[k1][j1] /\ y[i2] = s[k2][j2] /\ k1 <= k2 /\ (k1 = k2 => j1 < j2)
      BY <3>0 DEF InOrder
    <3>2. PICK j1 \in 1..Len(s[k1]), j2 \in 1..Len(s[k2]) :
              y[i1] = s[k1][j1] /\ y[i2] = s[k2][j2] /\ k1 <= k2 /\ (k1 = k2 => j1 < j2)
      BY <3>1a
    <3>3. u[k1] = s[k1] /\ u[k2] = s[k2] /\ z[i1] = y[i1] /\ z[i2] = y[i2]
      BY <1>3, <1>5, <2>1, <3>1
    <3>4. k1 \in 1..(l + 1) /\ k2 \in 1..(l + 1) /\ j1 \in 1..Len(u[k1]) /\ j2 \in 1..Len(u[k2])
      BY <1>6, <3>2, <3>3
    <3>5. z[i1] = u[k1][j1] /\ z[i2] = u[k2][j2]
      BY <3>2, <3>3
    <3>6. InOrder(u, l + 1, u[k1][j1], u[k2][j2])
      BY <3>2, <3>4, AreInOrder
    <3> QED
      BY <3>5, <3>6
  <2>2. CASE i1 \in 1..m /\ ~(i2 \in 1..m)
    <3>1. PICK k \in 1..l : \E j \in 1..Len(u[k]) : z[i1] = u[k][j]
      BY <1>8, <2>2
    <3>2. i2 - m \in 1..Len(u[l + 1]) /\ z[i2] = u[l + 1][i2 - m]
      BY <1>1, <1>3, <1>7, <2>2
    <3>3. k \in 1..(l + 1) /\ l + 1 \in 1..(l + 1) /\ k <= l + 1 /\ k # l + 1
      OBVIOUS
    <3>4. PICK j1 \in 1..Len(u[k]) : z[i1] = u[k][j1]
      BY <3>1
    <3>5. PICK k2 \in 1..(l + 1) : k2 = l + 1
      BY <3>3
    <3>6. PICK j2 \in 1..Len(u[k2]) : z[i2] = u[k2][j2]
      BY <3>2, <3>5
    <3>7. k \in 1..(l + 1) /\ k <= k2 /\ (k = k2 => j1 < j2)
      BY <3>3, <3>5
    <3>8. InOrder(u, l + 1, u[k][j1], u[k2][j2])
      BY <3>7, AreInOrder
    <3> QED
      BY <3>4, <3>6, <3>8
  <2>3. CASE ~(i1 \in 1..m)
    <3>1. ~(i2 \in 1..m)
      BY <1>11, <2>3
    <3>2. /\ i1 - m \in 1..Len(u[l + 1]) /\ z[i1] = u[l + 1][i1 - m]
          /\ i2 - m \in 1..Len(u[l + 1]) /\ z[i2] = u[l + 1][i2 - m]
      BY <1>1, <1>3, <1>7, <2>3, <3>1
    <3>3. l + 1 \in 1..(l + 1) /\ l + 1 <= l + 1 /\ i1 - m < i2 - m
      BY <1>11
    <3>4. InOrder(u, l + 1, u[l + 1][i1 - m], u[l + 1][i2 - m])
      BY <3>2, <3>3, AreInOrder
    <3> QED
      BY <3>2, <3>4
  <2> QED
    BY <2>1, <2>2, <2>3
<1>12. FlatOf(S, u, z)
  <2>1. Len(u) = l + 1 /\ Len(z) = m + n /\ z \in Seq(S)
    BY <1>3, <1>5
  <2>2. /\ \A i \in 1..Len(z) : \E k \in 1..Len(u) : \E j \in 1..Len(u[k]) : z[i] = u[k][j]
        /\ \A k \in 1..Len(u) : \A j \in 1..Len(u[k]) : \E i \in 1..Len(z) : z[i] = u[k][j]
    BY <2>1, <1>9, <1>10, ZenonT(60)
  <2>3. \A i1, i2 \in 1..Len(z) : i1 < i2 =>
          InOrder(u, Len(u), z[i1], z[i2])
    BY <2>1, <1>11, ZenonT(60)
  <2> QED
    BY <2>1, <2>2, <2>3, Zenon DEF FlatOf
<1> QED
  BY <1>2, <1>4, <1>12, Zenon

\* FlattenSeq has the elements of its sequences, in their order.
LEMMA FlattenIs ==
    ASSUME NEW S, NEW s \in Seq(Seq(S))
    PROVE  FlatOf(S, s, FlattenSeq(s))
<1> DEFINE T == {x \in Seq(Seq(S)) : FlatOf(S, x, FlattenSeq(x))}
<1>1. <<>> \in T
  <2>1. FlattenSeq(<<>>) = <<>> /\ Len(<<>>) = 0
    BY EmptySeq DEF FlattenSeq
  <2>2. <<>> \in Seq(S) /\ <<>> \in Seq(Seq(S))
    BY EmptySeq
  <2>3. FlatOf(S, <<>>, <<>>)
    BY <2>1, <2>2 DEF FlatOf
  <2> QED
    BY <2>1, <2>2, <2>3
<1>2. ASSUME NEW x \in T, NEW t \in Seq(S) PROVE Append(x, t) \in T
  <2>1. x \in Seq(Seq(S)) /\ FlatOf(S, x, FlattenSeq(x))
    OBVIOUS
  <2>2. FlattenSeq(Append(x, t)) = FlattenSeq(x) \o t
    BY <2>1, FlattenAppend
  <2>3. FlatOf(S, Append(x, t), FlattenSeq(x) \o t)
    BY <2>1, FlatOfMore
  <2>4. Append(x, t) \in Seq(Seq(S))
    BY <2>1, AppendProperties
  <2> QED
    BY <2>2, <2>3, <2>4
<1>3. T = Seq(Seq(S))
  <2>1. T \in SUBSET Seq(Seq(S))
    OBVIOUS
  <2> HIDE DEF T
  <2> QED
    BY <1>1, <1>2, <2>1, SeqInduction
<1> QED
  BY <1>3

\* The same for a list of n sequences.
LEMMA FlattenList ==
    ASSUME NEW n \in Nat, NEW s, s = [k \in 1..n |-> s[k]], \A k \in 1..n : IsSeq(s[k])
    PROVE  /\ IsSeq(FlattenSeq(s))
           /\ \A x \in Range(FlattenSeq(s)) : \E k \in 1..n : x \in Range(s[k])
           /\ \A k \in 1..n : Range(s[k]) \subseteq Range(FlattenSeq(s))
           /\ \A i1, i2 \in DOMAIN FlattenSeq(s) : i1 < i2 =>
                 InOrder(s, n, FlattenSeq(s)[i1], FlattenSeq(s)[i2])
<1> DEFINE S == UNION {Range(s[k]) : k \in 1..n}
<1>1. \A k \in 1..n : /\ s[k] \in Seq(S) /\ DOMAIN s[k] = 1..Len(s[k])
                      /\ Range(s[k]) \subseteq S
  <2> SUFFICES ASSUME NEW k \in 1..n
               PROVE  s[k] \in Seq(S) /\ DOMAIN s[k] = 1..Len(s[k]) /\ Range(s[k]) \subseteq S
    OBVIOUS
  <2>1. Range(s[k]) \subseteq S
    OBVIOUS
  <2> QED
    BY <2>1, IsSeqOver
<1> HIDE DEF S
<1>2. Len(s) = n /\ s \in Seq(Seq(S))
  <2>1. [k \in 1..n |-> s[k]] \in Seq(Seq(S))
    BY <1>1
  <2>2. s \in Seq(Seq(S))
    BY <2>1, Zenon
  <2>3. Len(s) = n
    BY ListIsSeq
  <2> QED
    BY <2>2, <2>3
<1>3. PICK y : y = FlattenSeq(s)
  OBVIOUS
<1>4. FlatOf(S, s, y)
  BY <1>2, <1>3, FlattenIs
<1>5. IsSeq(y) /\ DOMAIN y = 1..Len(y)
  BY <1>4, SeqIsSeq DEF FlatOf
<1>6. ASSUME NEW x \in Range(y) PROVE \E k \in 1..n : x \in Range(s[k])
  <2>1. PICK i \in 1..Len(y) : x = y[i]
    BY <1>5 DEF Range
  <2>2. PICK k \in 1..n : \E j \in 1..Len(s[k]) : y[i] = s[k][j]
    BY <1>2, <1>4 DEF FlatOf
  <2>3. DOMAIN s[k] = 1..Len(s[k])
    BY <1>1
  <2> QED
    BY <2>1, <2>2, <2>3 DEF Range
<1>7. ASSUME NEW k \in 1..n, NEW x \in Range(s[k]) PROVE x \in Range(y)
  <2>1. PICK j \in 1..Len(s[k]) : x = s[k][j]
    BY <1>1 DEF Range
  <2>2. PICK i \in 1..Len(y) : y[i] = s[k][j]
    BY <1>2, <1>4 DEF FlatOf
  <2> QED
    BY <1>5, <2>1, <2>2 DEF Range
<1>8. \A i1, i2 \in DOMAIN y : i1 < i2 => InOrder(s, n, y[i1], y[i2])
  BY <1>2, <1>4, <1>5 DEF FlatOf
<1> QED
  BY <1>3, <1>5, <1>6, <1>7, <1>8

\* A list of one thing, or of none.
LEMMA WhenIs ==
    ASSUME NEW p \in BOOLEAN, NEW a
    PROVE  /\ IsSeq(When(p, a))
           /\ p => a \in Range(When(p, a))
           /\ \A x \in Range(When(p, a)) : p /\ x = a
           /\ \A j \in 1..Len(When(p, a)) : p /\ j = 1 /\ When(p, a)[j] = a
<1>0. PICK w : w = When(p, a)
  OBVIOUS
<1>1. CASE p
  <2>1. w = <<a>>
    BY <1>0, <1>1 DEF When
  <2>2. Len(w) = 1 /\ w[1] = a /\ DOMAIN w = 1..1
    BY <2>1
  <2>3. a \in Range(w) /\ \A x \in Range(w) : x = a
    BY <2>2 DEF Range
  <2>4. w \in Seq(Range(w))
    BY <2>1, <2>3
  <2>5. \A j \in 1..Len(w) : j = 1 /\ w[j] = a
    BY <2>2
  <2> QED
    BY <1>0, <1>1, <2>3, <2>4, <2>5, Zenon DEF IsSeq
<1>2. CASE ~p
  <2>1. w = <<>>
    BY <1>0, <1>2 DEF When
  <2>2. Len(w) = 0 /\ w \in Seq({}) /\ DOMAIN w = 1..0
    BY <2>1
  <2>3. Range(w) = {}
    BY <2>2 DEF Range
  <2>4. \A j \in 1..Len(w) : FALSE
    BY <2>2
  <2>5. w \in Seq(Range(w))
    BY <2>2, <2>3, Zenon
  <2> QED
    BY <1>0, <1>2, <2>3, <2>4, <2>5, Zenon DEF IsSeq
<1> QED
  BY <1>1, <1>2

\* What is served of a family: some of what was pushed, the first of its labels always,
\* and nothing twice.
LEMMA RenderedIs ==
    ASSUME NEW x, IsSeq(x)
    PROVE  /\ IsSeq(Rendered(x)) /\ Range(Rendered(x)) \subseteq Range(x)
           /\ \A i \in DOMAIN x : (\A j \in 1..(i - 1) : x[j].labels # x[i].labels) => x[i] \in Range(Rendered(x))
           /\ \A i, j \in DOMAIN Rendered(x) : Rendered(x)[i].labels = Rendered(x)[j].labels => i = j
<1> DEFINE First(i) == \A j \in 1..(i - 1) : x[j].labels # x[i].labels
<1>1. PICK n \in Nat : n = Len(x) /\ DOMAIN x = 1..n
  BY IsSeqOver
<1>2. PICK s : s = [i \in 1..n |-> When(First(i), x[i])]
  OBVIOUS
<1>3. PICK y : y = FlattenSeq(s)
  OBVIOUS
<1>4. Rendered(x) = y
  BY <1>1, <1>2, <1>3 DEF Rendered
<1>5. \A i \in 1..n : First(i) \in BOOLEAN /\ s[i] = When(First(i), x[i])
  BY <1>2
<1>6. ASSUME NEW i \in 1..n
      PROVE  /\ IsSeq(s[i]) /\ (First(i) => x[i] \in Range(s[i]))
             /\ \A z \in Range(s[i]) : z = x[i]
             /\ \A j \in 1..Len(s[i]) : First(i) /\ j = 1 /\ s[i][j] = x[i]
  <2> HIDE DEF First
  <2> QED
    BY <1>5, WhenIs
<1>7. s = [i \in 1..n |-> s[i]]
  BY <1>2
<1> HIDE DEF First
<1>8. /\ IsSeq(y)
      /\ \A z \in Range(y) : \E k \in 1..n : z \in Range(s[k])
      /\ \A k \in 1..n : Range(s[k]) \subseteq Range(y)
      /\ \A i1, i2 \in DOMAIN y : i1 < i2 => InOrder(s, n, y[i1], y[i2])
  BY <1>3, <1>6, <1>7, FlattenList
<1>9. ASSUME NEW z \in Range(y) PROVE z \in Range(x)
  <2>1. PICK k \in 1..n : z \in Range(s[k])
    BY <1>8
  <2>2. z = x[k]
    BY <1>6, <2>1
  <2> QED
    BY <1>1, <2>2 DEF Range
<1>10. \A i \in 1..n : First(i) => x[i] \in Range(y)
  BY <1>6, <1>8
<1>11. ASSUME NEW i1 \in DOMAIN y, NEW i2 \in DOMAIN y, i1 < i2, y[i1].labels = y[i2].labels PROVE FALSE
  <2>1. PICK k1 \in 1..n, k2 \in 1..n :
           \E j1 \in 1..Len(s[k1]), j2 \in 1..Len(s[k2]) :
               y[i1] = s[k1][j1] /\ y[i2] = s[k2][j2] /\ k1 <= k2 /\ (k1 = k2 => j1 < j2)
    BY <1>8, <1>11 DEF InOrder
  <2>2. PICK j1 \in 1..Len(s[k1]), j2 \in 1..Len(s[k2]) :
               y[i1] = s[k1][j1] /\ y[i2] = s[k2][j2] /\ k1 <= k2 /\ (k1 = k2 => j1 < j2)
    BY <2>1
  <2>3. y[i1] = x[k1] /\ y[i2] = x[k2] /\ First(k2) /\ j1 = 1 /\ j2 = 1
    BY <1>6, <2>2
  <2>4. k1 \in 1..(k2 - 1)
    BY <2>2, <2>3
  <2>5. x[k1].labels # x[k2].labels
    BY <2>3, <2>4 DEF First
  <2> QED
    BY <1>11, <2>3, <2>5
<1>12. \A i, j \in DOMAIN y : y[i].labels = y[j].labels => i = j
  <2>1. DOMAIN y = 1..Len(y) /\ Len(y) \in Nat
    BY <1>8, IsSeqOver
  <2>2. ASSUME NEW i \in DOMAIN y, NEW j \in DOMAIN y, y[i].labels = y[j].labels, i # j PROVE FALSE
    <3>1. i < j \/ j < i
      BY <2>1, <2>2
    <3> QED
      BY <1>11, <2>2, <3>1
  <2> QED
    BY <2>2
<1> QED
  BY <1>1, <1>4, <1>8, <1>9, <1>10, <1>12 DEF First

\* Something is served when something was pushed, and nothing when nothing was.
LEMMA RenderedSome ==
    ASSUME NEW x, IsSeq(x)
    PROVE  (Range(x) = {} => Rendered(x) = <<>>) /\ (Range(x) # {} => Rendered(x) # <<>>)
<1>1. CASE Range(x) = {}
  <2>1. IsSeq(Rendered(x)) /\ Range(Rendered(x)) = {}
    BY <1>1, RenderedIs
  <2>2. Rendered(x) \in Seq({})
    BY <2>1, IsSeqOver
  <2> QED
    BY <1>1, <2>2
<1>2. CASE Range(x) # {}
  <2>1. Len(x) \in Nat /\ DOMAIN x = 1..Len(x)
    BY IsSeqOver
  <2>2. 1 \in DOMAIN x
    BY <1>2, <2>1 DEF Range
  <2>3. \A j \in 1..(1 - 1) : x[j].labels # x[1].labels
    OBVIOUS
  <2>4. x[1] \in Range(Rendered(x))
    BY <2>2, <2>3, RenderedIs
  <2>5. Range(<<>>) = {}
    BY DEF Range
  <2> QED
    BY <1>2, <2>4, <2>5
<1> QED
  BY <1>1, <1>2

\* What rows push into the families of a class, as Pushed has it.
Pushes(r, class) == class \subseteq r.of /\ Enabled(r.group)
OfRows(rows, class) ==
    FlattenSeq([j \in DOMAIN rows |->
        IF class \subseteq rows[j].of /\ Enabled(rows[j].group) THEN rows[j].series ELSE <<>>])
AllRows(cs) == (UNION {Range(Rows(cs[i])) : i \in DOMAIN cs}) \cup Range(OwnRows)

\* The empty list.
LEMMA NoneIsSeq == IsSeq(<<>>) /\ Range(<<>>) = {}
<1>1. <<>> \in Seq({})
  OBVIOUS
<1>2. Range(<<>>) = {}
  BY DEF Range
<1> QED
  BY <1>1, <1>2, Zenon DEF IsSeq

\* Two lists, one after the other.
LEMMA BothAreSeq ==
    ASSUME NEW x, NEW y, IsSeq(x), IsSeq(y)
    PROVE  IsSeq(x \o y) /\ Range(x \o y) = Range(x) \cup Range(y)
<1> DEFINE S == Range(x) \cup Range(y)
<1>1. x \in Seq(S) /\ y \in Seq(S) /\ Range(x) \subseteq S /\ Range(y) \subseteq S
  BY IsSeqOver
<1> HIDE DEF S
<1>2. PICK z \in Seq(S) : z = x \o y
  BY <1>1, ConcatProperties
<1>3. PICK m \in Nat, n \in Nat : m = Len(x) /\ n = Len(y) /\ DOMAIN x = 1..m /\ DOMAIN y = 1..n
  BY IsSeqOver
<1>4. Len(z) = m + n /\ (\A i \in 1..m : z[i] = x[i]) /\ (\A i \in 1..n : z[m + i] = y[i])
  BY <1>1, <1>2, <1>3, ConcatProperties
<1>5. DOMAIN z = 1..(m + n) /\ IsSeq(z)
  BY <1>2, <1>4, SeqIsSeq
<1>6. \A i \in 1..m : i \in 1..(m + n)
  OBVIOUS
<1>7. \A i \in 1..n : m + i \in 1..(m + n)
  OBVIOUS
<1>8. ASSUME NEW i \in 1..(m + n) PROVE z[i] \in Range(x) \cup Range(y)
  <2>1. CASE i \in 1..m
    BY <1>3, <1>4, <2>1 DEF Range
  <2>2. CASE ~(i \in 1..m)
    <3>1. i - m \in 1..n /\ m + (i - m) = i
      BY <2>2
    <3> QED
      BY <1>3, <1>4, <3>1 DEF Range
  <2> QED
    BY <2>1, <2>2
<1>9. Range(z) \subseteq Range(x) \cup Range(y)
  BY <1>5, <1>8 DEF Range
<1>10. Range(x) \subseteq Range(z) /\ Range(y) \subseteq Range(z)
  BY <1>3, <1>4, <1>5, <1>6, <1>7 DEF Range
<1> QED
  BY <1>2, <1>5, <1>9, <1>10

\* The series of the rows that push into the class, and no other.
LEMMA OfRowsIs ==
    ASSUME NEW rows, IsSeq(rows), \A r \in Range(rows) : IsSeq(r.series), NEW class
    PROVE  /\ IsSeq(OfRows(rows, class))
           /\ \A x \in Range(OfRows(rows, class)) :
                 \E r \in Range(rows) : Pushes(r, class) /\ x \in Range(r.series)
           /\ \A r \in Range(rows) : Pushes(r, class) => Range(r.series) \subseteq Range(OfRows(rows, class))
<1>1. PICK n \in Nat : n = Len(rows) /\ DOMAIN rows = 1..n
  BY IsSeqOver
<1>2. PICK s : s = [j \in 1..n |-> IF Pushes(rows[j], class) THEN rows[j].series ELSE <<>>]
  OBVIOUS
<1>3. OfRows(rows, class) = FlattenSeq(s)
  BY <1>1, <1>2 DEF OfRows, Pushes
<1>4. s = [j \in 1..n |-> s[j]] /\ \A j \in 1..n : s[j] = IF Pushes(rows[j], class) THEN rows[j].series ELSE <<>>
  BY <1>2
<1>5. \A j \in 1..n : rows[j] \in Range(rows)
  BY <1>1 DEF Range
<1>6. \A j \in 1..n : /\ IsSeq(s[j])
                      /\ Pushes(rows[j], class) => Range(s[j]) = Range(rows[j].series)
                      /\ ~Pushes(rows[j], class) => Range(s[j]) = {}
  BY <1>4, <1>5, NoneIsSeq
<1>7. /\ IsSeq(FlattenSeq(s))
      /\ \A x \in Range(FlattenSeq(s)) : \E k \in 1..n : x \in Range(s[k])
      /\ \A k \in 1..n : Range(s[k]) \subseteq Range(FlattenSeq(s))
  BY <1>4, <1>6, FlattenList
<1>8. ASSUME NEW x \in Range(FlattenSeq(s))
      PROVE  \E r \in Range(rows) : Pushes(r, class) /\ x \in Range(r.series)
  BY <1>5, <1>6, <1>7
<1>9. ASSUME NEW r \in Range(rows), Pushes(r, class) PROVE Range(r.series) \subseteq Range(FlattenSeq(s))
  <2>1. PICK k \in 1..n : r = rows[k]
    BY <1>1 DEF Range
  <2> QED
    BY <1>6, <1>7, <1>9, <2>1
<1> QED
  BY <1>3, <1>7, <1>8, <1>9

\* What is pushed into the families of a class.
LEMMA PushedIs ==
    ASSUME NEW cs, IsSeq(cs), NEW class, \A i \in DOMAIN cs : IsSeq(Rows(cs[i])), IsSeq(OwnRows),
           \A r \in AllRows(cs) : IsSeq(r.series)
    PROVE  /\ IsSeq(Pushed(cs, class))
           /\ \A x \in Range(Pushed(cs, class)) :
                 \E r \in AllRows(cs) : Pushes(r, class) /\ x \in Range(r.series)
           /\ \A r \in AllRows(cs) : Pushes(r, class) => Range(r.series) \subseteq Range(Pushed(cs, class))
<1>1. PICK n \in Nat : n = Len(cs) /\ DOMAIN cs = 1..n
  BY IsSeqOver
<1>2. PICK s : s = [i \in 1..n |-> OfRows(Rows(cs[i]), class)]
  OBVIOUS
<1>3. PICK own : own = OfRows(OwnRows, class)
  OBVIOUS
<1>4. Pushed(cs, class) = FlattenSeq(s) \o own
  BY <1>1, <1>2, <1>3 DEF Pushed, OfRows
<1>5. s = [i \in 1..n |-> s[i]] /\ \A i \in 1..n : s[i] = OfRows(Rows(cs[i]), class)
  BY <1>2
<1>6. ASSUME NEW i \in 1..n
      PROVE  /\ Range(Rows(cs[i])) \subseteq AllRows(cs)
             /\ IsSeq(s[i])
             /\ \A x \in Range(s[i]) : \E r \in Range(Rows(cs[i])) : Pushes(r, class) /\ x \in Range(r.series)
             /\ \A r \in Range(Rows(cs[i])) : Pushes(r, class) => Range(r.series) \subseteq Range(s[i])
  <2>1. Range(Rows(cs[i])) \subseteq AllRows(cs)
    BY <1>1 DEF AllRows
  <2>2. IsSeq(Rows(cs[i])) /\ \A r \in Range(Rows(cs[i])) : IsSeq(r.series)
    BY <1>1, <2>1
  <2> QED
    BY <1>5, <2>1, <2>2, OfRowsIs
<1>7. /\ Range(OwnRows) \subseteq AllRows(cs)
      /\ IsSeq(own)
      /\ \A x \in Range(own) : \E r \in Range(OwnRows) : Pushes(r, class) /\ x \in Range(r.series)
      /\ \A r \in Range(OwnRows) : Pushes(r, class) => Range(r.series) \subseteq Range(own)
  <2>1. Range(OwnRows) \subseteq AllRows(cs)
    BY Zenon DEF AllRows
  <2> QED
    BY <1>3, <2>1, OfRowsIs
<1>8. PICK f : f = FlattenSeq(s)
  OBVIOUS
<1>9. /\ IsSeq(f)
      /\ \A x \in Range(f) : \E k \in 1..n : x \in Range(s[k])
      /\ \A k \in 1..n : Range(s[k]) \subseteq Range(f)
  BY <1>5, <1>6, <1>8, FlattenList
<1>10. IsSeq(f \o own) /\ Range(f \o own) = Range(f) \cup Range(own)
  BY <1>7, <1>9, BothAreSeq
<1>11. ASSUME NEW x \in Range(f) \cup Range(own)
       PROVE  \E r \in AllRows(cs) : Pushes(r, class) /\ x \in Range(r.series)
  BY <1>6, <1>7, <1>9
<1>12. ASSUME NEW r \in AllRows(cs), Pushes(r, class) PROVE Range(r.series) \subseteq Range(f) \cup Range(own)
  <2>1. CASE r \in Range(OwnRows)
    BY <1>7, <1>12, <2>1
  <2>2. CASE \E i \in 1..n : r \in Range(Rows(cs[i]))
    <3>1. PICK i \in 1..n : r \in Range(Rows(cs[i]))
      BY <2>2
    <3>2. Range(r.series) \subseteq Range(s[i])
      BY <1>6, <1>12, <3>1
    <3> QED
      BY <1>9, <3>2
  <2> QED
    BY <1>1, <2>1, <2>2, Zenon DEF AllRows
<1> QED
  BY <1>4, <1>8, <1>10, <1>11, <1>12

\* The names of the labels that the series of a family have, beside those of the containers.
LabelNames(f, U) ==
    IF f \in CpuUsage THEN U \cup {<<"cpu">>}
    ELSE IF f \in TaskStates THEN U \cup {<<"state">>}
    ELSE IF f \in MemoryFailures THEN U \cup {<<"failure">>}
    ELSE IF f \in Space \cup ReadBytes \cup WriteBytes \cup Reads \cup Writes \cup FsIo THEN U \cup {<<"device">>}
    ELSE IF f \in Blkio THEN U \cup {<<"device">>, <<"number">>, <<"operation">>}
    ELSE IF f \in Network THEN U \cup {<<"interface">>}
    ELSE IF f \in Version THEN {<<"version">>}
    ELSE IF f \in ScrapeErrors THEN {}
    ELSE IF f \in Machine THEN {<<"machine">>}
    ELSE IF f \in Nvm THEN {<<"machine">>, <<"mode">>}
    ELSE U

\* A row pushes series of the same label names into each of its families, and is gated
\* by their group.
RowOk(r, U) ==
    /\ IsSeq(r.series)
    /\ \A f \in r.of : /\ Gate(f) \in Disabled => r.group \in Disabled
                       /\ \A x \in Range(r.series) : DOMAIN x.labels = LabelNames(f, U)

\* Labels and more labels.
LEMMA WithLabels ==
    ASSUME NEW labels, NEW extra PROVE DOMAIN With(labels, extra) = DOMAIN labels \cup DOMAIN extra
BY DEF With

\* The labels of a series.
LEMMA SeriesLabels ==
    ASSUME NEW c, NEW extra, NEW from
    PROVE  DOMAIN Series(c, extra, from).labels = DOMAIN c.labels \cup DOMAIN extra
BY WithLabels DEF Series

\* A label has one name.
LEMMA LabelLabels ==
    ASSUME NEW key, NEW v PROVE DOMAIN Label(key, v) = {<<key>>}
BY DEF Label

\* A series with one more label.
LEMMA OneMoreLabel ==
    ASSUME NEW c, NEW key, NEW v, NEW from
    PROVE  DOMAIN Series(c, Label(key, v), from).labels = DOMAIN c.labels \cup {<<key>>}
<1>1. PICK extra : extra = Label(key, v)
  OBVIOUS
<1>2. DOMAIN extra = {<<key>>}
  BY <1>1, LabelLabels
<1>3. DOMAIN Series(c, extra, from).labels = DOMAIN c.labels \cup DOMAIN extra
  BY SeriesLabels
<1> QED
  BY <1>1, <1>2, <1>3, Zenon

\* No group is disabled by having no name.
LEMMA NoNameEnabled == "" \notin Disabled
BY GroupsAssumption DEF Disabled, AllDefaultEnabled

\* The groups that gate the families.
LEMMA GroupsOfFamilies ==
    /\ \A f \in Seen \cup Version \cup ScrapeErrors \cup Machine \cup Nvm \cup Quota : Gate(f) = ""
    /\ \A f \in SpecCpu : Gate(f) = "cpu"
    /\ \A f \in SpecMemory : Gate(f) = "memory"
    /\ \A f \in Load \cup TaskStates : Gate(f) = "cpuLoad"
    /\ \A f \in CpuTimes \cup CpuUsage \cup Cfs : Gate(f) = "cpu"
    /\ \A f \in Memory \cup MemoryFailures : Gate(f) = "memory"
    /\ \A f \in Space : Gate(f) = "disk"
    /\ \A f \in Blkio \cup ReadBytes \cup WriteBytes \cup Reads \cup Writes \cup FsIo : Gate(f) = "diskIO"
    /\ \A f \in Network : Gate(f) = "network"
    /\ \A f \in Oom : Gate(f) = "oom_event"
BY DEF SpecCpu, SpecMemory, Seen, Version, ScrapeErrors, Machine, Nvm, Quota, Load, TaskStates, CpuTimes,
   CpuUsage, Cfs, Memory, MemoryFailures, Space, Blkio, ReadBytes, WriteBytes, Reads, Writes, FsIo, Network,
   Oom, FamilyGroup, Gate

\* The label names of the families.
LEMMA LabelsOfFamilies ==
    ASSUME NEW U
    PROVE  /\ \A f \in SpecCpu \cup SpecMemory \cup Seen \cup Quota \cup CpuTimes \cup Cfs \cup Load \cup Memory \cup Oom :
                  LabelNames(f, U) = U
           /\ \A f \in CpuUsage : LabelNames(f, U) = U \cup {<<"cpu">>}
           /\ \A f \in TaskStates : LabelNames(f, U) = U \cup {<<"state">>}
           /\ \A f \in MemoryFailures : LabelNames(f, U) = U \cup {<<"failure">>}
           /\ \A f \in Space \cup ReadBytes \cup WriteBytes \cup Reads \cup Writes \cup FsIo :
                  LabelNames(f, U) = U \cup {<<"device">>}
           /\ \A f \in Blkio : LabelNames(f, U) = U \cup {<<"device">>, <<"number">>, <<"operation">>}
           /\ \A f \in Network : LabelNames(f, U) = U \cup {<<"interface">>}
           /\ \A f \in Version : LabelNames(f, U) = {<<"version">>}
           /\ \A f \in ScrapeErrors : LabelNames(f, U) = {}
           /\ \A f \in Machine : LabelNames(f, U) = {<<"machine">>}
           /\ \A f \in Nvm : LabelNames(f, U) = {<<"machine">>, <<"mode">>}
BY DEF SpecCpu, SpecMemory, Seen, Version, ScrapeErrors, Machine, Nvm, Quota, Load, TaskStates, CpuTimes,
   CpuUsage, Cfs, Memory, MemoryFailures, Space, Blkio, ReadBytes, WriteBytes, Reads, Writes, FsIo, Network,
   Oom, LabelNames

\* A list of series, all with these names of labels.
Labelled(s, N) == IsSeq(s) /\ \A x \in Range(s) : DOMAIN x.labels = N

\* One series, or none.
LEMMA ListLabelled ==
    ASSUME NEW a, NEW N, DOMAIN a.labels = N
    PROVE  Labelled(<<a>>, N) /\ Labelled(<<>>, N) /\ Range(<<a>>) # {}
<1>1. When(TRUE, a) = <<a>>
  BY DEF When
<1>2. IsSeq(<<a>>) /\ a \in Range(<<a>>) /\ \A x \in Range(<<a>>) : x = a
  BY <1>1, WhenIs, Zenon
<1> QED
  BY <1>2, NoneIsSeq DEF Labelled

\* The series of a container, or none.
LEMMA OneLabelled ==
    ASSUME NEW c, NEW p \in BOOLEAN
    PROVE  Labelled(One(c, p), DOMAIN c.labels) /\ (p => Range(One(c, p)) # {})
<1>1. PICK a : a = Series(c, <<>>, <<"one">>)
  OBVIOUS
<1>2. PICK none : none = <<>> /\ DOMAIN none = {}
  OBVIOUS
<1>3. DOMAIN a.labels = DOMAIN c.labels
  <2>1. DOMAIN Series(c, none, <<"one">>).labels = DOMAIN c.labels \cup DOMAIN none
    BY SeriesLabels, Zenon
  <2>2. a = Series(c, none, <<"one">>)
    BY <1>1, <1>2, Zenon
  <2> QED
    BY <1>2, <2>1, <2>2
<1>4. One(c, p) = IF p THEN <<a>> ELSE <<>>
  BY <1>1 DEF One, When
<1> QED
  BY <1>3, <1>4, ListLabelled

\* A series for each value.
LEMMA EachLabelled ==
    ASSUME NEW c, NEW key, NEW values, IsSeq(values), NEW from
    PROVE  /\ Labelled(Each(c, key, values, from), DOMAIN c.labels \cup {<<key>>})
           /\ values # <<>> => Range(Each(c, key, values, from)) # {}
<1>1. PICK n \in Nat : n = Len(values) /\ DOMAIN values = 1..n
  BY IsSeqOver
<1>2. PICK s : s = [i \in 1..n |-> Series(c, Label(key, values[i]), <<from, i>>)]
  OBVIOUS
<1>3. Each(c, key, values, from) = s
  BY <1>1, <1>2 DEF Each
<1>4. s = [i \in 1..n |-> s[i]] /\ \A i \in 1..n : s[i] = Series(c, Label(key, values[i]), <<from, i>>)
  BY <1>2
<1>5. IsSeq(s) /\ DOMAIN s = 1..n
  BY <1>4, ListIsSeq
<1>6. \A i \in 1..n : DOMAIN s[i].labels = DOMAIN c.labels \cup {<<key>>}
  <2> SUFFICES ASSUME NEW i \in 1..n PROVE DOMAIN s[i].labels = DOMAIN c.labels \cup {<<key>>}
    OBVIOUS
  <2>1. DOMAIN Series(c, Label(key, values[i]), <<from, i>>).labels = DOMAIN c.labels \cup {<<key>>}
    BY OneMoreLabel, Zenon
  <2> QED
    BY <1>4, <2>1, Zenon
<1>7. Labelled(s, DOMAIN c.labels \cup {<<key>>})
  BY <1>5, <1>6 DEF Labelled, Range
<1>8. ASSUME values # <<>> PROVE Range(s) # {}
  <2>1. values \in Seq(Range(values))
    BY DEF IsSeq
  <2>2. n # 0
    BY <1>1, <1>8, <2>1, EmptySeq
  <2>3. 1 \in DOMAIN s
    BY <1>5, <2>2
  <2> QED
    BY <2>3 DEF Range
<1> QED
  BY <1>3, <1>7, <1>8

\* Lists of such series, one after the other.
LEMMA FlatLabelled ==
    ASSUME NEW n \in Nat, NEW s, s = [k \in 1..n |-> s[k]], NEW N, \A k \in 1..n : Labelled(s[k], N)
    PROVE  Labelled(FlattenSeq(s), N)
<1>1. \A k \in 1..n : IsSeq(s[k]) /\ \A x \in Range(s[k]) : DOMAIN x.labels = N
  BY DEF Labelled
<1>2. IsSeq(FlattenSeq(s)) /\ \A x \in Range(FlattenSeq(s)) : \E k \in 1..n : x \in Range(s[k])
  BY <1>1, FlattenList
<1> QED
  BY <1>1, <1>2 DEF Labelled

\* The series of the processors.
LEMMA UsageLabelled ==
    ASSUME NEW c, NEW s, IsSeq(s.per_cpu)
    PROVE  Labelled(UsageSeries(c, s), DOMAIN c.labels \cup {<<"cpu">>})
<1> DEFINE Cpu(v) == Series(c, Label("cpu", v), <<"cpu">>)
<1>1. PICK N : N = DOMAIN c.labels \cup {<<"cpu">>}
  OBVIOUS
<1>2. \A v : DOMAIN Cpu(v).labels = N
  BY <1>1, OneMoreLabel, Zenon
<1>3. PICK n \in Nat : n = Len(s.per_cpu) /\ DOMAIN s.per_cpu = 1..n
  BY IsSeqOver
<1>4. PICK t : t = [i \in 1..n |-> When(s.per_cpu[i] > 0, Cpu(<<"cpu", i>>))]
  OBVIOUS
<1>5. UsageSeries(c, s) = IF s.per_cpu = <<>> THEN When(s.total > 0, Cpu(<<"total">>)) ELSE FlattenSeq(t)
  BY <1>3, <1>4 DEF UsageSeries
<1> HIDE DEF Cpu
<1>6. Labelled(When(s.total > 0, Cpu(<<"total">>)), N)
  <2>1. PICK a : a = Cpu(<<"total">>)
    OBVIOUS
  <2>2. DOMAIN a.labels = N
    BY <1>2, <2>1, Zenon
  <2>3. When(s.total > 0, a) \in {<<a>>, <<>>}
    BY DEF When
  <2> QED
    BY <2>1, <2>2, <2>3, ListLabelled
<1>7. t = [i \in 1..n |-> t[i]] /\ \A i \in 1..n : t[i] = When(s.per_cpu[i] > 0, Cpu(<<"cpu", i>>))
  BY <1>4
<1>8. ASSUME NEW i \in 1..n PROVE Labelled(t[i], N)
  <2>1. PICK a : a = Cpu(<<"cpu", i>>)
    OBVIOUS
  <2>2. DOMAIN a.labels = N
    BY <1>2, <2>1, Zenon
  <2>3. t[i] \in {<<a>>, <<>>}
    BY <1>7, <2>1 DEF When
  <2> QED
    BY <2>2, <2>3, ListLabelled
<1>9. Labelled(FlattenSeq(t), N)
  BY <1>7, <1>8, FlatLabelled
<1> QED
  BY <1>1, <1>5, <1>6, <1>9

\* The series of the devices.
LEMMA IoLabelled ==
    ASSUME NEW c, NEW entries, IsSeq(entries), NEW op
    PROVE  Labelled(IoSeries(c, entries, op), DOMAIN c.labels \cup {<<"device">>})
<1> DEFINE Io(i) == Series(c, Label("device", Device(c, entries[i])), <<op, i>>)
<1>1. PICK N : N = DOMAIN c.labels \cup {<<"device">>}
  OBVIOUS
<1>2. \A i : DOMAIN Io(i).labels = N
  BY <1>1, OneMoreLabel, Zenon
<1>3. PICK n \in Nat : n = Len(entries) /\ DOMAIN entries = 1..n
  BY IsSeqOver
<1>4. PICK t : t = [i \in 1..n |-> When(op \in entries[i].ops, Io(i))]
  OBVIOUS
<1>5. IoSeries(c, entries, op) = FlattenSeq(t)
  BY <1>3, <1>4 DEF IoSeries
<1> HIDE DEF Io
<1>6. t = [i \in 1..n |-> t[i]] /\ \A i \in 1..n : t[i] = When(op \in entries[i].ops, Io(i))
  BY <1>4
<1>7. ASSUME NEW i \in 1..n PROVE Labelled(t[i], N)
  <2>1. PICK a : a = Io(i)
    OBVIOUS
  <2>2. DOMAIN a.labels = N
    BY <1>2, <2>1, Zenon
  <2>3. t[i] \in {<<a>>, <<>>}
    BY <1>6, <2>1 DEF When
  <2> QED
    BY <2>2, <2>3, ListLabelled
<1> QED
  BY <1>1, <1>5, <1>6, <1>7, FlatLabelled

\* A finite set as a list.
LEMMA SetToSeqIs ==
    ASSUME NEW S, IsFiniteSet(S)
    PROVE  IsSeq(SetToSeq(S)) /\ Range(SetToSeq(S)) \subseteq S
<1>1. PICK n \in Nat : n = Cardinality(S) /\ ExistsBijection(1..n, S)
  BY FS_CardinalityType
<1>2. PICK f : f \in Bijection(1..n, S)
  BY <1>1 DEF ExistsBijection
<1>3. f \in [1..n -> S] /\ IsInjective(f)
  BY <1>2 DEF Bijection, Injection
<1>4. SetToSeq(S) \in [1..n -> S]
  <2>1. SetToSeq(S) = CHOOSE g \in [1..n -> S] : IsInjective(g)
    BY <1>1 DEF SetToSeq
  <2> QED
    BY <1>3, <2>1, Zenon
<1>5. SetToSeq(S) \in Seq(S)
  BY <1>4
<1> QED
  BY <1>5, SeqIsSeq

\* The series of a device's operations.
LEMMA BlkioLabelled ==
    ASSUME NEW c, NEW entries, IsSeq(entries), \A e \in Range(entries) : IsFiniteSet(e.ops)
    PROVE  Labelled(BlkioSeries(c, entries), DOMAIN c.labels \cup {<<"device">>, <<"number">>, <<"operation">>})
<1> DEFINE Dev(i) == With(Label("device", Device(c, entries[i])), Label("number", <<entries[i].number>>))
           Op(i, op) == Series(c, With(Dev(i), Label("operation", <<op>>)), <<"blkio">>)
<1>1. PICK N : N = DOMAIN c.labels \cup {<<"device">>, <<"number">>, <<"operation">>}
  OBVIOUS
<1>2. ASSUME NEW i, NEW op PROVE DOMAIN Op(i, op).labels = N
  <2>1. PICK d, m, o : /\ d = Label("device", Device(c, entries[i])) /\ m = Label("number", <<entries[i].number>>)
                       /\ o = Label("operation", <<op>>)
    OBVIOUS
  <2>2. DOMAIN d = {<<"device">>} /\ DOMAIN m = {<<"number">>} /\ DOMAIN o = {<<"operation">>}
    BY <2>1, LabelLabels, Zenon
  <2>3. PICK e : e = With(d, m)
    OBVIOUS
  <2>4. DOMAIN e = DOMAIN d \cup DOMAIN m
    BY <2>3, WithLabels
  <2>5. PICK x : x = With(e, o)
    OBVIOUS
  <2>6. DOMAIN x = DOMAIN e \cup DOMAIN o
    BY <2>5, WithLabels
  <2>7. DOMAIN x = {<<"device">>, <<"number">>, <<"operation">>}
    BY <2>2, <2>4, <2>6
  <2>8. Op(i, op) = Series(c, x, <<"blkio">>)
    BY <2>1, <2>3, <2>5, Zenon
  <2>9. DOMAIN Series(c, x, <<"blkio">>).labels = DOMAIN c.labels \cup DOMAIN x
    BY SeriesLabels, Zenon
  <2> HIDE DEF Op
  <2> QED
    BY <1>1, <2>7, <2>8, <2>9
<1>3. PICK n \in Nat : n = Len(entries) /\ DOMAIN entries = 1..n
  BY IsSeqOver
<1>4. PICK t : t = [i \in 1..n |-> SetToSeq({Op(i, op) : op \in entries[i].ops})]
  OBVIOUS
<1>5. BlkioSeries(c, entries) = FlattenSeq(t)
  BY <1>3, <1>4 DEF BlkioSeries
<1> HIDE DEF Op
<1>6. t = [i \in 1..n |-> t[i]] /\ \A i \in 1..n : t[i] = SetToSeq({Op(i, op) : op \in entries[i].ops})
  BY <1>4
<1>7. ASSUME NEW i \in 1..n PROVE Labelled(t[i], N)
  <2>1. PICK ops : ops = entries[i].ops
    OBVIOUS
  <2>2. IsFiniteSet(ops)
    BY <1>3, <2>1 DEF Range
  <2>3. PICK S : S = {Op(i, op) : op \in ops}
    OBVIOUS
  <2>4. PICK f : f = [op \in ops |-> Op(i, op)]
    OBVIOUS
  <2>5. f \in Surjection(ops, S)
    BY <2>3, <2>4 DEF Surjection
  <2>6. IsFiniteSet(S)
    BY <2>2, <2>5, FS_Surjection
  <2>7. t[i] = SetToSeq(S)
    BY <1>6, <2>1, <2>3
  <2>8. \A x \in S : DOMAIN x.labels = N
    BY <1>2, <2>3
  <2> QED
    BY <2>6, <2>7, <2>8, SetToSeqIs DEF Labelled
<1> QED
  BY <1>1, <1>5, <1>6, <1>7, FlatLabelled

\* A row for which this has been seen.
LEMMA RowIsOk ==
    ASSUME NEW r, NEW g, NEW F, NEW s, NEW U, NEW N, r = [group |-> g, of |-> F, series |-> s], Labelled(s, N),
           \A f \in F : LabelNames(f, U) = N, \A f \in F : Gate(f) \in Disabled => g \in Disabled
    PROVE  RowOk(r, U)
BY DEF RowOk, Labelled

\* Lists as long as those of the rows.
LEMMA FourRows ==
    ASSUME NEW a1, NEW a2, NEW a3, NEW a4, NEW x, x = <<a1, a2, a3, a4>>
    PROVE  IsSeq(x) /\ Range(x) = {a1, a2, a3, a4}
<1>1. DOMAIN x = 1..4 /\ x[1] = a1 /\ x[2] = a2 /\ x[3] = a3 /\ x[4] = a4
  OBVIOUS
<1>2. \A i \in 1..4 : i = 1 \/ i = 2 \/ i = 3 \/ i = 4
  OBVIOUS
<1>3. Range(x) = {a1, a2, a3, a4}
  BY <1>1, <1>2 DEF Range
<1>4. x \in Seq({a1, a2, a3, a4})
  OBVIOUS
<1> QED
  BY <1>3, <1>4 DEF IsSeq

\* The same for sixteen.
LEMMA SixteenRows ==
    ASSUME NEW a1, NEW a2, NEW a3, NEW a4, NEW a5, NEW a6, NEW a7, NEW a8,
           NEW a9, NEW a10, NEW a11, NEW a12, NEW a13, NEW a14, NEW a15, NEW a16,
           NEW x, x = <<a1, a2, a3, a4, a5, a6, a7, a8,
              a9, a10, a11, a12, a13, a14, a15, a16>>
    PROVE  IsSeq(x) /\ Range(x) = {a1, a2, a3, a4, a5, a6, a7, a8,
                                           a9, a10, a11, a12, a13, a14, a15, a16}
<1>1. DOMAIN x = 1..16 /\ x[1] = a1 /\ x[2] = a2 /\ x[3] = a3 /\ x[4] = a4 /\ x[5] = a5
      /\ x[6] = a6 /\ x[7] = a7 /\ x[8] = a8 /\ x[9] = a9 /\ x[10] = a10 /\ x[11] = a11
      /\ x[12] = a12 /\ x[13] = a13 /\ x[14] = a14 /\ x[15] = a15 /\ x[16] = a16
  OBVIOUS
<1>2. \A i \in 1..16 : \/ i = 1 \/ i = 2 \/ i = 3 \/ i = 4 \/ i = 5 \/ i = 6 \/ i = 7 \/ i = 8
                       \/ i = 9 \/ i = 10 \/ i = 11 \/ i = 12 \/ i = 13 \/ i = 14 \/ i = 15 \/ i = 16
  OBVIOUS
<1>3. Range(x) = {a1, a2, a3, a4, a5, a6, a7, a8,
                  a9, a10, a11, a12, a13, a14, a15, a16}
  BY <1>1, <1>2 DEF Range
<1>4. x \in Seq({a1, a2, a3, a4, a5, a6, a7, a8,
                a9, a10, a11, a12, a13, a14, a15, a16})
  OBVIOUS
<1> QED
  BY <1>3, <1>4 DEF IsSeq

\* What is known of a sample.
SampleOk(s) ==
    /\ IsSeq(s.per_cpu) /\ IsSeq(s.fs) /\ IsSeq(s.net) /\ IsSeq(s.io) /\ IsSeq(s.serviced)
    /\ \A e \in Range(s.io) : IsFiniteSet(e.ops)

\* A row that pushes something into the families of the class, and is of their group.
IsRowOf(r, class) ==
    r.of = class /\ Range(r.series) # {} /\ \A f \in class : Gate(f) = r.group
HasRow(rows, class) == \E r \in Range(rows) : IsRowOf(r, class)
Always == {CpuTimes, Load, TaskStates, Memory, MemoryFailures, Oom}
Own == {Version, ScrapeErrors, Machine, Nvm}
\* The classes of a container's limits that have something to tell.
OfSpec(c, class) ==
    class = Seen \/ (class = SpecCpu /\ c.spec.has_cpu) \/ (class = SpecMemory /\ c.spec.has_memory)

\* A row of the families' own group.
LEMMA RowOfGroup ==
    ASSUME NEW r, NEW g, NEW F, NEW x, NEW U, NEW N, r = [group |-> g, of |-> F, series |-> x], Labelled(x, N),
           \A f \in F : LabelNames(f, U) = N, \A f \in F : Gate(f) = g
    PROVE  RowOk(r, U) /\ (Range(x) # {} => IsRowOf(r, F))
<1>1. \A f \in F : Gate(f) \in Disabled => g \in Disabled
  OBVIOUS
<1>2. RowOk(r, U)
  BY <1>1, RowIsOk, ZenonT(30)
<1>3. r.of = F /\ r.series = x /\ r.group = g
  OBVIOUS
<1> QED
  BY <1>2, <1>3 DEF IsRowOf

\* A row of the list.
LEMMA RowIsThere ==
    ASSUME NEW rows, NEW r \in Range(rows), NEW class, IsRowOf(r, class)
    PROVE  HasRow(rows, class)
BY DEF HasRow

\* The rows of a container's limits, and when they are not empty.
LEMMA SpecRowsOk ==
    ASSUME NEW c, c.spec \in SpecType
    PROVE  /\ IsSeq(SpecRows(c)) /\ \A r \in Range(SpecRows(c)) : RowOk(r, DOMAIN c.labels)
           /\ \A class : OfSpec(c, class) => HasRow(SpecRows(c), class)
<1>1. PICK U : U = DOMAIN c.labels
  OBVIOUS
<1>2. ASSUME NEW g, NEW F, NEW p \in BOOLEAN,
             \A f \in F : LabelNames(f, U) = U, \A f \in F : Gate(f) \in Disabled => g \in Disabled
      PROVE  RowOk([group |-> g, of |-> F, series |-> One(c, p)], U)
  <2>1. PICK s : s = One(c, p)
    OBVIOUS
  <2>2. Labelled(s, U)
    BY <1>1, <2>1, OneLabelled
  <2>3. \A f \in F : Gate(f) \in Disabled => g \in Disabled
    BY <1>2
  <2>5. PICK r : r = [group |-> g, of |-> F, series |-> s]
    OBVIOUS
  <2>6. \A f \in F : LabelNames(f, U) = U
    BY <1>2
  <2>4. RowOk(r, U)
    BY <2>2, <2>3, <2>5, <2>6, RowIsOk
  <2> QED
    BY <2>1, <2>4, <2>5
<1>3. /\ \A f \in SpecCpu : LabelNames(f, U) = U /\ Gate(f) = "cpu"
      /\ \A f \in Quota : LabelNames(f, U) = U /\ Gate(f) = ""
      /\ \A f \in SpecMemory : LabelNames(f, U) = U /\ Gate(f) = "memory"
      /\ \A f \in Seen : LabelNames(f, U) = U /\ Gate(f) = ""
  BY GroupsOfFamilies, LabelsOfFamilies
<1>4. PICK p1 \in BOOLEAN, p2 \in BOOLEAN, p3 \in BOOLEAN, p4 \in BOOLEAN :
          /\ p1 = c.spec.has_cpu /\ p2 = (c.spec.has_cpu /\ c.spec.quota # 0)
          /\ p3 = c.spec.has_memory /\ p4 = TRUE
  BY DEF SpecType
<1>5. PICK a1, a2, a3, a4 :
          /\ a1 = [group |-> "cpu", of |-> SpecCpu, series |-> One(c, p1)]
          /\ a2 = [group |-> "cpu", of |-> Quota, series |-> One(c, p2)]
          /\ a3 = [group |-> "memory", of |-> SpecMemory, series |-> One(c, p3)]
          /\ a4 = [group |-> "", of |-> Seen, series |-> One(c, p4)]
  OBVIOUS
<1>6. RowOk(a1, U) /\ RowOk(a2, U) /\ RowOk(a3, U) /\ RowOk(a4, U)
  <2>1. /\ \A f \in SpecCpu : LabelNames(f, U) = U
        /\ \A f \in Quota : LabelNames(f, U) = U
        /\ \A f \in SpecMemory : LabelNames(f, U) = U
        /\ \A f \in Seen : LabelNames(f, U) = U
    BY <1>3
  <2>2. /\ \A f \in SpecCpu : Gate(f) \in Disabled => "cpu" \in Disabled
        /\ \A f \in Quota : Gate(f) \in Disabled => "cpu" \in Disabled
        /\ \A f \in SpecMemory : Gate(f) \in Disabled => "memory" \in Disabled
        /\ \A f \in Seen : Gate(f) \in Disabled => "" \in Disabled
    BY <1>3, NoNameEnabled
  <2> QED
    BY <1>2, <1>5, <2>1, <2>2, Zenon
<1>7. SpecRows(c) = <<a1, a2, a3, a4>>
  BY <1>4, <1>5, Zenon DEF SpecRows
<1>8. IsSeq(SpecRows(c)) /\ Range(SpecRows(c)) = {a1, a2, a3, a4}
  BY <1>7, FourRows
<1>9. (p1 => IsRowOf(a1, SpecCpu)) /\ (p3 => IsRowOf(a3, SpecMemory)) /\ (p4 => IsRowOf(a4, Seen))
  <2>1. /\ p1 => Range(One(c, p1)) # {}
        /\ p3 => Range(One(c, p3)) # {}
        /\ p4 => Range(One(c, p4)) # {}
    BY OneLabelled
  <2>2. /\ a1.of = SpecCpu /\ a1.series = One(c, p1) /\ a1.group = "cpu"
        /\ a3.of = SpecMemory /\ a3.series = One(c, p3) /\ a3.group = "memory"
        /\ a4.of = Seen /\ a4.series = One(c, p4) /\ a4.group = ""
    BY <1>5
  <2> QED
    BY <1>3, <2>1, <2>2 DEF IsRowOf
<1>10. ASSUME NEW class, OfSpec(c, class) PROVE HasRow(SpecRows(c), class)
  <2>1. PICK r \in {a1, a3, a4} : IsRowOf(r, class)
    BY <1>4, <1>9, <1>10 DEF OfSpec
  <2> QED
    BY <1>8, <2>1, RowIsThere
<1> QED
  BY <1>1, <1>6, <1>8, <1>10

\* The rows of cadvisor and of the machine.
LEMMA OwnRowsOk ==
    /\ IsSeq(OwnRows) /\ \A U : \A r \in Range(OwnRows) : RowOk(r, U)
    /\ \A class \in Own : HasRow(OwnRows, class)
<1>1. PICK v, e, m : v = [labels |-> Label("version", <<>>)] /\ e = [labels |-> <<>>] /\ m = [labels |-> Label("machine", <<>>)]
  OBVIOUS
<1>2. DOMAIN v.labels = {<<"version">>} /\ DOMAIN e.labels = {} /\ DOMAIN m.labels = {<<"machine">>}
  <2>1. v.labels = Label("version", <<>>) /\ e.labels = <<>> /\ m.labels = Label("machine", <<>>)
    BY <1>1
  <2>2. DOMAIN Label("version", <<>>) = {<<"version">>} /\ DOMAIN Label("machine", <<>>) = {<<"machine">>}
    BY LabelLabels, Zenon
  <2>3. DOMAIN e.labels = {}
    BY <2>1
  <2> QED
    BY <2>1, <2>2, <2>3, Zenon
<1>3. PICK t \in BOOLEAN : t = TRUE
  OBVIOUS
<1>4. PICK modes : modes = <<"app_direct_mode", "memory_mode">>
  OBVIOUS
<1>5. IsSeq(modes) /\ modes # <<>>
  <2>1. modes \in Seq({"app_direct_mode", "memory_mode"}) /\ Len(modes) = 2
    BY <1>4
  <2> QED
    BY <2>1, SeqIsSeq, EmptySeq
<1>6. PICK s1, s2, s3, s4 : s1 = One(v, t) /\ s2 = One(e, t) /\ s3 = One(m, t) /\ s4 = Each(m, "mode", modes, "nvm")
  OBVIOUS
<1>7. /\ Labelled(s1, {<<"version">>}) /\ Labelled(s2, {}) /\ Labelled(s3, {<<"machine">>})
      /\ Labelled(s4, {<<"machine">>, <<"mode">>})
  <2>1. Labelled(s1, DOMAIN v.labels) /\ Labelled(s2, DOMAIN e.labels) /\ Labelled(s3, DOMAIN m.labels)
    BY <1>6, OneLabelled
  <2>2. Labelled(s4, DOMAIN m.labels \cup {<<"mode">>})
    BY <1>5, <1>6, EachLabelled, Zenon
  <2>3. {<<"machine">>} \cup {<<"mode">>} = {<<"machine">>, <<"mode">>}
    OBVIOUS
  <2> QED
    BY <1>2, <2>1, <2>2, <2>3, Zenon
<1>8. PICK a1, a2, a3, a4 :
          /\ a1 = [group |-> "", of |-> Version, series |-> s1]
          /\ a2 = [group |-> "", of |-> ScrapeErrors, series |-> s2]
          /\ a3 = [group |-> "", of |-> Machine, series |-> s3]
          /\ a4 = [group |-> "", of |-> Nvm, series |-> s4]
  OBVIOUS
<1>9. ASSUME NEW U PROVE RowOk(a1, U) /\ RowOk(a2, U) /\ RowOk(a3, U) /\ RowOk(a4, U)
  <2>1. /\ \A f \in Version : Gate(f) \in Disabled => "" \in Disabled
        /\ \A f \in ScrapeErrors : Gate(f) \in Disabled => "" \in Disabled
        /\ \A f \in Machine : Gate(f) \in Disabled => "" \in Disabled
        /\ \A f \in Nvm : Gate(f) \in Disabled => "" \in Disabled
    BY GroupsOfFamilies, NoNameEnabled
  <2>2. /\ \A f \in Version : LabelNames(f, U) = {<<"version">>}
        /\ \A f \in ScrapeErrors : LabelNames(f, U) = {}
        /\ \A f \in Machine : LabelNames(f, U) = {<<"machine">>}
        /\ \A f \in Nvm : LabelNames(f, U) = {<<"machine">>, <<"mode">>}
    BY LabelsOfFamilies, Zenon
  <2>3. PICK N1, N2, N3, N4 :
            N1 = {<<"version">>} /\ N2 = {} /\ N3 = {<<"machine">>} /\ N4 = {<<"machine">>, <<"mode">>}
    OBVIOUS
  <2>4. /\ \A f \in Version : LabelNames(f, U) = N1
        /\ \A f \in ScrapeErrors : LabelNames(f, U) = N2
        /\ \A f \in Machine : LabelNames(f, U) = N3
        /\ \A f \in Nvm : LabelNames(f, U) = N4
    BY <2>2, <2>3, Zenon
  <2>5. Labelled(s1, N1) /\ Labelled(s2, N2) /\ Labelled(s3, N3) /\ Labelled(s4, N4)
    BY <1>7, <2>3, Zenon
  <2>6. RowOk(a1, U)
    <3>1. \A f \in Version : Gate(f) \in Disabled => "" \in Disabled
      BY <2>1
    <3>2. \A f \in Version : LabelNames(f, U) = N1
      BY <2>4
    <3>3. a1 = [group |-> "", of |-> Version, series |-> s1] /\ Labelled(s1, N1)
      BY <1>8, <2>5
    <3> QED
      BY <3>1, <3>2, <3>3, RowIsOk, ZenonT(30)
  <2>7. RowOk(a2, U)
    <3>1. \A f \in ScrapeErrors : Gate(f) \in Disabled => "" \in Disabled
      BY <2>1
    <3>2. \A f \in ScrapeErrors : LabelNames(f, U) = N2
      BY <2>4
    <3>3. a2 = [group |-> "", of |-> ScrapeErrors, series |-> s2] /\ Labelled(s2, N2)
      BY <1>8, <2>5
    <3> QED
      BY <3>1, <3>2, <3>3, RowIsOk, ZenonT(30)
  <2>8. RowOk(a3, U)
    <3>1. \A f \in Machine : Gate(f) \in Disabled => "" \in Disabled
      BY <2>1
    <3>2. \A f \in Machine : LabelNames(f, U) = N3
      BY <2>4
    <3>3. a3 = [group |-> "", of |-> Machine, series |-> s3] /\ Labelled(s3, N3)
      BY <1>8, <2>5
    <3> QED
      BY <3>1, <3>2, <3>3, RowIsOk, ZenonT(30)
  <2>9. RowOk(a4, U)
    <3>1. \A f \in Nvm : Gate(f) \in Disabled => "" \in Disabled
      BY <2>1
    <3>2. \A f \in Nvm : LabelNames(f, U) = N4
      BY <2>4
    <3>3. a4 = [group |-> "", of |-> Nvm, series |-> s4] /\ Labelled(s4, N4)
      BY <1>8, <2>5
    <3> QED
      BY <3>1, <3>2, <3>3, RowIsOk, ZenonT(30)
  <2> QED
    BY <2>6, <2>7, <2>8, <2>9
<1>10. OwnRows = <<a1, a2, a3, a4>>
  BY <1>1, <1>3, <1>4, <1>6, <1>8, Zenon DEF OwnRows
<1>11. IsSeq(OwnRows) /\ Range(OwnRows) = {a1, a2, a3, a4}
  BY <1>10, FourRows
<1>12. IsRowOf(a1, Version) /\ IsRowOf(a2, ScrapeErrors) /\ IsRowOf(a3, Machine) /\ IsRowOf(a4, Nvm)
  <2>1. Range(s1) # {} /\ Range(s2) # {} /\ Range(s3) # {}
    BY <1>3, <1>6, OneLabelled
  <2>2. Range(s4) # {}
    BY <1>5, <1>6, EachLabelled, Zenon
  <2>3. /\ a1.of = Version /\ a1.series = s1 /\ a1.group = ""
        /\ a2.of = ScrapeErrors /\ a2.series = s2 /\ a2.group = ""
        /\ a3.of = Machine /\ a3.series = s3 /\ a3.group = ""
        /\ a4.of = Nvm /\ a4.series = s4 /\ a4.group = ""
    BY <1>8
  <2>4. \A f \in Version \cup ScrapeErrors \cup Machine \cup Nvm : Gate(f) = ""
    BY GroupsOfFamilies
  <2> QED
    BY <2>1, <2>2, <2>3, <2>4 DEF IsRowOf
<1>13. \A class \in Own : HasRow(OwnRows, class)
  BY <1>11, <1>12, RowIsThere DEF Own
<1> QED
  BY <1>9, <1>11, <1>13

\* The rows of a sample: those of the families that depend on nothing else are never empty.
LEMMA SampleRowsOk ==
    ASSUME NEW c, c.spec \in SpecType, NEW s, SampleOk(s)
    PROVE  /\ IsSeq(SampleRows(c, s))
           /\ \A r \in Range(SampleRows(c, s)) : RowOk(r, DOMAIN c.labels)
           /\ \A class \in Always : HasRow(SampleRows(c, s), class)
<1>1. PICK U : U = DOMAIN c.labels
  OBVIOUS
<1>2. PICK t \in BOOLEAN, q \in BOOLEAN : t = TRUE /\ q = (c.spec.quota # 0)
  OBVIOUS
<1>3. PICK states, failures :
          /\ states = <<"sleeping", "running", "stopped", "uninterruptible", "iowaiting">>
          /\ failures = <<<<"pgfault", "container">>, <<"pgmajfault", "container">>,
                          <<"pgfault", "hierarchy">>, <<"pgmajfault", "hierarchy">>>>
  OBVIOUS
<1>4. IsSeq(states) /\ states # <<>> /\ IsSeq(failures) /\ failures # <<>>
  <2>1. states \in Seq({"sleeping", "running", "stopped", "uninterruptible", "iowaiting"}) /\ Len(states) = 5
    BY <1>3
  <2>2. PICK f1, f2, f3, f4 : failures = <<f1, f2, f3, f4>>
    BY <1>3
  <2>3. failures \in Seq({f1, f2, f3, f4}) /\ Len(failures) = 4
    BY <2>2
  <2> QED
    BY <2>1, <2>3, SeqIsSeq, EmptySeq
<1>5. PICK x1, x2, x3, x4, x5, x6, x7, x8, x9, x10, x11, x12, x13, x14, x15, x16 :
          /\ x1 = One(c, t)
          /\ x2 = UsageSeries(c, s)
          /\ x3 = One(c, q)
          /\ x4 = One(c, t)
          /\ x5 = Each(c, "state", states, "task")
          /\ x6 = One(c, t)
          /\ x7 = Each(c, "failure", failures, "failure")
          /\ x8 = Each(c, "device", s.fs, "fs")
          /\ x9 = BlkioSeries(c, s.io)
          /\ x10 = IoSeries(c, s.io, "Read")
          /\ x11 = IoSeries(c, s.io, "Write")
          /\ x12 = IoSeries(c, s.serviced, "Read")
          /\ x13 = IoSeries(c, s.serviced, "Write")
          /\ x14 = Each(c, "device", s.fs, "fs")
          /\ x15 = Each(c, "interface", s.net, "net")
          /\ x16 = One(c, t)
  OBVIOUS
<1>6. PICK N1, N2, N3, N4, N5, N6, N7, N8, N9, N10, N11, N12, N13, N14, N15, N16 :
          /\ N1 = U
          /\ N2 = U \cup {<<"cpu">>}
          /\ N3 = U
          /\ N4 = U
          /\ N5 = U \cup {<<"state">>}
          /\ N6 = U
          /\ N7 = U \cup {<<"failure">>}
          /\ N8 = U \cup {<<"device">>}
          /\ N9 = U \cup {<<"device">>, <<"number">>, <<"operation">>}
          /\ N10 = U \cup {<<"device">>}
          /\ N11 = U \cup {<<"device">>}
          /\ N12 = U \cup {<<"device">>}
          /\ N13 = U \cup {<<"device">>}
          /\ N14 = U \cup {<<"device">>}
          /\ N15 = U \cup {<<"interface">>}
          /\ N16 = U
  OBVIOUS
<1>7. PICK a1, a2, a3, a4, a5, a6, a7, a8, a9, a10, a11, a12, a13, a14, a15, a16 :
          /\ a1 = [group |-> "cpu", of |-> CpuTimes, series |-> x1]
          /\ a2 = [group |-> "cpu", of |-> CpuUsage, series |-> x2]
          /\ a3 = [group |-> "cpu", of |-> Cfs, series |-> x3]
          /\ a4 = [group |-> "cpuLoad", of |-> Load, series |-> x4]
          /\ a5 = [group |-> "cpuLoad", of |-> TaskStates, series |-> x5]
          /\ a6 = [group |-> "memory", of |-> Memory, series |-> x6]
          /\ a7 = [group |-> "memory", of |-> MemoryFailures, series |-> x7]
          /\ a8 = [group |-> "disk", of |-> Space, series |-> x8]
          /\ a9 = [group |-> "diskIO", of |-> Blkio, series |-> x9]
          /\ a10 = [group |-> "diskIO", of |-> ReadBytes, series |-> x10]
          /\ a11 = [group |-> "diskIO", of |-> WriteBytes, series |-> x11]
          /\ a12 = [group |-> "diskIO", of |-> Reads, series |-> x12]
          /\ a13 = [group |-> "diskIO", of |-> Writes, series |-> x13]
          /\ a14 = [group |-> "diskIO", of |-> Reads \cup Writes \cup FsIo, series |-> x14]
          /\ a15 = [group |-> "network", of |-> Network, series |-> x15]
          /\ a16 = [group |-> "oom_event", of |-> Oom, series |-> x16]
  OBVIOUS
<1>8. RowOk(a1, U) /\ IsRowOf(a1, CpuTimes)
  <2>1. a1 = [group |-> "cpu", of |-> CpuTimes, series |-> x1]
    BY <1>7
  <2>2. \A f \in CpuTimes : LabelNames(f, U) = N1
    BY <1>6, LabelsOfFamilies
  <2>3. \A f \in CpuTimes : Gate(f) = "cpu"
    BY GroupsOfFamilies
  <2>4. Labelled(x1, N1) /\ Range(x1) # {}
    BY <1>1, <1>2, <1>5, <1>6, OneLabelled
  <2> QED
    BY <2>1, <2>2, <2>3, <2>4, RowOfGroup, ZenonT(30)
<1>9. RowOk(a2, U)
  <2>1. a2 = [group |-> "cpu", of |-> CpuUsage, series |-> x2]
    BY <1>7
  <2>2. \A f \in CpuUsage : LabelNames(f, U) = N2
    BY <1>6, LabelsOfFamilies
  <2>3. \A f \in CpuUsage : Gate(f) = "cpu"
    BY GroupsOfFamilies
  <2>4. Labelled(x2, N2)
    BY <1>1, <1>5, <1>6, UsageLabelled DEF SampleOk
  <2> QED
    BY <2>1, <2>2, <2>3, <2>4, RowOfGroup, ZenonT(30)
<1>10. RowOk(a3, U)
  <2>1. a3 = [group |-> "cpu", of |-> Cfs, series |-> x3]
    BY <1>7
  <2>2. \A f \in Cfs : LabelNames(f, U) = N3
    BY <1>6, LabelsOfFamilies
  <2>3. \A f \in Cfs : Gate(f) = "cpu"
    BY GroupsOfFamilies
  <2>4. Labelled(x3, N3)
    BY <1>1, <1>2, <1>5, <1>6, OneLabelled
  <2> QED
    BY <2>1, <2>2, <2>3, <2>4, RowOfGroup, ZenonT(30)
<1>11. RowOk(a4, U) /\ IsRowOf(a4, Load)
  <2>1. a4 = [group |-> "cpuLoad", of |-> Load, series |-> x4]
    BY <1>7
  <2>2. \A f \in Load : LabelNames(f, U) = N4
    BY <1>6, LabelsOfFamilies
  <2>3. \A f \in Load : Gate(f) = "cpuLoad"
    BY GroupsOfFamilies
  <2>4. Labelled(x4, N4) /\ Range(x4) # {}
    BY <1>1, <1>2, <1>5, <1>6, OneLabelled
  <2> QED
    BY <2>1, <2>2, <2>3, <2>4, RowOfGroup, ZenonT(30)
<1>12. RowOk(a5, U) /\ IsRowOf(a5, TaskStates)
  <2>1. a5 = [group |-> "cpuLoad", of |-> TaskStates, series |-> x5]
    BY <1>7
  <2>2. \A f \in TaskStates : LabelNames(f, U) = N5
    BY <1>6, LabelsOfFamilies
  <2>3. \A f \in TaskStates : Gate(f) = "cpuLoad"
    BY GroupsOfFamilies
  <2>4. Labelled(x5, N5) /\ Range(x5) # {}
    BY <1>1, <1>4, <1>5, <1>6, EachLabelled
  <2> QED
    BY <2>1, <2>2, <2>3, <2>4, RowOfGroup, ZenonT(30)
<1>13. RowOk(a6, U) /\ IsRowOf(a6, Memory)
  <2>1. a6 = [group |-> "memory", of |-> Memory, series |-> x6]
    BY <1>7
  <2>2. \A f \in Memory : LabelNames(f, U) = N6
    BY <1>6, LabelsOfFamilies
  <2>3. \A f \in Memory : Gate(f) = "memory"
    BY GroupsOfFamilies
  <2>4. Labelled(x6, N6) /\ Range(x6) # {}
    BY <1>1, <1>2, <1>5, <1>6, OneLabelled
  <2> QED
    BY <2>1, <2>2, <2>3, <2>4, RowOfGroup, ZenonT(30)
<1>14. RowOk(a7, U) /\ IsRowOf(a7, MemoryFailures)
  <2>1. a7 = [group |-> "memory", of |-> MemoryFailures, series |-> x7]
    BY <1>7
  <2>2. \A f \in MemoryFailures : LabelNames(f, U) = N7
    BY <1>6, LabelsOfFamilies
  <2>3. \A f \in MemoryFailures : Gate(f) = "memory"
    BY GroupsOfFamilies
  <2>4. Labelled(x7, N7) /\ Range(x7) # {}
    BY <1>1, <1>4, <1>5, <1>6, EachLabelled
  <2> QED
    BY <2>1, <2>2, <2>3, <2>4, RowOfGroup, ZenonT(30)
<1>15. RowOk(a8, U)
  <2>1. a8 = [group |-> "disk", of |-> Space, series |-> x8]
    BY <1>7
  <2>2. \A f \in Space : LabelNames(f, U) = N8
    BY <1>6, LabelsOfFamilies
  <2>3. \A f \in Space : Gate(f) = "disk"
    BY GroupsOfFamilies
  <2>4. Labelled(x8, N8)
    BY <1>1, <1>4, <1>5, <1>6, EachLabelled DEF SampleOk
  <2> QED
    BY <2>1, <2>2, <2>3, <2>4, RowOfGroup, ZenonT(30)
<1>16. RowOk(a9, U)
  <2>1. a9 = [group |-> "diskIO", of |-> Blkio, series |-> x9]
    BY <1>7
  <2>2. \A f \in Blkio : LabelNames(f, U) = N9
    BY <1>6, LabelsOfFamilies
  <2>3. \A f \in Blkio : Gate(f) = "diskIO"
    BY GroupsOfFamilies
  <2>4. Labelled(x9, N9)
    BY <1>1, <1>5, <1>6, BlkioLabelled DEF SampleOk
  <2> QED
    BY <2>1, <2>2, <2>3, <2>4, RowOfGroup, ZenonT(30)
<1>17. RowOk(a10, U)
  <2>1. a10 = [group |-> "diskIO", of |-> ReadBytes, series |-> x10]
    BY <1>7
  <2>2. \A f \in ReadBytes : LabelNames(f, U) = N10
    BY <1>6, LabelsOfFamilies
  <2>3. \A f \in ReadBytes : Gate(f) = "diskIO"
    BY GroupsOfFamilies
  <2>4. Labelled(x10, N10)
    BY <1>1, <1>5, <1>6, IoLabelled DEF SampleOk
  <2> QED
    BY <2>1, <2>2, <2>3, <2>4, RowOfGroup, ZenonT(30)
<1>18. RowOk(a11, U)
  <2>1. a11 = [group |-> "diskIO", of |-> WriteBytes, series |-> x11]
    BY <1>7
  <2>2. \A f \in WriteBytes : LabelNames(f, U) = N11
    BY <1>6, LabelsOfFamilies
  <2>3. \A f \in WriteBytes : Gate(f) = "diskIO"
    BY GroupsOfFamilies
  <2>4. Labelled(x11, N11)
    BY <1>1, <1>5, <1>6, IoLabelled DEF SampleOk
  <2> QED
    BY <2>1, <2>2, <2>3, <2>4, RowOfGroup, ZenonT(30)
<1>19. RowOk(a12, U)
  <2>1. a12 = [group |-> "diskIO", of |-> Reads, series |-> x12]
    BY <1>7
  <2>2. \A f \in Reads : LabelNames(f, U) = N12
    BY <1>6, LabelsOfFamilies
  <2>3. \A f \in Reads : Gate(f) = "diskIO"
    BY GroupsOfFamilies
  <2>4. Labelled(x12, N12)
    BY <1>1, <1>5, <1>6, IoLabelled DEF SampleOk
  <2> QED
    BY <2>1, <2>2, <2>3, <2>4, RowOfGroup, ZenonT(30)
<1>20. RowOk(a13, U)
  <2>1. a13 = [group |-> "diskIO", of |-> Writes, series |-> x13]
    BY <1>7
  <2>2. \A f \in Writes : LabelNames(f, U) = N13
    BY <1>6, LabelsOfFamilies
  <2>3. \A f \in Writes : Gate(f) = "diskIO"
    BY GroupsOfFamilies
  <2>4. Labelled(x13, N13)
    BY <1>1, <1>5, <1>6, IoLabelled DEF SampleOk
  <2> QED
    BY <2>1, <2>2, <2>3, <2>4, RowOfGroup, ZenonT(30)
<1>21. RowOk(a14, U)
  <2>1. a14 = [group |-> "diskIO", of |-> Reads \cup Writes \cup FsIo, series |-> x14]
    BY <1>7
  <2>2. \A f \in Reads \cup Writes \cup FsIo : LabelNames(f, U) = N14
    BY <1>6, LabelsOfFamilies
  <2>3. \A f \in Reads \cup Writes \cup FsIo : Gate(f) = "diskIO"
    BY GroupsOfFamilies
  <2>4. Labelled(x14, N14)
    BY <1>1, <1>4, <1>5, <1>6, EachLabelled DEF SampleOk
  <2> QED
    BY <2>1, <2>2, <2>3, <2>4, RowOfGroup, ZenonT(30)
<1>22. RowOk(a15, U)
  <2>1. a15 = [group |-> "network", of |-> Network, series |-> x15]
    BY <1>7
  <2>2. \A f \in Network : LabelNames(f, U) = N15
    BY <1>6, LabelsOfFamilies
  <2>3. \A f \in Network : Gate(f) = "network"
    BY GroupsOfFamilies
  <2>4. Labelled(x15, N15)
    BY <1>1, <1>4, <1>5, <1>6, EachLabelled DEF SampleOk
  <2> QED
    BY <2>1, <2>2, <2>3, <2>4, RowOfGroup, ZenonT(30)
<1>23. RowOk(a16, U) /\ IsRowOf(a16, Oom)
  <2>1. a16 = [group |-> "oom_event", of |-> Oom, series |-> x16]
    BY <1>7
  <2>2. \A f \in Oom : LabelNames(f, U) = N16
    BY <1>6, LabelsOfFamilies
  <2>3. \A f \in Oom : Gate(f) = "oom_event"
    BY GroupsOfFamilies
  <2>4. Labelled(x16, N16) /\ Range(x16) # {}
    BY <1>1, <1>2, <1>5, <1>6, OneLabelled
  <2> QED
    BY <2>1, <2>2, <2>3, <2>4, RowOfGroup, ZenonT(30)
<1>24. SampleRows(c, s) = <<a1, a2, a3, a4, a5, a6, a7, a8, a9, a10, a11, a12, a13, a14, a15, a16>>
  BY <1>2, <1>3, <1>5, <1>7, ZenonT(60) DEF SampleRows
<1>25. PICK rows : rows = SampleRows(c, s)
  OBVIOUS
<1>26. IsSeq(rows) /\ Range(rows) = {a1, a2, a3, a4, a5, a6, a7, a8,
                             a9, a10, a11, a12, a13, a14, a15, a16}
  BY <1>24, <1>25, SixteenRows
<1>27. \A r \in Range(rows) : RowOk(r, U)
  BY <1>8, <1>9, <1>10, <1>11, <1>12, <1>13, <1>14, <1>15, <1>16, <1>17, <1>18, <1>19, <1>20, <1>21, <1>22, <1>23, <1>26
<1>28. \A class \in Always : HasRow(rows, class)
  BY <1>8, <1>11, <1>12, <1>13, <1>14, <1>23, <1>26, RowIsThere DEF Always
<1> QED
  BY <1>1, <1>25, <1>26, <1>27, <1>28

\* A sample of a container.
LEMMA LatestOk == \A s \in Latest : SampleOk(s)
<1> SUFFICES ASSUME NEW p \in Paths, NEW n \in 1..MaxSamples PROVE SampleOk(SampleAt(p, n))
  BY DEF Latest
<1>1. PICK s : s = SampleAt(p, n)
  OBVIOUS
<1>2. /\ s.per_cpu \in Seq(Nat) /\ s.fs \in Seq(Range(s.fs)) /\ s.net \in Seq(Range(s.net))
      /\ s.io \in Seq(Range(s.io)) /\ s.serviced \in Seq(Range(s.serviced))
      /\ \A e \in Range(s.io) : IsFiniteSet(e.ops)
  BY <1>1, SamplesAssumption
<1>3. IsSeq(s.per_cpu)
  BY <1>2, SeqIsSeq
<1> QED
  BY <1>1, <1>2, <1>3 DEF SampleOk, IsSeq

\* The rows of a container.
LEMMA RowsOk ==
    ASSUME NEW c, c.spec \in SpecType, c.latest \in SomeLatest
    PROVE  /\ IsSeq(Rows(c)) /\ \A r \in Range(Rows(c)) : RowOk(r, DOMAIN c.labels)
           /\ c.latest # <<>> => \A class \in Always : HasRow(Rows(c), class)
           /\ \A class : OfSpec(c, class) => HasRow(Rows(c), class)
<1>1. PICK x : x = SpecRows(c)
  OBVIOUS
<1>2. /\ IsSeq(x) /\ \A r \in Range(x) : RowOk(r, DOMAIN c.labels)
      /\ \A class : OfSpec(c, class) => HasRow(x, class)
  BY <1>1, SpecRowsOk
<1>3. CASE c.latest = <<>>
  <2>1. PICK none : none = <<>> /\ Rows(c) = x \o none
    BY <1>1, <1>3 DEF Rows
  <2>2. IsSeq(none) /\ Range(none) = {}
    BY <2>1, NoneIsSeq
  <2>3. IsSeq(x \o none) /\ Range(x \o none) = Range(x) \cup Range(none)
    BY <1>2, <2>2, BothAreSeq
  <2>4. \A class : HasRow(x, class) => HasRow(x \o none, class)
    BY <2>3 DEF HasRow
  <2> QED
    BY <1>2, <1>3, <2>1, <2>2, <2>3, <2>4
<1>4. CASE c.latest # <<>>
  <2>1. PICK s : s = c.latest[1]
    OBVIOUS
  <2>2. s \in Latest
    BY <1>4, <2>1, EmptySeq DEF SomeLatest
  <2>3. SampleOk(s)
    BY <2>2, LatestOk
  <2>4. PICK y : y = SampleRows(c, s)
    OBVIOUS
  <2>5. /\ IsSeq(y) /\ \A r \in Range(y) : RowOk(r, DOMAIN c.labels)
        /\ \A class \in Always : HasRow(y, class)
    BY <2>3, <2>4, SampleRowsOk
  <2>6. Rows(c) = x \o y
    BY <1>1, <1>4, <2>1, <2>4 DEF Rows
  <2>7. IsSeq(x \o y) /\ Range(x \o y) = Range(x) \cup Range(y)
    BY <1>2, <2>5, BothAreSeq
  <2>8. /\ \A class \in Always : HasRow(x \o y, class)
        /\ \A class : HasRow(x, class) => HasRow(x \o y, class)
    BY <2>5, <2>7 DEF HasRow
  <2> QED
    BY <1>2, <2>5, <2>6, <2>7, <2>8
<1> QED
  BY <1>3, <1>4

\* A container as a scrape reads it, with these names of labels.
ScrapedOk(c, U) == c.spec \in SpecType /\ c.latest \in SomeLatest /\ DOMAIN c.labels = U

\* What is pushed into a family has the label names of the family, is nothing when its
\* group is disabled, and something when it is not and there is something to tell.
Told(cs, class) ==
    HasRow(OwnRows, class) \/ \E i \in DOMAIN cs : HasRow(Rows(cs[i]), class)
LEMMA PushedOk ==
    ASSUME NEW cs, NEW U, IsSeq(cs), \A i \in DOMAIN cs : ScrapedOk(cs[i], U), NEW class, NEW f \in class
    PROVE  /\ IsSeq(Pushed(cs, class))
           /\ \A x \in Range(Pushed(cs, class)) : DOMAIN x.labels = LabelNames(f, U)
           /\ Gate(f) \in Disabled => Range(Pushed(cs, class)) = {}
           /\ Gate(f) \notin Disabled /\ Told(cs, class) => Range(Pushed(cs, class)) # {}
<1>1. \A i \in DOMAIN cs : IsSeq(Rows(cs[i])) /\ \A r \in Range(Rows(cs[i])) : RowOk(r, U)
  BY RowsOk DEF ScrapedOk
<1>2. IsSeq(OwnRows) /\ \A r \in Range(OwnRows) : RowOk(r, U)
  BY OwnRowsOk
<1>3. \A r \in AllRows(cs) : RowOk(r, U)
  BY <1>1, <1>2, Zenon DEF AllRows
<1>4. \A r \in AllRows(cs) : IsSeq(r.series)
  BY <1>3 DEF RowOk
<1>5. PICK P : P = Pushed(cs, class)
  OBVIOUS
<1>6. /\ IsSeq(P)
      /\ \A x \in Range(P) : \E r \in AllRows(cs) : Pushes(r, class) /\ x \in Range(r.series)
      /\ \A r \in AllRows(cs) : Pushes(r, class) => Range(r.series) \subseteq Range(P)
  BY <1>1, <1>2, <1>4, <1>5, PushedIs
<1>7. ASSUME NEW x \in Range(P)
      PROVE  DOMAIN x.labels = LabelNames(f, U) /\ Gate(f) \notin Disabled
  <2>1. PICK r \in AllRows(cs) : Pushes(r, class) /\ x \in Range(r.series)
    BY <1>6
  <2>2. f \in r.of /\ r.group \notin Disabled
    BY <2>1 DEF Pushes, Enabled
  <2> QED
    BY <1>3, <2>1, <2>2 DEF RowOk
<1>8. ASSUME Gate(f) \notin Disabled, Told(cs, class) PROVE Range(P) # {}
  <2>1. PICK rows : HasRow(rows, class) /\ (rows = OwnRows \/ \E i \in DOMAIN cs : rows = Rows(cs[i]))
    BY <1>8 DEF Told
  <2>2. PICK r \in Range(rows) : IsRowOf(r, class)
    BY <2>1 DEF HasRow
  <2>3. r \in AllRows(cs)
    BY <2>1, <2>2, Zenon DEF AllRows
  <2>4. Pushes(r, class) /\ Range(r.series) # {}
    BY <1>8, <2>2 DEF Pushes, Enabled, IsRowOf
  <2> QED
    BY <1>6, <2>3, <2>4
<1> QED
  BY <1>5, <1>6, <1>7, <1>8

\* Every class has families.
LEMMA ClassesHaveFamilies == \A class \in Classes : \E f \in class : TRUE
BY DEF Classes, SpecCpu, SpecMemory, Seen, Version, ScrapeErrors, Machine, Nvm, Load, TaskStates, CpuTimes,
   CpuUsage, Memory, MemoryFailures, Space, Blkio, ReadBytes, WriteBytes, Reads, Writes, FsIo, Network, Oom

\* What a scrape has read when it is done.
LEMMA ScrapedIs ==
    ASSUME RequestsInv, Scrape
    PROVE  /\ IsSeq(Scraped) /\ DOMAIN Scraped = DOMAIN task.out
           /\ \A i \in DOMAIN Scraped : ScrapedOk(Scraped[i], Union) /\ Scraped[i].latest = task.out[i].latest
                                      /\ Scraped[i].spec = task.out[i].spec[1]
<1>1. task.out \in Seq(Entry) /\ Kind = "metrics"
  BY DEF RequestsInv, RequestTypes, TaskType, Scrape
<1>2. PICK n \in Nat : n = Len(task.out) /\ DOMAIN task.out = 1..n /\ \A i \in 1..n : task.out[i] \in Entry
  BY <1>1
<1>3. PICK U : U = Union
  OBVIOUS
<1>4. PICK x : x = Scraped
  OBVIOUS
<1>5. x = [i \in 1..n |-> [labels |-> Unioned(OwnLabels(Name(task.out[i].path), Meta[task.out[i].path], Opts), U),
                           spec |-> task.out[i].spec[1], latest |-> task.out[i].latest,
                           disks |-> task.out[i].disks]]
  BY <1>2, <1>3, <1>4 DEF Scraped
<1>6. x = [i \in 1..n |-> x[i]]
  BY <1>5
<1>7. ASSUME NEW i \in 1..n
      PROVE  ScrapedOk(x[i], U) /\ x[i].latest = task.out[i].latest /\ x[i].spec = task.out[i].spec[1]
  <2>1. PICK e \in Entry : e = task.out[i]
    BY <1>2
  <2>2. x[i].labels = Unioned(OwnLabels(Name(e.path), Meta[e.path], Opts), U)
    BY <1>5, <2>1
  <2>3. DOMAIN x[i].labels = U
    BY <2>2 DEF Unioned
  <2>4. e.spec # <<>>
    <3>1. HasRead("spec", Len(Program(Kind)))
      <4>1. Len(Program(Kind)) = 3 /\ Program(Kind)[1] = "spec"
        BY <1>1 DEF Program
      <4> QED
        BY <4>1 DEF HasRead
    <3>2. EntryOk(task.out[i], Len(Program(Kind)))
      BY <1>2 DEF RequestsInv, Entries
    <3> QED
      BY <2>1, <3>1, <3>2 DEF EntryOk
  <2>5. e.spec \in SomeSpec /\ e.latest \in SomeLatest
    BY DEF Entry
  <2>6. e.spec[1] \in SpecType
    BY <2>4, <2>5, EmptySeq DEF SomeSpec
  <2>7. x[i].spec = e.spec[1] /\ x[i].latest = e.latest
    BY <1>5, <2>1
  <2> QED
    BY <2>1, <2>3, <2>5, <2>6, <2>7 DEF ScrapedOk
<1> QED
  BY <1>2, <1>3, <1>4, <1>6, <1>7, ListIsSeq

\* What a scrape has for a class is a row of it.
LEMMA SeriesAreTold == RequestsInv /\ Scrape => \A class : HasSeries(class) => Told(Scraped, class)
<1> SUFFICES ASSUME RequestsInv, Scrape, NEW class, HasSeries(class) PROVE Told(Scraped, class)
  OBVIOUS
<1>1. PICK cs, U : cs = Scraped /\ U = Union
  OBVIOUS
<1>2. /\ DOMAIN cs = DOMAIN task.out
      /\ \A i \in DOMAIN cs : /\ ScrapedOk(cs[i], U) /\ cs[i].latest = task.out[i].latest
                             /\ cs[i].spec = task.out[i].spec[1]
  BY <1>1, ScrapedIs
<1>3. CASE class \in Own
  BY <1>1, <1>3, OwnRowsOk DEF Told
<1>4. CASE class \notin Own
  <2>1. PICK i \in DOMAIN cs : OfSpec(cs[i], class) \/ (class \in Always /\ cs[i].latest # <<>>)
    BY <1>2, <1>4, Zenon DEF HasSeries, OfSpec, Own, Always
  <2>2. HasRow(Rows(cs[i]), class)
    BY <1>2, <2>1, RowsOk DEF ScrapedOk
  <2> QED
    BY <1>1, <2>2 DEF Told
<1> QED
  BY <1>3, <1>4

\* What is served of a class.
LEMMA ServedOk ==
    ASSUME RequestsInv, Scrape, NEW class, NEW f \in class, NEW served, served = Rendered(Pushed(Scraped, class))
    PROVE  /\ IsSeq(Pushed(Scraped, class)) /\ IsSeq(served)
           /\ \A x \in Range(served) : DOMAIN x.labels = LabelNames(f, Union)
           /\ Gate(f) \in Disabled => served = <<>>
           /\ Gate(f) \notin Disabled /\ HasSeries(class) => served # <<>>
<1>1. PICK cs, U : cs = Scraped /\ U = Union
  OBVIOUS
<1>2. /\ IsSeq(cs) /\ DOMAIN cs = DOMAIN task.out
      /\ \A i \in DOMAIN cs : ScrapedOk(cs[i], U)
      /\ HasSeries(class) => Told(cs, class)
  BY <1>1, ScrapedIs, SeriesAreTold
<1>3. PICK P : P = Pushed(cs, class)
  OBVIOUS
<1>4. /\ IsSeq(P)
      /\ \A x \in Range(P) : DOMAIN x.labels = LabelNames(f, U)
      /\ Gate(f) \in Disabled => Range(P) = {}
      /\ Gate(f) \notin Disabled /\ Told(cs, class) => Range(P) # {}
  BY <1>2, <1>3, PushedOk
<1>5. served = Rendered(P)
  BY <1>1, <1>3
<1>6. IsSeq(served) /\ Range(served) \subseteq Range(P)
  BY <1>4, <1>5, RenderedIs
<1>7. (Range(P) = {} => served = <<>>) /\ (Range(P) # {} => served # <<>>)
  BY <1>4, <1>5, RenderedSome
<1> QED
  BY <1>1, <1>2, <1>3, <1>4, <1>6, <1>7

\* Nothing is served twice, and what was pushed first is served.
LEMMA InvServedOnce == RequestsInv => SeriesServedOnce
<1> SUFFICES ASSUME RequestsInv, Scrape, NEW class \in Classes
             PROVE  /\ \A i, j \in DOMAIN Rendered(Pushed(Scraped, class)) :
                          Rendered(Pushed(Scraped, class))[i].labels = Rendered(Pushed(Scraped, class))[j].labels
                              => i = j
                    /\ \A i \in DOMAIN Pushed(Scraped, class) :
                          (\A j \in 1..(i - 1) : Pushed(Scraped, class)[j].labels # Pushed(Scraped, class)[i].labels)
                              => Pushed(Scraped, class)[i] \in Range(Rendered(Pushed(Scraped, class)))
  BY Zenon DEF SeriesServedOnce
<1>1. PICK P : P = Pushed(Scraped, class)
  OBVIOUS
<1>2. IsSeq(P)
  BY <1>1, ClassesHaveFamilies, ServedOk
<1> QED
  BY <1>1, <1>2, RenderedIs, Zenon

\* What is served of a class has the same label names.
LEMMA InvSameNames == RequestsInv => SameLabelNames
<1> SUFFICES ASSUME RequestsInv, Scrape, NEW class \in Classes, NEW served, served = Rendered(Pushed(Scraped, class)),
                    NEW i \in DOMAIN served, NEW j \in DOMAIN served
             PROVE  DOMAIN served[i].labels = DOMAIN served[j].labels
  BY Zenon DEF SameLabelNames
<1>1. PICK f : f \in class
  BY ClassesHaveFamilies
<1>2. \A x \in Range(served) : DOMAIN x.labels = LabelNames(f, Union)
  BY <1>1, ServedOk
<1> QED
  BY <1>2 DEF Range

\* The groups.
LEMMA InvGated == RequestsInv => GroupsAreGated
<1> SUFFICES ASSUME RequestsInv, Scrape, NEW class \in Classes, NEW f \in class,
                    NEW served, served = Rendered(Pushed(Scraped, class))
             PROVE  IF Gate(f) \in Disabled THEN served = <<>> ELSE HasSeries(class) => served # <<>>
  BY DEF GroupsAreGated
<1>1. /\ Gate(f) \in Disabled => served = <<>>
      /\ Gate(f) \notin Disabled /\ HasSeries(class) => served # <<>>
  BY ServedOk
<1> QED
  BY <1>1

\* A scrape serves every series once, the first one pushed, and gives all series of a
\* family the same label names, whatever containers come and go, are named alike or
\* differ in their labels, and whatever devices the disk map learns meanwhile
\* (Output::push and render, ContainerLabels::unioned).
THEOREM RequestsExposeValidly == Spec => []ExpositionIsValid
<1>1. RequestsInv => ExpositionIsValid
  BY InvServedOnce, InvSameNames DEF ExpositionIsValid
<1> QED
  BY <1>1, RequestsInvariant, PTL

\* A scrape serves no family of a disabled group and loses none of another of which it has
\* something to tell, whichever groups the flags name.  The groups are those of family_group,
\* except that render gates the families of a container's limits by cpu and memory.
THEOREM RequestsGateGroups == Spec => []GroupsAreGated
<1> QED
  BY RequestsInvariant, InvGated, PTL
-----------------------------------------------------------------------------
(* Serving.                                                                *)

\* A connection that has come so far has been accepted by a running server.
Accepteds == {"handshake", "open", "asked", "running", "answered"} \cup OfClient
\* No answer has been given yet.
Before == {"away", "queued", "handshake", "open", "sending", "asked", "body", "running"}
Pcs == Accepteds \cup {"away", "queued", "closed"}

\* The health paths are open to everyone, the others to a request with a token
\* that was in use since it came.
Admitted(c) ==
    flags.token_file => \/ conn[c].ask.path \in HealthPaths
                        \/ Bearer(conn[c].ask) \cap during[c] # {}

Connections ==
    /\ boot \in (-1)..6
    /\ conn \in [Clients -> [pc : Pcs, ask : Asks \cup {NoAsk}, answer : {0, 200, 401, 404}]]
    /\ DOMAIN during = Clients
    /\ \A c \in Clients : conn[c].pc \in Before => conn[c].answer = 0

\* Nothing is accepted, and nothing answered, before the last startup step.
Late ==
    /\ loop \in {"accepting", "backoff"} => Serving
    /\ \A c \in Clients : conn[c].pc \in Accepteds \/ conn[c].answer # 0 => Serving

\* What the startup steps done so far have established.
Started ==
    /\ boot >= 2 => (flags.cert = "none") = (flags.key = "none")
    /\ Serving => ~Tls \/ (flags.cert = "good" /\ flags.key = "good")
    /\ flags.token_file /\ boot >= 3 => InUse # {}

\* A request that waits has seen every set of tokens in use since it came; one
\* that has passed the check, and one that is answered, have been admitted.
Guarded ==
    \A c \in Clients :
        /\ conn[c].pc = "asked" => InUse \subseteq during[c]
        /\ conn[c].pc \in {"body", "running"} => Admitted(c)
        /\ conn[c].answer \in {200, 404} => Admitted(c)
        /\ conn[c].answer # 0 /\ conn[c].ask.path \in HealthPaths => conn[c].answer = 200

ServingInv == Connections /\ Late /\ Started /\ Guarded

\* The steps of main, in order.
LEMMA StartupSteps ==
    /\ Len(Startup) = 6
    /\ \A i \in 1..6 : Startup[i] = "tokens" <=> i = 3
    /\ Startup[2] = "pairing" /\ Startup[6] = "certificate"
BY DEF Startup

\* A combination of one file that load accepts has a token.
LEMMA LoadedHasTokens ==
    ASSUME Watch!Take
    PROVE  InUse' # {}
<1>1. [i \in 1..1 |-> value'[i].content] \in LoadTokens
  BY DEF Watch!Take, Watch!Index
<1>2. PICK c \in Contents : ParseTokens(c) # {} /\ [i \in 1..1 |-> value'[i].content] = [i \in 1..1 |-> c]
  BY <1>1 DEF LoadTokens
<1>3. value'[1].content = c
  BY <1>2
<1> QED
  BY <1>2, <1>3 DEF InUse, ParseTokens

\* Initially nobody is connected and no step is done.
LEMMA ServingInitInvariant == ServingInit => ServingInv
<1> SUFFICES ASSUME ServingInit PROVE ServingInv
  OBVIOUS
<1>1. Connections
  BY DEF ServingInit, Connections, Conn, Pcs, Accepteds, OfClient
<1>2. Late /\ Started /\ Guarded
  BY StartupSteps DEF ServingInit, Late, Started, Guarded, Conn, Accepteds, OfClient, Serving
<1> QED
  BY <1>1, <1>2 DEF ServingInv

\* A startup step other than the tokens.
LEMMA BootInvariant == ServingInv /\ Boot => ServingInv'
<1> SUFFICES ASSUME ServingInv, Boot PROVE ServingInv'
  OBVIOUS
<1>0. boot \in 0..5 /\ Startup[boot + 1] # "tokens" /\ boot # 2
  BY StartupSteps DEF Boot
<1>1. CASE StepOk(Startup[boot + 1])
  <2>1. /\ boot' = boot + 1 /\ conn' = conn
        /\ loop' = IF boot' = 6 THEN "accepting" ELSE loop
        /\ UNCHANGED <<flags, value, during>>
    BY <1>1, StartupSteps DEF Boot, tokenVars
  <2>2. Connections'
    BY <1>0, <2>1 DEF ServingInv, Connections
  <2>3. \A c \in Clients : conn[c].pc \notin Accepteds /\ conn[c].answer = 0
    BY <1>0, StartupSteps DEF ServingInv, Late, Serving
  <2>4. Late'
    BY <1>0, <2>1, <2>3, StartupSteps DEF ServingInv, Late, Serving
  <2>5. Started'
    BY <1>0, <1>1, <2>1, StartupSteps DEF ServingInv, Started, Serving, StepOk, Tls, InUse, ParseTokens
  <2>6. Guarded'
    BY <2>1, <2>3 DEF ServingInv, Guarded, Accepteds, OfClient
  <2> QED
    BY <2>2, <2>4, <2>5, <2>6 DEF ServingInv
<1>2. CASE ~StepOk(Startup[boot + 1])
  <2>1. /\ boot' = -1 /\ conn' = [c \in Clients |-> Closed]
        /\ UNCHANGED <<flags, value, during, loop>>
    BY <1>2 DEF Boot, tokenVars
  <2>2. Connections'
    BY <2>1 DEF ServingInv, Connections, Pcs, Closed, Conn
  <2>4. \A c \in Clients : conn'[c].pc = "closed" /\ conn'[c].answer = 0
    BY <2>1 DEF Closed, Conn
  <2>5. Late' /\ Guarded'
    BY <1>0, <2>1, <2>4, StartupSteps DEF ServingInv, Late, Guarded, Serving, Accepteds, OfClient
  <2>6. Started'
    BY <2>1, StartupSteps DEF ServingInv, Started, Serving
  <2> QED
    BY <2>2, <2>5, <2>6 DEF ServingInv
<1> QED
  BY <1>1, <1>2

\* The step that loads the tokens.
LEMMA BootTokensInvariant == ServingInv /\ BootTokens => ServingInv'
<1> SUFFICES ASSUME ServingInv, BootTokens PROVE ServingInv'
  OBVIOUS
<1>0. /\ boot = 2 /\ UNCHANGED <<flags, loop, conn, during>>
  BY StartupSteps DEF BootTokens
<1>1. boot' \in {3, -1} /\ (boot' = 3 => ~flags.token_file \/ Watch!Take)
  BY <1>0 DEF BootTokens
<1>2. Connections'
  BY <1>0, <1>1 DEF ServingInv, Connections
<1>3. \A c \in Clients : conn[c].pc \notin Accepteds /\ conn[c].answer = 0
  BY <1>0, StartupSteps DEF ServingInv, Late, Serving
<1>4. Late' /\ Guarded'
  BY <1>0, <1>1, <1>3, StartupSteps DEF ServingInv, Late, Guarded, Serving, Accepteds, OfClient
<1>5. Started'
  BY <1>0, <1>1, LoadedHasTokens, StartupSteps DEF ServingInv, Started, Serving
<1> QED
  BY <1>2, <1>4, <1>5 DEF ServingInv

\* The token file is replaced; the tokens in use stay.
LEMMA RotateInvariant ==
    ASSUME ServingInv, NEW content \in Contents \cup {Absent}, Rotate(content) PROVE ServingInv'
<1>1. UNCHANGED <<flags, boot, value, loop, conn, during>>
  BY DEF Rotate, Watch!Replace
<1> QED
  BY <1>1 DEF ServingInv, Connections, Late, Started, Guarded, Admitted, Serving, Tls, InUse

\* The tokens are reloaded: requests that wait see the new ones as well.
LEMMA ReloadInvariant == ServingInv /\ Reload => ServingInv'
<1> SUFFICES ASSUME ServingInv, Reload PROVE ServingInv'
  OBVIOUS
<1>1. /\ UNCHANGED <<flags, boot, loop, conn>> /\ Watch!Take /\ value' = file
      /\ during' = [c \in Clients |-> IF conn[c].pc = "asked"
                        THEN during[c] \cup ParseTokens(file[1].content) ELSE during[c]]
  BY DEF Reload
<1>2. Connections' /\ Late'
  BY <1>1 DEF ServingInv, Connections, Late, Serving
<1>3. Started'
  BY <1>1, LoadedHasTokens DEF ServingInv, Started, Serving, Tls
<1>4. \A c \in Clients : Admitted(c) => Admitted(c)'
  BY <1>1 DEF Admitted
<1>5. \A c \in Clients : conn[c].pc = "asked" => InUse' \subseteq during'[c]
  BY <1>1 DEF InUse
<1>6. Guarded'
  BY <1>1, <1>4, <1>5 DEF ServingInv, Guarded
<1> QED
  BY <1>2, <1>3, <1>6 DEF ServingInv

\* The loop moves, or SIGINT comes, and every connection stays or is closed.
LEMMA LoopInvariant ==
    ASSUME ServingInv, UNCHANGED <<flags, boot, value, during>>,
           loop' \in {"accepting", "backoff"} => Serving,
           conn' = conn \/ conn' = [c \in Clients |-> Closed]
    PROVE  ServingInv'
<1>0. conn \in [Clients -> [pc : Pcs, ask : Asks \cup {NoAsk}, answer : {0, 200, 401, 404}]]
  BY DEF ServingInv, Connections
<1>1. /\ \A c \in Clients : \/ conn'[c] = conn[c]
                            \/ conn'[c].pc = "closed" /\ conn'[c].answer = 0
      /\ conn' \in [Clients -> [pc : Pcs, ask : Asks \cup {NoAsk}, answer : {0, 200, 401, 404}]]
  <2>1. CASE conn' = conn
    BY <1>0, <2>1
  <2>2. CASE conn' = [c \in Clients |-> Closed]
    BY <2>2 DEF Pcs, Closed, Conn
  <2> QED
    BY <2>1, <2>2
<1>2. Connections'
  BY <1>1 DEF ServingInv, Connections, Before
<1>3. Late'
  BY <1>1 DEF ServingInv, Late, Serving, Accepteds, OfClient
<1>4. Started'
  BY DEF ServingInv, Started, Serving, Tls, InUse
<1>5. Guarded'
  BY <1>1 DEF ServingInv, Guarded, Admitted, InUse
<1> QED
  BY <1>2, <1>3, <1>4, <1>5 DEF ServingInv

\* One connection moves while it is not answered anew.
LEMMA MoveInvariant ==
    ASSUME ServingInv, UNCHANGED <<flags, boot, value, loop, during>>,
           NEW c \in Clients, NEW pc \in Pcs \ {"asked"},
           conn' = [conn EXCEPT ![c].pc = pc], pc \in {"body", "running"} => Admitted(c),
           pc \in Accepteds => Serving, pc \in Before => conn[c].answer = 0
    PROVE  ServingInv'
<1>1. /\ \A d \in Clients : /\ conn'[d].ask = conn[d].ask
                            /\ conn'[d].answer = conn[d].answer
                            /\ d # c => conn'[d].pc = conn[d].pc
      /\ conn'[c].pc = pc
      /\ conn' \in [Clients -> [pc : Pcs, ask : Asks \cup {NoAsk}, answer : {0, 200, 401, 404}]]
  BY DEF ServingInv, Connections
<1>2. Connections'
  BY <1>1 DEF ServingInv, Connections
<1>3. Late'
  BY <1>1 DEF ServingInv, Late, Serving
<1>4. Started'
  BY DEF ServingInv, Started, Serving, Tls, InUse
<1>5. Guarded'
  BY <1>1 DEF ServingInv, Guarded, Admitted, InUse
<1> QED
  BY <1>2, <1>3, <1>4, <1>5 DEF ServingInv

\* The record of one connection is replaced.
Replaced(c, pc, ask, answer) ==
    /\ conn' \in [Clients -> [pc : Pcs, ask : Asks \cup {NoAsk}, answer : {0, 200, 401, 404}]]
    /\ \A d \in Clients \ {c} : conn'[d] = conn[d]
    /\ conn'[c].pc = pc /\ conn'[c].ask = ask /\ conn'[c].answer = answer

\* A connection gets a new record: it asks, passes the check or is answered.
LEMMA RecordInvariant ==
    ASSUME ServingInv, UNCHANGED <<flags, boot, value, loop>>, Serving,
           NEW c \in Clients,
           conn' \in [Clients -> [pc : Pcs, ask : Asks \cup {NoAsk}, answer : {0, 200, 401, 404}]],
           \A d \in Clients \ {c} : conn'[d] = conn[d],
           conn'[c].pc \in Before => conn'[c].answer = 0,
           DOMAIN during' = Clients,
           \A d \in Clients \ {c} : during'[d] = during[d],
           conn'[c].pc = "asked" => InUse \subseteq during'[c],
           conn'[c].pc \in {"body", "running"} \/ conn'[c].answer \in {200, 404} => Admitted(c)',
           conn'[c].answer # 0 /\ conn'[c].ask.path \in HealthPaths => conn'[c].answer = 200
    PROVE  ServingInv'
<1>1. Connections'
  BY DEF ServingInv, Connections
<1>2. Late'
  BY DEF ServingInv, Late, Serving
<1>3. Started'
  BY DEF ServingInv, Started, Serving, Tls, InUse
<1>4. \A d \in Clients \ {c} : Admitted(d) => Admitted(d)'
  BY DEF Admitted
<1>5. Guarded'
  BY <1>4 DEF ServingInv, Guarded, InUse
<1> QED
  BY <1>1, <1>2, <1>3, <1>5 DEF ServingInv

\* What one connection does, or has done to it.
LEMMA ConnectionInvariant ==
    ASSUME ServingInv, NEW c \in Clients,
           \/ Accept(c) \/ ConnectionStep(c) \/ Connect(c) \/ Handshake(c) \/ Hangup(c)
           \/ Begin(c) \/ Send(c) \/ Receive(c)
           \/ \E ask \in Asks : Ask(c, ask)
    PROVE  ServingInv'
<1>0. /\ conn[c] \in [pc : Pcs, ask : Asks \cup {NoAsk}, answer : {0, 200, 401, 404}]
      /\ conn \in [Clients -> [pc : Pcs, ask : Asks \cup {NoAsk}, answer : {0, 200, 401, 404}]]
      /\ conn[c].pc \in Before => conn[c].answer = 0
      /\ conn[c].pc \in Accepteds => Serving
      /\ loop \in {"accepting", "backoff"} => Serving
      /\ DOMAIN during = Clients
  BY DEF ServingInv, Connections, Late
<1> USE DEF Accepteds, OfClient, Before, Pcs
<1>1. CASE Accept(c)
  <2>1. PICK pc \in Pcs \ {"asked"} :
            pc \in {"handshake", "open"} /\ conn' = [conn EXCEPT ![c].pc = pc]
    BY <1>1 DEF Accept
  <2>2. UNCHANGED <<flags, boot, value, loop, during>> /\ Serving /\ conn[c].answer = 0
    BY <1>0, <1>1 DEF Accept, tokenVars
  <2> QED
    BY <2>1, <2>2, MoveInvariant
<1>2. CASE Connect(c) \/ Hangup(c)
  <2>1. PICK pc \in {"queued", "closed"} : conn' = [conn EXCEPT ![c] = Conn(pc, NoAsk, 0)]
    BY <1>2 DEF Connect, Hangup, Closed
  <2>2. UNCHANGED <<flags, boot, value, loop, during>>
    BY <1>2 DEF Connect, Hangup, tokenVars
  <2>3. /\ \A d \in Clients \ {c} : conn'[d] = conn[d]
        /\ conn'[c].pc = pc /\ conn'[c].answer = 0
        /\ conn' \in [Clients -> [pc : Pcs, ask : Asks \cup {NoAsk}, answer : {0, 200, 401, 404}]]
    BY <1>0, <2>1 DEF Conn
  <2>4. Connections' /\ Late' /\ Started'
    BY <2>2, <2>3 DEF ServingInv, Connections, Late, Started, Serving, Tls, InUse
  <2>5. Guarded'
    BY <2>2, <2>3 DEF ServingInv, Guarded, Admitted, InUse
  <2> QED
    BY <2>4, <2>5 DEF ServingInv
<1>3. CASE Handshake(c) \/ HandshakeTimesOut(c) \/ Begin(c) \/ Send(c) \/ Receive(c)
  <2>1. PICK from \in Accepteds, pc \in {"open", "closed", "sending", "running", "answered"} :
            /\ To(c, from, pc)
            /\ pc \in {"open", "sending"} => from \in Before
            /\ pc = "running" => from = "body"
    BY <1>3 DEF Handshake, HandshakeTimesOut, Begin, Send, Receive
  <2>2. /\ UNCHANGED <<flags, boot, value, loop, during>> /\ conn[c].pc = from
        /\ conn' = [conn EXCEPT ![c].pc = pc]
    BY <2>1 DEF To, tokenVars
  <2>3. /\ pc \in Pcs \ {"asked"} /\ Serving
        /\ pc \in Before => conn[c].answer = 0
    BY <1>0, <2>1, <2>2
  <2>4. pc \in {"body", "running"} => Admitted(c)
    BY <2>1, <2>2 DEF ServingInv, Guarded
  <2> QED
    BY <2>2, <2>3, <2>4, MoveInvariant
<1>4. ASSUME NEW ask \in Asks, Ask(c, ask) PROVE ServingInv'
  <2>1. /\ conn' = [conn EXCEPT ![c] = Conn("asked", ask, 0)] /\ conn[c].pc = "sending"
        /\ during' = [during EXCEPT ![c] = InUse]
        /\ UNCHANGED <<flags, boot, value, loop>>
    BY <1>4 DEF Ask, tokenVars
  <2>2. /\ DOMAIN during' = Clients /\ during'[c] = InUse
        /\ \A d \in Clients \ {c} : during'[d] = during[d]
    BY <1>0, <2>1
  <2>3. Replaced(c, "asked", ask, 0)
    BY <1>0, <2>1 DEF Replaced, Conn
  <2> QED
    BY <1>0, <2>1, <2>2, <2>3, RecordInvariant DEF Replaced
<1>5. CASE Check(c)
  <2>0. PICK ask \in Asks \cup {NoAsk} : ask = conn[c].ask
    BY <1>0
  <2>1. /\ conn[c].pc = "asked" /\ UNCHANGED <<flags, boot, value, loop, during>> /\ Serving
    BY <1>0, <1>5 DEF Check, tokenVars
  <2>2. InUse \subseteq during[c]
    BY <2>1 DEF ServingInv, Guarded
  <2>3. CASE ~flags.token_file \/ ask.path \in HealthPaths \/ Accepted(ask)
    <3>1. PICK pc \in {"body", "running"} : conn' = [conn EXCEPT ![c] = Conn(pc, ask, 0)]
      BY <1>5, <2>0, <2>3 DEF Check
    <3>2. Replaced(c, pc, ask, 0)
      BY <1>0, <3>1 DEF Replaced, Conn
    <3>3. Admitted(c)'
      BY <2>1, <2>2, <2>3, <3>2 DEF Admitted, Accepted, Replaced
    <3> QED
      BY <1>0, <2>1, <3>2, <3>3, RecordInvariant DEF Replaced
  <2>4. CASE ~(~flags.token_file \/ ask.path \in HealthPaths \/ Accepted(ask))
    <3>1. conn' = [conn EXCEPT ![c] = Conn("answered", ask, 401)]
      BY <1>5, <2>0, <2>4 DEF Check
    <3>2. Replaced(c, "answered", ask, 401)
      BY <1>0, <3>1 DEF Replaced, Conn
    <3> QED
      BY <1>0, <2>1, <2>4, <3>2, RecordInvariant DEF Replaced
  <2> QED
    BY <2>3, <2>4
<1>6. CASE Answer(c)
  <2>0. PICK ask \in Asks \cup {NoAsk} : ask = conn[c].ask
    BY <1>0
  <2>1. /\ conn[c].pc = "running" /\ UNCHANGED <<flags, boot, value, loop, during>> /\ Serving
    BY <1>0, <1>6 DEF Answer, tokenVars
  <2>a. PICK answer \in {200, 404} : answer = IF ask.path \in Known THEN 200 ELSE 404
    OBVIOUS
  <2>b. ask.path \in HealthPaths => answer = 200
    BY <2>a DEF Known
  <2>c. PICK pc \in Written(conn[c].ask.path) :
           conn' = [conn EXCEPT ![c] = Conn(pc, conn[c].ask, IF conn[c].ask.path \in Known THEN 200 ELSE 404)]
    BY <1>6, Zenon DEF Answer
  <2>d. pc \in {"streaming", "answering", "answered"}
    BY DEF Written
  <2>3. Replaced(c, pc, ask, answer)
    <3>1. PICK new : new = Conn(pc, conn[c].ask, IF conn[c].ask.path \in Known THEN 200 ELSE 404)
      OBVIOUS
    <3>2. new.pc = pc /\ new.ask = ask /\ new.answer = answer
          /\ new \in [pc : Pcs, ask : Asks \cup {NoAsk}, answer : {0, 200, 401, 404}]
      BY <2>0, <2>a, <2>d, <3>1 DEF Conn
    <3>3. conn' = [conn EXCEPT ![c] = new]
      BY <2>c, <3>1, Zenon
    <3> QED
      BY <1>0, <3>2, <3>3 DEF Replaced
  <2>4. Admitted(c)'
    BY <2>0, <2>1, <2>3 DEF ServingInv, Guarded, Admitted, Replaced
  <2> QED
    BY <1>0, <2>1, <2>b, <2>d, <2>3, <2>4, RecordInvariant DEF Replaced
<1> QED
  BY <1>1, <1>2, <1>3, <1>4, <1>5, <1>6 DEF ConnectionStep

\* Every step keeps the invariant.
LEMMA ServingStepInvariant == ServingInv /\ [ServingNext]_servingVars => ServingInv'
<1> SUFFICES ASSUME ServingInv, [ServingNext]_servingVars PROVE ServingInv'
  OBVIOUS
<1>1. CASE AcceptFails \/ Signal
  BY <1>1, LoopInvariant DEF AcceptFails, Signal, tokenVars, ServingInv, Late
<1>2. CASE BackOffEnds
  BY <1>2, LoopInvariant DEF BackOffEnds, tokenVars, ServingInv, Late
<1>3. CASE Shutdown \/ Drained
  BY <1>3, LoopInvariant DEF Shutdown, Drained, Stop, tokenVars, ServingInv, Late
<1>4. CASE UNCHANGED servingVars
  BY <1>4, LoopInvariant DEF servingVars, tokenVars, ServingInv, Late
<1>5. ASSUME NEW c \in Clients, Accept(c) PROVE ServingInv'
  BY <1>5, ConnectionInvariant
<1>6. ASSUME NEW c \in Clients,
             \/ ConnectionStep(c) \/ Connect(c) \/ Handshake(c) \/ Hangup(c)
             \/ Begin(c) \/ Send(c) \/ Receive(c)
             \/ \E ask \in Asks : Ask(c, ask)
      PROVE  ServingInv'
  BY <1>6, ConnectionInvariant
<1> QED
  BY <1>1, <1>2, <1>3, <1>4, <1>5, <1>6, BootInvariant, BootTokensInvariant,
     RotateInvariant, ReloadInvariant DEF ServingNext, ServerStep

\* The induction invariant.
THEOREM ServingInvariant == ServingSpec => []ServingInv
BY ServingInitInvariant, ServingStepInvariant, PTL DEF ServingSpec

\* However often the token file is replaced while a request is on its way, what
\* is not health is only told for a token that was in use since the request
\* came (require_bearer).
THEOREM ServingNeedsToken == ServingSpec => []ContentNeedsToken
<1>1. ServingInv => ContentNeedsToken
  <2> SUFFICES ASSUME ServingInv, NEW c \in Clients, conn[c].answer # 0, flags.token_file
               PROVE  IF conn[c].ask.path \in HealthPaths THEN conn[c].answer = 200
                      ELSE conn[c].answer # 401 => Bearer(conn[c].ask) \cap during[c] # {}
    BY DEF ContentNeedsToken, Served
  <2>1. conn[c].answer \in {200, 401, 404}
    BY DEF ServingInv, Connections
  <2> QED
    BY <2>1 DEF ServingInv, Guarded, Admitted
<1> QED
  BY <1>1, ServingInvariant, PTL

\* No client is answered by a program whose certificate, key or tokens are
\* missing or bad, although the port is bound before the certificate is read
\* (main, secure::acceptor, secure::tokens).
THEOREM ServingStartsWhole == ServingSpec => []BadFilesNeverServe
<1>1. ServingInv => BadFilesNeverServe
  <2> SUFFICES ASSUME ServingInv, NEW c \in Clients, conn[c].answer # 0
               PROVE  /\ <<flags.cert, flags.key>> \in {<<"none", "none">>, <<"good", "good">>}
                      /\ flags.token_file => InUse # {}
    BY DEF BadFilesNeverServe, Served
  <2>1. Serving /\ boot = 6
    BY StartupSteps DEF ServingInv, Late, Serving
  <2> QED
    BY <2>1 DEF ServingInv, Started, Tls
<1> QED
  BY <1>1, ServingInvariant, PTL
=============================================================================
