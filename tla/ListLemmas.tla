------------------------------ MODULE ListLemmas ------------------------------
(***************************************************************************)
(* Facts about numbers, sets and sequences that the proofs share: queues   *)
(* of events whose last word on a subject counts, insertions into a queue, *)
(* and the search for an element of a sequence.                            *)
(***************************************************************************)
EXTENDS Integers, SequencesExt, SequenceTheorems, FiniteSetTheorems,
        WellFoundedInduction, TLAPS

-----------------------------------------------------------------------------
(* Least and greatest elements                                             *)

\* A set of naturals has a least element.
LEMMA LeastExists ==
    ASSUME NEW T \in SUBSET Nat, T # {}
    PROVE  \E x \in T : \A y \in T : x <= y
<1> DEFINE Less == {ss \in Nat \X Nat : ss[1] < ss[2]}
<1>1. IsWellFoundedOn(Less, Nat)
  BY NatLessThanWellFounded DEF OpToRel
<1> HIDE DEF Less
<1>2. PICK x \in T : \A y \in T : <<y, x>> \notin Less
  BY <1>1, WFMin
<1>3. \A y \in T : ~ (y < x)
  BY <1>2 DEF Less
<1>4. \A y \in T : x <= y
  BY <1>3
<1> QED
  BY <1>4

\* A set of positions has a greatest element.
LEMMA GreatestExists ==
    ASSUME NEW n \in Nat, NEW T \in SUBSET (1 .. n), T # {}
    PROVE  \E x \in T : \A y \in T : y <= x
<1> DEFINE S == {m \in Nat : \E x \in T : m = n - x}
<1>1. S # {}
  <2>1. PICK x \in T : TRUE
    OBVIOUS
  <2>2. n - x \in S
    BY <2>1
  <2> QED
    BY <2>2
<1>2. PICK m \in S : \A y \in S : m <= y
  BY <1>1, LeastExists
<1>3. PICK x \in T : m = n - x
  OBVIOUS
<1>4. ASSUME NEW y \in T PROVE y <= x
  <2>1. n - y \in S
    OBVIOUS
  <2>2. m <= n - y
    BY <1>2, <2>1
  <2> QED
    BY <1>3, <2>2
<1> QED
  BY <1>4

\* Min picks the least of a set of positions.
LEMMA MinIsLeast ==
    ASSUME NEW n \in Nat, NEW T \in SUBSET (1 .. n), T # {}
    PROVE  Min(T) \in T /\ \A y \in T : Min(T) <= y
<1>1. \E x \in T : \A y \in T : x <= y
  BY LeastExists
<1> QED
  BY <1>1 DEF Min

-----------------------------------------------------------------------------
(* A sequence put into another                                             *)

Insert(q, n, m) == SubSeq(q, 1, n) \o m \o SubSeq(q, n + 1, Len(q))

LEMMA ConcatOfThree ==
    ASSUME NEW S, NEW a \in Seq(S), NEW m \in Seq(S), NEW b \in Seq(S)
    PROVE  /\ a \o m \o b \in Seq(S) /\ Len(a \o m \o b) = Len(a) + Len(m) + Len(b)
           /\ \A i \in 1 .. Len(a) : (a \o m \o b)[i] = a[i]
           /\ \A i \in 1 .. Len(m) : (a \o m \o b)[Len(a) + i] = m[i]
           /\ \A i \in 1 .. Len(b) : (a \o m \o b)[Len(a) + Len(m) + i] = b[i]
<1> DEFINE c == a \o m
           r == c \o b
<1>1. Len(a) \in Nat /\ Len(m) \in Nat /\ Len(b) \in Nat
  BY LenProperties
<1>2. c \in Seq(S)
  BY ConcatProperties
<1>3. /\ Len(c) = Len(a) + Len(m)
      /\ \A i \in 1 .. Len(a) + Len(m) : c[i] = IF i <= Len(a) THEN a[i] ELSE m[i - Len(a)]
  BY ConcatProperties
<1> HIDE DEF c
<1>4. /\ r \in Seq(S) /\ Len(r) = Len(c) + Len(b)
      /\ \A i \in 1 .. Len(c) + Len(b) : r[i] = IF i <= Len(c) THEN c[i] ELSE b[i - Len(c)]
  BY <1>2, ConcatProperties
<1> HIDE DEF r
<1>5. ASSUME NEW i \in 1 .. Len(a) PROVE r[i] = a[i]
  <2>1. i \in 1 .. Len(c) /\ i \in 1 .. Len(c) + Len(b) /\ i <= Len(a)
    BY <1>1, <1>3
  <2> QED
    BY <1>3, <1>4, <2>1
<1>6. ASSUME NEW i \in 1 .. Len(m) PROVE r[Len(a) + i] = m[i]
  <2>1. /\ Len(a) + i \in 1 .. Len(c) /\ Len(a) + i \in 1 .. Len(c) + Len(b)
        /\ ~ (Len(a) + i <= Len(a)) /\ Len(a) + i - Len(a) = i /\ Len(a) + i <= Len(c)
    BY <1>1, <1>3
  <2> QED
    BY <1>3, <1>4, <2>1
<1>7. ASSUME NEW i \in 1 .. Len(b) PROVE r[Len(a) + Len(m) + i] = b[i]
  <2>1. /\ Len(c) + i \in 1 .. Len(c) + Len(b) /\ ~ (Len(c) + i <= Len(c))
        /\ Len(c) + i - Len(c) = i
    BY <1>1, <1>3
  <2> QED
    BY <1>3, <1>4, <2>1
<1> QED
  BY <1>3, <1>4, <1>5, <1>6, <1>7 DEF r, c

LEMMA Inserted ==
    ASSUME NEW S, NEW q \in Seq(S), NEW m \in Seq(S), NEW n \in 0 .. Len(q)
    PROVE  /\ Insert(q, n, m) \in Seq(S) /\ Len(Insert(q, n, m)) = Len(q) + Len(m)
           /\ \A i \in 1 .. n : Insert(q, n, m)[i] = q[i]
           /\ \A i \in 1 .. Len(m) : Insert(q, n, m)[n + i] = m[i]
           /\ \A i \in n + 1 .. Len(q) : Insert(q, n, m)[Len(m) + i] = q[i]
<1> DEFINE a == SubSeq(q, 1, n)
           b == SubSeq(q, n + 1, Len(q))
<1>1. n \in Nat /\ Len(q) \in Nat /\ Len(m) \in Nat /\ n <= Len(q)
  BY LenProperties
<1>2. a \in Seq(S) /\ Len(a) = n /\ \A i \in 1 .. n : a[i] = q[i]
  <2>1. \A i \in 1 .. n : q[i] \in S
    BY <1>1, ElementOfSeq
  <2> QED
    BY <1>1, <2>1, SubSeqProperties
<1>3. /\ b \in Seq(S) /\ Len(b) = Len(q) - n
      /\ \A i \in 1 .. Len(q) - n : b[i] = q[n + i]
  <2>1. \A i \in n + 1 .. Len(q) : q[i] \in S
    BY <1>1, ElementOfSeq
  <2>2. /\ b \in Seq(S)
        /\ Len(b) = IF n + 1 <= Len(q) THEN Len(q) - (n + 1) + 1 ELSE 0
        /\ \A i \in 1 .. Len(q) - (n + 1) + 1 : b[i] = q[n + 1 + i - 1]
    BY <1>1, <2>1, SubSeqProperties
  <2> QED
    BY <1>1, <2>2
<1>4. Insert(q, n, m) = a \o m \o b
  BY DEF Insert
<1> HIDE DEF a, b
<1> DEFINE r == Insert(q, n, m)
<1>5. /\ r \in Seq(S) /\ Len(r) = n + Len(m) + (Len(q) - n)
      /\ \A i \in 1 .. n : r[i] = a[i]
      /\ \A i \in 1 .. Len(m) : r[n + i] = m[i]
      /\ \A i \in 1 .. Len(q) - n : r[n + Len(m) + i] = b[i]
  <2>1. /\ a \o m \o b \in Seq(S) /\ Len(a \o m \o b) = Len(a) + Len(m) + Len(b)
        /\ \A i \in 1 .. Len(a) : (a \o m \o b)[i] = a[i]
        /\ \A i \in 1 .. Len(m) : (a \o m \o b)[Len(a) + i] = m[i]
        /\ \A i \in 1 .. Len(b) : (a \o m \o b)[Len(a) + Len(m) + i] = b[i]
    <3>1. a \in Seq(S) /\ b \in Seq(S)
      BY <1>2, <1>3
    <3> QED
      BY <3>1, ConcatOfThree
  <2> QED
    BY <1>2, <1>3, <1>4, <2>1
<1> HIDE DEF r
<1>6. ASSUME NEW i \in n + 1 .. Len(q) PROVE r[Len(m) + i] = q[i]
  <2>1. i - n \in 1 .. Len(q) - n /\ n + Len(m) + (i - n) = Len(m) + i /\ n + (i - n) = i
    BY <1>1
  <2>2. r[n + Len(m) + (i - n)] = b[i - n] /\ b[i - n] = q[n + (i - n)]
    BY <1>3, <1>5, <2>1
  <2> QED
    BY <2>1, <2>2
<1> QED
  BY <1>1, <1>2, <1>5, <1>6 DEF r

-----------------------------------------------------------------------------
(* The last word of a queue on a subject                                   *)

\* No element of the queue q is about the subject, that is, in A.
NoneIn(q, A) == \A i \in 1 .. Len(q) : q[i] \notin A

\* The last element of q that is about the subject is in G: it is up to date.
LastIn(q, A, G) ==
    \A i \in 1 .. Len(q) :
        q[i] \in A /\ (\A j \in i + 1 .. Len(q) : q[j] \notin A) => q[i] \in G

LEMMA LastOfEmpty == ASSUME NEW A, NEW G PROVE LastIn(<<>>, A, G)
BY EmptySeq DEF LastIn

\* An element about something else changes nothing ...
LEMMA LastAppendOther ==
    ASSUME NEW S, NEW q \in Seq(S), NEW A, NEW G, NEW x \in S, x \notin A, LastIn(q, A, G)
    PROVE  LastIn(Append(q, x), A, G) /\ (NoneIn(Append(q, x), A) => NoneIn(q, A))
<1> DEFINE r == Append(q, x)
<1>1. Len(r) = Len(q) + 1 /\ r[Len(q) + 1] = x /\ \A i \in 1 .. Len(q) : r[i] = q[i]
  BY AppendProperties
<1> HIDE DEF r
<1>2. Len(q) \in Nat
  BY LenProperties
<1>3. ASSUME NEW i \in 1 .. Len(r), r[i] \in A, \A j \in i + 1 .. Len(r) : r[j] \notin A
      PROVE  r[i] \in G
  <2>1. i \in 1 .. Len(q) /\ q[i] \in A
    BY <1>1, <1>2, <1>3
  <2>2. \A j \in i + 1 .. Len(q) : q[j] \notin A
    BY <1>1, <1>2, <1>3, <2>1
  <2> QED
    BY <1>1, <2>1, <2>2 DEF LastIn
<1> QED
  BY <1>1, <1>2, <1>3 DEF r, LastIn, NoneIn

\* ... and one that is up to date is the last word, whatever was before.
LEMMA LastAppendGood ==
    ASSUME NEW S, NEW q \in Seq(S), NEW A, NEW G, NEW x \in S, x \in A, x \in G
    PROVE  LastIn(Append(q, x), A, G) /\ ~ NoneIn(Append(q, x), A)
<1> DEFINE r == Append(q, x)
<1>1. Len(r) = Len(q) + 1 /\ r[Len(q) + 1] = x
  BY AppendProperties
<1> HIDE DEF r
<1>2. Len(q) \in Nat
  BY LenProperties
<1>3. \A i \in 1 .. Len(r) : i = Len(q) + 1 \/ Len(q) + 1 \in i + 1 .. Len(r)
  BY <1>1, <1>2
<1> QED
  BY <1>1, <1>2, <1>3 DEF r, LastIn, NoneIn

\* The first element can go; if it was the only one about the subject, it was the
\* last word.
LEMMA LastOfTail ==
    ASSUME NEW S, NEW q \in Seq(S), q # <<>>, NEW A, NEW G, LastIn(q, A, G)
    PROVE  /\ LastIn(Tail(q), A, G)
           /\ Head(q) \in A /\ NoneIn(Tail(q), A) => Head(q) \in G
           /\ Head(q) \notin A /\ NoneIn(Tail(q), A) => NoneIn(q, A)
<1> DEFINE r == Tail(q)
<1>1. Len(q) \in Nat /\ Len(q) >= 1
  BY LenProperties, EmptySeq
<1>2. /\ Len(r) = Len(q) - 1 /\ Head(q) = q[1]
      /\ \A i \in 1 .. Len(q) - 1 : r[i] = q[i + 1]
  BY HeadTailProperties
<1> HIDE DEF r
<1>3. \A j \in 2 .. Len(q) : j - 1 \in 1 .. Len(r) /\ q[j] = r[j - 1]
  BY <1>1, <1>2
<1>4. ASSUME NEW i \in 1 .. Len(r), r[i] \in A, \A j \in i + 1 .. Len(r) : r[j] \notin A
      PROVE  r[i] \in G
  <2>1. i + 1 \in 1 .. Len(q) /\ q[i + 1] = r[i]
    BY <1>1, <1>2
  <2>2. ASSUME NEW j \in (i + 1) + 1 .. Len(q) PROVE q[j] \notin A
    <3>1. j - 1 \in i + 1 .. Len(r) /\ j \in 2 .. Len(q)
      BY <1>1, <1>2
    <3> QED
      BY <1>3, <1>4, <3>1
  <2> QED
    BY <1>4, <2>1, <2>2 DEF LastIn
<1>5. ASSUME NoneIn(r, A) PROVE \A j \in 2 .. Len(q) : q[j] \notin A
  BY <1>3, <1>5 DEF NoneIn
<1>6. Head(q) \in A /\ NoneIn(r, A) => Head(q) \in G
  BY <1>1, <1>2, <1>5 DEF LastIn
<1>7. Head(q) \notin A /\ NoneIn(r, A) => NoneIn(q, A)
  BY <1>1, <1>2, <1>5 DEF NoneIn
<1> QED
  BY <1>4, <1>6, <1>7 DEF r, LastIn

\* Elements that are up to date can be put anywhere into the queue.
LEMMA LastOfInserted ==
    ASSUME NEW S, NEW q \in Seq(S), NEW m \in Seq(S), NEW n \in 0 .. Len(q),
           NEW A, NEW G, LastIn(q, A, G), \A i \in 1 .. Len(m) : m[i] \in A => m[i] \in G
    PROVE  /\ LastIn(Insert(q, n, m), A, G)
           /\ NoneIn(Insert(q, n, m), A) => NoneIn(m, A)
<1> DEFINE r == Insert(q, n, m)
<1>1. n \in Nat /\ Len(q) \in Nat /\ Len(m) \in Nat /\ n <= Len(q)
  BY LenProperties
<1>2. /\ r \in Seq(S) /\ Len(r) = Len(q) + Len(m)
      /\ \A i \in 1 .. n : r[i] = q[i]
      /\ \A i \in 1 .. Len(m) : r[n + i] = m[i]
      /\ \A i \in n + 1 .. Len(q) : r[Len(m) + i] = q[i]
  BY Inserted
<1> HIDE DEF r
<1>3. ASSUME NEW i \in 1 .. Len(r), r[i] \in A, \A j \in i + 1 .. Len(r) : r[j] \notin A
      PROVE  r[i] \in G
  <2>1. \A j \in n + 1 .. Len(q) : Len(m) + j > i => q[j] \notin A
    <3> SUFFICES ASSUME NEW j \in n + 1 .. Len(q), Len(m) + j > i PROVE q[j] \notin A
      OBVIOUS
    <3>1. Len(m) + j \in i + 1 .. Len(r)
      BY <1>1, <1>2
    <3> QED
      BY <1>2, <1>3, <3>1
  <2>2. CASE i <= n
    <3>1. i \in 1 .. Len(q) /\ q[i] \in A /\ r[i] = q[i]
      BY <1>1, <1>2, <1>3, <2>2
    <3>2. ASSUME NEW j \in i + 1 .. Len(q) PROVE q[j] \notin A
      <4>1. CASE j <= n
        <5>1. j \in 1 .. n /\ j \in i + 1 .. Len(r)
          BY <1>1, <1>2, <4>1
        <5> QED
          BY <1>2, <1>3, <5>1
      <4>2. CASE j > n
        <5>1. j \in n + 1 .. Len(q) /\ Len(m) + j > i
          BY <1>1, <2>2, <4>2
        <5> QED
          BY <2>1, <5>1
      <4> QED
        BY <1>1, <4>1, <4>2
    <3> QED
      BY <3>1, <3>2 DEF LastIn
  <2>3. CASE i > n /\ i <= n + Len(m)
    <3>1. i - n \in 1 .. Len(m) /\ n + (i - n) = i
      BY <1>1, <2>3
    <3>2. r[i] = m[i - n]
      BY <1>2, <3>1
    <3> QED
      BY <1>3, <3>1, <3>2
  <2>4. CASE i > n + Len(m)
    <3> DEFINE k == i - Len(m)
    <3>1. k \in n + 1 .. Len(q) /\ k \in 1 .. Len(q) /\ Len(m) + k = i
      BY <1>1, <1>2, <2>4
    <3>2. r[i] = q[k]
      BY <1>2, <3>1
    <3>3. ASSUME NEW j \in k + 1 .. Len(q) PROVE q[j] \notin A
      <4>1. j \in n + 1 .. Len(q) /\ Len(m) + j > i
        BY <1>1, <3>1
      <4> QED
        BY <2>1, <4>1
    <3> QED
      BY <1>3, <3>1, <3>2, <3>3 DEF LastIn
  <2> QED
    BY <1>1, <2>2, <2>3, <2>4
<1>4. ASSUME NoneIn(r, A), NEW i \in 1 .. Len(m) PROVE m[i] \notin A
  <2>1. n + i \in 1 .. Len(r)
    BY <1>1, <1>2
  <2> QED
    BY <1>2, <1>4, <2>1 DEF NoneIn
<1> QED
  BY <1>3, <1>4 DEF r, LastIn, NoneIn

\* A queue that says something has a last word.
LEMMA LastExists ==
    ASSUME NEW S, NEW q \in Seq(S), NEW A, NEW G, LastIn(q, A, G), ~ NoneIn(q, A)
    PROVE  \E i \in 1 .. Len(q) : q[i] \in A /\ q[i] \in G
<1> DEFINE T == {i \in 1 .. Len(q) : q[i] \in A}
<1>1. T # {} /\ Len(q) \in Nat
  BY LenProperties DEF NoneIn
<1>2. PICK i \in T : \A j \in T : j <= i
  BY <1>1, GreatestExists
<1>3. ASSUME NEW j \in i + 1 .. Len(q) PROVE q[j] \notin A
  <2>1. j \in 1 .. Len(q) /\ ~ (j <= i)
    BY <1>1
  <2> QED
    BY <1>2, <2>1
<1> QED
  BY <1>2, <1>3 DEF LastIn

-----------------------------------------------------------------------------
(* A set as a sequence                                                     *)

\* SetToSeq lists a finite set, leaving nothing out.
LEMMA SetListed ==
    ASSUME NEW T, IsFiniteSet(T)
    PROVE  /\ SetToSeq(T) \in Seq(T)
           /\ \A x \in T : \E i \in 1 .. Len(SetToSeq(T)) : SetToSeq(T)[i] = x
<1> DEFINE n == Cardinality(T)
           q == SetToSeq(T)
<1>1. n \in Nat /\ ExistsBijection(1 .. n, T)
  BY FS_CardinalityType
<1>2. \E f \in [1 .. n -> T] : IsInjective(f)
  BY <1>1 DEF ExistsBijection, Bijection, Injection
<1>3. q \in [1 .. n -> T] /\ IsInjective(q)
  BY <1>2 DEF SetToSeq
<1>4. q \in Seq(T) /\ Len(q) = n
  BY <1>1, <1>3
<1>5. q \in Surjection(1 .. n, T)
  <2>1. q \in Injection(1 .. n, T)
    BY <1>3 DEF Injection
  <2>2. IsFiniteSet(1 .. n) /\ Cardinality(1 .. n) = n
    BY <1>1, FS_Interval
  <2> QED
    BY <2>1, <2>2, FS_Injection
<1> QED
  BY <1>4, <1>5 DEF Surjection
=============================================================================
