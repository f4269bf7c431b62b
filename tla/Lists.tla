-------------------------------- MODULE Lists --------------------------------
(***************************************************************************)
(* Sequences that list the elements of a set, each once: the queues that   *)
(* requests wait in.  What a push, a shift and a removal make of such a    *)
(* list, and how long it is.  And the least and the greatest of some       *)
(* numbers.                                                                *)
(***************************************************************************)
EXTENDS Integers, SequencesExt, FiniteSetTheorems, SequenceTheorems, NaturalsInduction, TLAPS

\* s lists the elements of T, which are among S.
Lists(S, s, T) ==
  /\ s \in Seq(S)
  /\ T \subseteq S
  /\ \A k \in S : k \in T <=> \E i \in DOMAIN s : s[i] = k
  /\ \A i, j \in DOMAIN s : s[i] = s[j] => i = j

LEMMA EmptyList == \A S : Lists(S, <<>>, {})
BY DEF Lists

\* The queue's push, and the end of musicBrainzTail.
LEMMA AppendedList ==
  ASSUME NEW S, NEW s, NEW T, Lists(S, s, T), NEW k \in S, k \notin T
  PROVE  Lists(S, Append(s, k), T \cup {k})
<1> DEFINE t == Append(s, k)
<1>1. s \in Seq(S) /\ DOMAIN s = 1..Len(s) /\ Len(s) \in Nat
  BY LenProperties DEF Lists
<1>2. /\ t \in Seq(S) /\ Len(t) = Len(s) + 1 /\ DOMAIN t = 1..(Len(s) + 1)
      /\ \A i \in 1..Len(s) : t[i] = s[i]
      /\ t[Len(s) + 1] = k
  BY <1>1, AppendProperties, LenProperties
<1>3. \A i \in DOMAIN s : s[i] # k
  BY DEF Lists
<1> HIDE DEF t
<1>4. \A j \in S : j \in T \cup {k} <=> \E i \in DOMAIN t : t[i] = j
  <2> SUFFICES ASSUME NEW j \in S PROVE j \in T \cup {k} <=> \E i \in DOMAIN t : t[i] = j
    OBVIOUS
  <2>1. CASE j = k
    BY <1>1, <1>2, <2>1
  <2>2. CASE j # k
    <3>1. ASSUME NEW i \in DOMAIN t, t[i] = j PROVE i \in DOMAIN s /\ s[i] = j
      BY <1>1, <1>2, <2>2, <3>1
    <3>2. ASSUME NEW i \in DOMAIN s, s[i] = j PROVE i \in DOMAIN t /\ t[i] = j
      BY <1>1, <1>2, <3>2
    <3> QED
      BY <2>2, <3>1, <3>2 DEF Lists
  <2> QED
    BY <2>1, <2>2
<1>5. \A i, j \in DOMAIN t : t[i] = t[j] => i = j
  <2> SUFFICES ASSUME NEW i \in DOMAIN t, NEW j \in DOMAIN t, t[i] = t[j] PROVE i = j
    OBVIOUS
  <2>1. CASE i \in DOMAIN s /\ j \in DOMAIN s
    BY <1>1, <1>2, <2>1 DEF Lists
  <2>2. CASE i \notin DOMAIN s \/ j \notin DOMAIN s
    BY <1>1, <1>2, <1>3, <2>2
  <2> QED
    BY <2>1, <2>2
<1> QED
  BY <1>2, <1>4, <1>5 DEF Lists, t

\* The queue's shift, and the end of the first one's wait.
LEMMA TailOfList ==
  ASSUME NEW S, NEW s, NEW T, Lists(S, s, T), s # <<>>
  PROVE  Head(s) \in T /\ Lists(S, Tail(s), T \ {Head(s)})
<1> DEFINE t == Tail(s)
<1>1. s \in Seq(S) /\ DOMAIN s = 1..Len(s) /\ Len(s) \in Nat \ {0}
  BY LenProperties, EmptySeq DEF Lists
<1>2. /\ t \in Seq(S) /\ Len(t) = Len(s) - 1 /\ DOMAIN t = 1..(Len(s) - 1)
      /\ \A i \in 1..(Len(s) - 1) : t[i] = s[i + 1]
  BY <1>1, HeadTailProperties, LenProperties
<1>3. Head(s) = s[1] /\ Head(s) \in S
  BY <1>1, HeadTailProperties
<1> HIDE DEF t
<1>4. Head(s) \in T
  BY <1>1, <1>3 DEF Lists
<1>5. \A k \in S : k \in T \ {Head(s)} <=> \E i \in DOMAIN t : t[i] = k
  <2> SUFFICES ASSUME NEW k \in S PROVE k \in T \ {Head(s)} <=> \E i \in DOMAIN t : t[i] = k
    OBVIOUS
  <2>1. ASSUME NEW i \in DOMAIN t, t[i] = k PROVE k \in T \ {Head(s)}
    <3>1. i + 1 \in DOMAIN s /\ 1 \in DOMAIN s /\ i + 1 # 1 /\ s[i + 1] = k
      BY <1>1, <1>2, <2>1
    <3> QED
      BY <1>3, <3>1 DEF Lists
  <2>2. ASSUME k \in T \ {Head(s)} PROVE \E i \in DOMAIN t : t[i] = k
    <3>1. PICK i \in DOMAIN s : s[i] = k
      BY <2>2 DEF Lists
    <3>2. i # 1
      BY <1>3, <2>2, <3>1
    <3>3. i - 1 \in DOMAIN t /\ t[i - 1] = k
      BY <1>1, <1>2, <3>1, <3>2
    <3> QED
      BY <3>3
  <2> QED
    BY <2>1, <2>2
<1>6. \A i, j \in DOMAIN t : t[i] = t[j] => i = j
  <2> SUFFICES ASSUME NEW i \in DOMAIN t, NEW j \in DOMAIN t, t[i] = t[j] PROVE i = j
    OBVIOUS
  <2>1. i + 1 \in DOMAIN s /\ j + 1 \in DOMAIN s /\ s[i + 1] = s[j + 1] /\ i \in Int /\ j \in Int
    BY <1>1, <1>2
  <2>2. i + 1 = j + 1
    BY <2>1 DEF Lists
  <2> QED
    BY <2>1, <2>2
<1> QED
  BY <1>2, <1>4, <1>5, <1>6 DEF Lists, t

\* The queue's splice, when a flight that waits in it is aborted.
LEMMA RemovedFromList ==
  ASSUME NEW S, NEW s, NEW T, Lists(S, s, T), NEW k \in T
  PROVE  Lists(S, RemoveAt(s, CHOOSE i \in DOMAIN s : s[i] = k), T \ {k})
<1> DEFINE m == CHOOSE i \in DOMAIN s : s[i] = k
           t == RemoveAt(s, m)
           n == Len(s)
<1>1. s \in Seq(S) /\ DOMAIN s = 1..n /\ n \in Nat /\ k \in S
  BY LenProperties DEF Lists
<1>2. m \in 1..n /\ s[m] = k
  BY <1>1 DEF Lists
<1> HIDE DEF m, n
<1>3. /\ SubSeq(s, 1, m - 1) \in Seq(S) /\ Len(SubSeq(s, 1, m - 1)) = m - 1
      /\ \A i \in 1..(m - 1) : SubSeq(s, 1, m - 1)[i] = s[i]
  <2>1. \A i \in 1..(m - 1) : s[i] \in S
    BY <1>1, <1>2, ElementOfSeq
  <2>2. m - 1 \in Int /\ 1 \in Int
    BY <1>2
  <2>3. /\ SubSeq(s, 1, m - 1) \in Seq(S)
        /\ Len(SubSeq(s, 1, m - 1)) = IF 1 <= m - 1 THEN (m - 1) - 1 + 1 ELSE 0
        /\ \A i \in 1..((m - 1) - 1 + 1) : SubSeq(s, 1, m - 1)[i] = s[1 + i - 1]
    BY <2>1, <2>2, SubSeqProperties
  <2> QED
    BY <1>1, <1>2, <2>3
<1>4. /\ SubSeq(s, m + 1, n) \in Seq(S) /\ Len(SubSeq(s, m + 1, n)) = n - m
      /\ \A i \in 1..(n - m) : SubSeq(s, m + 1, n)[i] = s[m + i]
  <2>1. \A i \in (m + 1)..n : s[i] \in S
    BY <1>1, <1>2, ElementOfSeq
  <2>2. m + 1 \in Int /\ n \in Int
    BY <1>1, <1>2
  <2> DEFINE b == SubSeq(s, m + 1, n)
  <2>3. /\ b \in Seq(S)
        /\ Len(b) = IF m + 1 <= n THEN n - (m + 1) + 1 ELSE 0
        /\ \A i \in 1..(n - (m + 1) + 1) : b[i] = s[(m + 1) + i - 1]
    BY <2>1, <2>2, SubSeqProperties
  <2> HIDE DEF b
  <2>4. Len(b) = n - m
    BY <1>1, <1>2, <2>3
  <2>5. ASSUME NEW i \in 1..(n - m) PROVE b[i] = s[m + i]
    <3>1. i \in 1..(n - (m + 1) + 1) /\ (m + 1) + i - 1 = m + i
      BY <1>1, <1>2
    <3> QED
      BY <2>3, <3>1
  <2> QED
    BY <2>3, <2>4, <2>5 DEF b
<1>5. /\ t \in Seq(S) /\ Len(t) = n - 1
      /\ \A i \in 1..(n - 1) : t[i] = IF i <= m - 1 THEN s[i] ELSE s[i + 1]
  <2> DEFINE a == SubSeq(s, 1, m - 1)  b == SubSeq(s, m + 1, n)
  <2>1. /\ a \o b \in Seq(S)
        /\ Len(a \o b) = Len(a) + Len(b)
        /\ \A i \in 1..(Len(a) + Len(b)) : (a \o b)[i] = IF i <= Len(a) THEN a[i] ELSE b[i - Len(a)]
    BY <1>3, <1>4, ConcatProperties
  <2>2. t = a \o b
    BY DEF RemoveAt, n
  <2> HIDE DEF a, b, t
  <2>3. Len(a) = m - 1 /\ Len(b) = n - m
    BY <1>3, <1>4 DEF a, b
  <2>4. ASSUME NEW i \in 1..(n - 1) PROVE t[i] = IF i <= m - 1 THEN s[i] ELSE s[i + 1]
    <3>1. CASE i <= m - 1
      <4>1. i \in 1..(m - 1)
        BY <1>1, <1>2, <3>1
      <4>2. a[i] = s[i]
        BY <1>3, <4>1 DEF a
      <4> QED
        BY <1>1, <1>2, <2>1, <2>2, <2>3, <3>1, <4>2
    <3>2. CASE ~(i <= m - 1)
      <4>1. i - (m - 1) \in 1..(n - m) /\ m + (i - (m - 1)) = i + 1
        BY <1>1, <1>2, <3>2
      <4>2. b[i - (m - 1)] = s[i + 1]
        BY <1>4, <4>1 DEF b
      <4> QED
        BY <1>1, <1>2, <2>1, <2>2, <2>3, <3>2, <4>2
    <3> QED
      BY <3>1, <3>2
  <2>5. t \in Seq(S) /\ Len(t) = n - 1
    <3>1. (m - 1) + (n - m) = n - 1
      BY <1>1, <1>2
    <3> QED
      BY <2>1, <2>2, <2>3, <3>1, Zenon
  <2> QED
    BY <2>4, <2>5
<1> HIDE DEF t
<1>6. DOMAIN t = 1..(n - 1)
  BY <1>5, LenProperties
<1>7. \A j \in S : j \in T \ {k} <=> \E i \in DOMAIN t : t[i] = j
  <2> SUFFICES ASSUME NEW j \in S PROVE j \in T \ {k} <=> \E i \in DOMAIN t : t[i] = j
    OBVIOUS
  <2>1. ASSUME NEW i \in DOMAIN t, t[i] = j PROVE j \in T \ {k}
    <3>1. \E l \in DOMAIN s : s[l] = j /\ l # m
      <4>1. CASE i <= m - 1
        BY <1>1, <1>2, <1>5, <1>6, <2>1, <4>1
      <4>2. CASE ~(i <= m - 1)
        <5>1. i + 1 \in DOMAIN s /\ s[i + 1] = j /\ i + 1 # m
          BY <1>1, <1>2, <1>5, <1>6, <2>1, <4>2
        <5> QED
          BY <5>1
      <4> QED
        BY <4>1, <4>2
    <3> QED
      BY <1>1, <1>2, <3>1 DEF Lists
  <2>2. ASSUME j \in T \ {k} PROVE \E i \in DOMAIN t : t[i] = j
    <3>1. PICK l \in DOMAIN s : s[l] = j
      BY <2>2 DEF Lists
    <3>2. l # m
      BY <1>2, <2>2, <3>1
    <3>3. CASE l < m
      BY <1>1, <1>2, <1>5, <1>6, <3>1, <3>3
    <3>4. CASE l > m
      <4>1. l - 1 \in 1..(n - 1) /\ ~(l - 1 <= m - 1) /\ (l - 1) + 1 = l
        BY <1>1, <1>2, <3>1, <3>4
      <4>2. t[l - 1] = s[l]
        BY <1>5, <4>1
      <4> QED
        BY <1>6, <3>1, <4>1, <4>2
    <3> QED
      BY <1>1, <1>2, <3>1, <3>2, <3>3, <3>4
  <2> QED
    BY <2>1, <2>2
<1>8. \A i, j \in DOMAIN t : t[i] = t[j] => i = j
  <2> SUFFICES ASSUME NEW i \in DOMAIN t, NEW j \in DOMAIN t, t[i] = t[j] PROVE i = j
    OBVIOUS
  <2> DEFINE Was(l) == IF l <= m - 1 THEN l ELSE l + 1
  <2>1. /\ Was(i) \in DOMAIN s /\ Was(j) \in DOMAIN s
        /\ s[Was(i)] = t[i] /\ s[Was(j)] = t[j]
    BY <1>1, <1>2, <1>5, <1>6
  <2>2. Was(i) = Was(j)
    BY <2>1 DEF Lists
  <2> QED
    BY <1>1, <1>2, <1>6, <2>2
<1> QED
  BY <1>5, <1>7, <1>8 DEF Lists, t, m

\* A list is as long as its set is large.
LEMMA LengthOfList ==
  ASSUME NEW S, NEW s, NEW T, Lists(S, s, T)
  PROVE  IsFiniteSet(T) /\ Cardinality(T) = Len(s)
<1>1. s \in Seq(S) /\ DOMAIN s = 1..Len(s) /\ Len(s) \in Nat
  BY LenProperties DEF Lists
<1> DEFINE n == Len(s)
           entry == [i \in 1..n |-> s[i]]
<1>2. entry \in Bijection(1..n, T)
  <2>1. \A i \in 1..n : s[i] \in T
    BY <1>1, ElementOfSeq DEF Lists
  <2> QED
    BY <1>1, <2>1 DEF Lists, Bijection, Injection, Surjection, IsInjective
<1> HIDE DEF n, entry
<1>3. IsFiniteSet(1..n) /\ Cardinality(1..n) = n
  <2>1. 1 \in Int /\ n \in Nat
    BY <1>1 DEF n
  <2>2. IsFiniteSet(1..n) /\ Cardinality(1..n) = IF 1 > n THEN 0 ELSE n - 1 + 1
    BY <2>1, FS_Interval
  <2> QED
    BY <2>1, <2>2
<1>4. IsFiniteSet(T) /\ Cardinality(T) = Cardinality(1..n)
  BY <1>2, <1>3, FS_Bijection DEF ExistsBijection
<1> QED
  BY <1>3, <1>4 DEF n

-----------------------------------------------------------------------------
(* The least and the greatest of a set of numbers *)

LEMMA LeastOf ==
  ASSUME NEW S \in SUBSET Nat, S # {}
  PROVE  \E x \in S : \A y \in S : x <= y
<1>1. PICK x \in S : \A y \in S : ~(<<y, x>> \in OpToRel(<, Nat))
  BY NatLessThanWellFounded, WFMin
<1>2. \A y \in S : ~(y < x)
  BY <1>1 DEF OpToRel
<1>3. \A y \in S : y \in Nat
  OBVIOUS
<1> QED
  BY <1>2, <1>3

\* The greatest is the one that the fewest are beyond.
Beyond(S, x) == {y \in S : y > x}
LEMMA GreatestOf ==
  ASSUME NEW S \in SUBSET Nat, IsFiniteSet(S), S # {}
  PROVE  \E x \in S : \A y \in S : x >= y
<1> DEFINE counts == {Cardinality(Beyond(S, x)) : x \in S}
<1>1. ASSUME NEW x \in S PROVE IsFiniteSet(Beyond(S, x)) /\ Cardinality(Beyond(S, x)) \in Nat
  <2>1. Beyond(S, x) \in SUBSET S
    BY DEF Beyond
  <2> QED
    BY <2>1, FS_Subset, FS_CardinalityType
<1>2. PICK n \in counts : \A m \in counts : n <= m
  <2>1. counts \in SUBSET Nat /\ counts # {}
    BY <1>1
  <2> HIDE DEF counts
  <2> QED
    BY <2>1, LeastOf
<1>3. PICK x \in S : n = Cardinality(Beyond(S, x))
  OBVIOUS
<1>4. ASSUME NEW y \in S, y > x PROVE FALSE
  <2>1. Beyond(S, y) \in SUBSET Beyond(S, x) /\ y \in Beyond(S, x) /\ y \notin Beyond(S, y)
    <3>1. x \in Nat /\ y \in Nat /\ \A z \in S : z \in Nat
      OBVIOUS
    <3>2. \A z \in S : z > y => z > x
      BY <1>4, <3>1
    <3>3. ~(y > y)
      BY <3>1
    <3> QED
      BY <1>4, <3>2, <3>3, Zenon DEF Beyond
  <2>2. Cardinality(Beyond(S, x)) <= Cardinality(Beyond(S, y))
    BY <1>2, <1>3
  <2>3. /\ Cardinality(Beyond(S, y)) <= Cardinality(Beyond(S, x))
        /\ Cardinality(Beyond(S, x)) = Cardinality(Beyond(S, y)) => Beyond(S, x) = Beyond(S, y)
    BY <1>1, <2>1, FS_Subset
  <2>4. Cardinality(Beyond(S, x)) = Cardinality(Beyond(S, y))
    BY <1>1, <2>2, <2>3
  <2> QED
    BY <2>1, <2>3, <2>4
<1>5. \A y \in S : y \in Nat
  OBVIOUS
<1> QED
  BY <1>4, <1>5
=============================================================================
