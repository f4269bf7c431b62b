----------------------------- MODULE SearchProof -----------------------------
(***************************************************************************)
(* For any requests, any answers of the providers in any order, and any    *)
(* limits: a failure is earned, no fallback is skipped, the best results   *)
(* and words are answered, every field has its source, and what several    *)
(* providers found becomes recordings that are apart, each result in one   *)
(* of them, whatever order a provider lists its results in.                *)
(*                                                                         *)
(* What a filter, a sort and the grouping make of a list of any length is  *)
(* said of positions: where each result stands, and which ones begin a     *)
(* group (the heads).                                                      *)
(***************************************************************************)
EXTENDS Search, Lists, FunctionTheorems

(* Orders *)

\* R puts any two of I in one order.
OrderOn(I, R) ==
  /\ \A i \in I : <<i, i>> \notin R
  /\ \A i, j \in I : i # j => <<i, j>> \in R \/ <<j, i>> \in R
  /\ \A i, j, k \in I : <<i, j>> \in R /\ <<j, k>> \in R => <<i, k>> \in R

Before(I, R, i) == {j \in I : <<j, i>> \in R}

\* The number of those before it says where each of a finite set stands.
LEMMA RankOf ==
  ASSUME NEW I, NEW R, IsFiniteSet(I), OrderOn(I, R)
  PROVE  /\ Cardinality(I) \in Nat
         /\ \A i \in I : Cardinality(Before(I, R, i)) \in 0 .. Cardinality(I) - 1
         /\ \A i, j \in I : <<i, j>> \in R <=>
              Cardinality(Before(I, R, i)) < Cardinality(Before(I, R, j))
         /\ \A k \in 1..Cardinality(I) : \E i \in I : Cardinality(Before(I, R, i)) = k - 1
<1> DEFINE n == Cardinality(I)
           rank == [i \in I |-> Cardinality(Before(I, R, i))]
<1>1. n \in Nat
  BY FS_CardinalityType
<1>2. ASSUME NEW i \in I PROVE /\ Before(I, R, i) \in SUBSET I /\ IsFiniteSet(Before(I, R, i))
                               /\ Cardinality(Before(I, R, i)) \in Nat
                               /\ Cardinality(Before(I, R, i)) < n
  <2>1. Before(I, R, i) \in SUBSET I
    BY DEF Before
  <2>2. i \notin Before(I, R, i)
    BY DEF Before, OrderOn
  <2>3. /\ IsFiniteSet(Before(I, R, i)) /\ Cardinality(Before(I, R, i)) <= n
        /\ n = Cardinality(Before(I, R, i)) => I = Before(I, R, i)
    BY <2>1, FS_Subset
  <2>4. Cardinality(Before(I, R, i)) \in Nat
    BY <2>3, FS_CardinalityType
  <2>5. Cardinality(Before(I, R, i)) # n
    BY <2>2, <2>3
  <2> QED
    BY <1>1, <2>1, <2>3, <2>4, <2>5
<1>3. ASSUME NEW i \in I, NEW j \in I, <<i, j>> \in R
      PROVE  Cardinality(Before(I, R, i)) < Cardinality(Before(I, R, j))
  <2>1. Before(I, R, i) \in SUBSET Before(I, R, j)
    BY <1>3 DEF Before, OrderOn
  <2>2. i \in Before(I, R, j) /\ i \notin Before(I, R, i)
    BY <1>3 DEF Before, OrderOn
  <2>3. /\ Cardinality(Before(I, R, i)) <= Cardinality(Before(I, R, j))
        /\ Cardinality(Before(I, R, j)) = Cardinality(Before(I, R, i)) =>
             Before(I, R, j) = Before(I, R, i)
    BY <1>2, <2>1, FS_Subset
  <2>4. Cardinality(Before(I, R, j)) # Cardinality(Before(I, R, i))
    BY <2>2, <2>3
  <2> QED
    BY <1>2, <2>3, <2>4
<1>4. ASSUME NEW i \in I, NEW j \in I,
             Cardinality(Before(I, R, i)) < Cardinality(Before(I, R, j))
      PROVE  <<i, j>> \in R
  <2>1. i # j
    BY <1>2, <1>4
  <2>2. CASE <<j, i>> \in R
    BY <1>2, <1>3, <1>4, <2>2
  <2> QED
    BY <2>1, <2>2 DEF OrderOn
<1>5. rank \in Injection(I, 0 .. n - 1)
  <2>1. rank \in [I -> 0 .. n - 1]
    BY <1>1, <1>2
  <2>2. ASSUME NEW i \in I, NEW j \in I, i # j PROVE rank[i] # rank[j]
    <3>1. CASE <<i, j>> \in R
      BY <1>2, <1>3, <3>1
    <3>2. CASE <<j, i>> \in R
      BY <1>2, <1>3, <3>2
    <3> QED
      BY <2>2, <3>1, <3>2 DEF OrderOn
  <2> HIDE DEF rank
  <2> QED
    BY <2>1, <2>2 DEF Injection, IsInjective
<1>6. IsFiniteSet(0 .. n - 1) /\ Cardinality(0 .. n - 1) = n
  <2>1. 0 \in Int /\ n - 1 \in Int
    BY <1>1
  <2>2. IsFiniteSet(0 .. n - 1) /\ Cardinality(0 .. n - 1) = IF 0 > n - 1 THEN 0 ELSE n - 1 - 0 + 1
    BY <2>1, FS_Interval
  <2> QED
    BY <1>1, <2>2
<1>7. rank \in Surjection(I, 0 .. n - 1)
  <2>1. Cardinality(I) = Cardinality(0 .. n - 1) <=> rank \in Surjection(I, 0 .. n - 1)
    BY <1>5, <1>6, FS_Injection
  <2> QED
    BY <1>6, <2>1
<1>8. ASSUME NEW k \in 1..n PROVE \E i \in I : rank[i] = k - 1
  <2>1. k - 1 \in 0 .. n - 1
    BY <1>1
  <2> QED
    BY <1>7, <2>1 DEF Surjection
<1> QED
  BY <1>1, <1>2, <1>3, <1>4, <1>8

\* What is arranged: a position for each place, in the order asked for.
Places(I, R, at) ==
  /\ at \in [1..Cardinality(I) -> I]
  /\ \A i \in I : \E k \in 1..Cardinality(I) : at[k] = i
  /\ \A k, l \in 1..Cardinality(I) : k < l <=> <<at[k], at[l]>> \in R

LEMMA ArrangedBy ==
  ASSUME NEW S, NEW s, NEW I, NEW R, IsFiniteSet(I), OrderOn(I, R), \A i \in I : s[i] \in S
  PROVE  /\ Cardinality(I) \in Nat
         /\ Arranged(s, I, R) \in Seq(S) /\ Len(Arranged(s, I, R)) = Cardinality(I)
         /\ \E at : /\ Places(I, R, at)
                    /\ \A k \in 1..Cardinality(I) : Arranged(s, I, R)[k] = s[at[k]]
<1> DEFINE n == Cardinality(I)
           at == [k \in 1..n |-> CHOOSE i \in I : Cardinality(Before(I, R, i)) = k - 1]
<1>1. /\ n \in Nat
      /\ \A i \in I : Cardinality(Before(I, R, i)) \in 0 .. n - 1
      /\ \A i, j \in I : <<i, j>> \in R <=>
           Cardinality(Before(I, R, i)) < Cardinality(Before(I, R, j))
      /\ \A k \in 1..n : \E i \in I : Cardinality(Before(I, R, i)) = k - 1
  BY RankOf
<1>2. ASSUME NEW k \in 1..n PROVE at[k] \in I /\ Cardinality(Before(I, R, at[k])) = k - 1
  BY <1>1
<1>3. Arranged(s, I, R) = [k \in 1..n |-> s[at[k]]]
  BY DEF Arranged, Before
<1> HIDE DEF at
<1>4. ASSUME NEW i \in I PROVE \E k \in 1..n : at[k] = i
  <2> DEFINE k == Cardinality(Before(I, R, i)) + 1
  <2>1. k \in 1..n /\ k - 1 = Cardinality(Before(I, R, i))
    BY <1>1
  <2> HIDE DEF k
  <2>2. at[k] \in I /\ Cardinality(Before(I, R, at[k])) = Cardinality(Before(I, R, i))
    BY <1>2, <2>1
  <2>3. <<at[k], i>> \notin R /\ <<i, at[k]>> \notin R
    BY <1>1, <2>2
  <2>4. at[k] = i
    BY <2>2, <2>3 DEF OrderOn
  <2> QED
    BY <2>1, <2>4
<1>5. ASSUME NEW k \in 1..n, NEW l \in 1..n PROVE k < l <=> <<at[k], at[l]>> \in R
  BY <1>1, <1>2
<1>6. at \in [1..n -> I]
  BY <1>2 DEF at
<1> DEFINE t == [k \in 1..n |-> s[at[k]]]
<1>7. /\ t \in Seq(S) /\ Len(t) = n
      /\ \A k \in 1..n : t[k] = s[at[k]]
  <2>1. \A k \in 1..n : s[at[k]] \in S
    BY <1>6
  <2>2. t \in [1..n -> S]
    BY <2>1
  <2> QED
    BY <1>1, <2>2
<1>8. Places(I, R, at)
  BY <1>4, <1>5, <1>6 DEF Places
<1> QED
  BY <1>1, <1>3, <1>7, <1>8

-----------------------------------------------------------------------------
(* Filtering and sorting *)

\* What a filter leaves: the entries at the positions kept, in their order.
LEMMA PickedBy ==
  ASSUME NEW S, NEW s \in Seq(S), NEW I \in SUBSET DOMAIN s
  PROVE  /\ IsFiniteSet(I) /\ Cardinality(I) \in Nat
         /\ Picked(s, I) \in Seq(S) /\ Len(Picked(s, I)) = Cardinality(I)
         /\ \E at \in [1..Cardinality(I) -> I] :
              /\ \A i \in I : \E k \in 1..Cardinality(I) : at[k] = i
              /\ \A k, l \in 1..Cardinality(I) : k < l <=> at[k] < at[l]
              /\ \A k \in 1..Cardinality(I) : Picked(s, I)[k] = s[at[k]]
<1>1. /\ Len(s) \in Nat /\ DOMAIN s = 1..Len(s) /\ \A i \in I : i \in Nat /\ s[i] \in S
  BY LenProperties, ElementOfSeq
<1>2. IsFiniteSet(I)
  <2>1. IsFiniteSet(1..Len(s))
    BY <1>1, FS_Interval
  <2> QED
    BY <1>1, <2>1, FS_Subset
<1>3. \A i, j \in I : <<i, j>> \in Kept(I) <=> i < j
  BY DEF Kept
<1>4. OrderOn(I, Kept(I))
  BY <1>1, <1>3 DEF OrderOn
<1> DEFINE n == Cardinality(I)
<1>5. /\ n \in Nat /\ Picked(s, I) \in Seq(S) /\ Len(Picked(s, I)) = n
      /\ \E at : Places(I, Kept(I), at) /\ \A k \in 1..n : Picked(s, I)[k] = s[at[k]]
  <2> DEFINE R == Kept(I)
  <2>1. \A i \in I : s[i] \in S
    BY <1>1
  <2>2. OrderOn(I, R)
    BY <1>4
  <2>3. Picked(s, I) = Arranged(s, I, R)
    BY DEF Picked
  <2> HIDE DEF R
  <2>4. /\ n \in Nat /\ Arranged(s, I, R) \in Seq(S) /\ Len(Arranged(s, I, R)) = n
        /\ \E at : Places(I, R, at) /\ \A k \in 1..n : Arranged(s, I, R)[k] = s[at[k]]
    BY <1>2, <2>1, <2>2, ArrangedBy
  <2> QED
    BY <2>3, <2>4 DEF R
<1>6. PICK at : Places(I, Kept(I), at) /\ \A k \in 1..n : Picked(s, I)[k] = s[at[k]]
  BY <1>5
<1> HIDE DEF n
<1>7. /\ at \in [1..n -> I]
      /\ \A i \in I : \E k \in 1..n : at[k] = i
      /\ \A k, l \in 1..n : k < l <=> at[k] < at[l]
  BY <1>3, <1>6 DEF Places, n
<1> QED
  BY <1>2, <1>5, <1>6, <1>7 DEF n

\* less says of any three positions what a comparison of entries says.
WeakOrder(s, less) ==
  /\ less \subseteq Pairs(s)
  /\ \A i, j \in DOMAIN s : <<i, j>> \in less => <<j, i>> \notin less
  /\ \A i, j, k \in DOMAIN s : <<i, k>> \in less => <<i, j>> \in less \/ <<j, k>> \in less

\* What a sort makes: every entry once, none before a lesser one, equals in their order.
LEMMA SortedBy ==
  ASSUME NEW S, NEW s \in Seq(S), NEW less, WeakOrder(s, less)
  PROVE  /\ Len(s) \in Nat /\ DOMAIN s = 1..Len(s)
         /\ Sorted(s, less) \in Seq(S) /\ Len(Sorted(s, less)) = Len(s)
         /\ \E at \in [1..Len(s) -> 1..Len(s)] :
              /\ \A i \in 1..Len(s) : \E k \in 1..Len(s) : at[k] = i
              /\ \A k, l \in 1..Len(s) : k < l =>
                   \/ <<at[k], at[l]>> \in less
                   \/ <<at[l], at[k]>> \notin less /\ at[k] < at[l]
              /\ \A k \in 1..Len(s) : Sorted(s, less)[k] = s[at[k]]
<1> DEFINE n == Len(s)
           R == Stable(s, less)
<1>1. /\ n \in Nat /\ DOMAIN s = 1..n /\ \A i \in 1..n : i \in Nat /\ s[i] \in S
  BY LenProperties, ElementOfSeq
<1>2. IsFiniteSet(1..n) /\ Cardinality(1..n) = n
  <2>1. IsFiniteSet(1..n) /\ Cardinality(1..n) = IF 1 > n THEN 0 ELSE n - 1 + 1
    BY SMTT(30), <1>1, FS_Interval
  <2> QED
    BY <1>1, <2>1
<1>3. ASSUME NEW i \in 1..n, NEW j \in 1..n
      PROVE  <<i, j>> \in R <=> (<<i, j>> \in less \/ (<<j, i>> \notin less /\ i < j))
  BY <1>1 DEF Stable, Pairs
<1> HIDE DEF R
<1>4. OrderOn(1..n, R)
  <2>1. ASSUME NEW i \in 1..n PROVE <<i, i>> \notin R
    BY <1>1, <1>3 DEF WeakOrder
  <2>2. ASSUME NEW i \in 1..n, NEW j \in 1..n, i # j PROVE <<i, j>> \in R \/ <<j, i>> \in R
    BY <1>1, <1>3, <2>2
  <2>3. ASSUME NEW i \in 1..n, NEW j \in 1..n, NEW k \in 1..n, <<i, j>> \in R, <<j, k>> \in R
        PROVE  <<i, k>> \in R
    <3>1. <<j, i>> \notin less /\ <<k, j>> \notin less
      BY <1>1, <1>3, <2>3 DEF WeakOrder
    <3>2. <<k, i>> \notin less
      BY <1>1, <3>1 DEF WeakOrder
    <3>3. <<i, k>> \in less \/ (<<i, j>> \notin less /\ <<j, k>> \notin less)
      BY <1>1, <3>1 DEF WeakOrder
    <3>4. CASE <<i, k>> \in less
      BY <1>3, <3>4
    <3>5. CASE <<i, k>> \notin less
      <4>1. i < j /\ j < k
        BY <1>3, <2>3, <3>3, <3>5
      <4>2. i < k
        BY <1>1, <4>1
      <4> QED
        BY <1>3, <3>2, <4>2
    <3> QED
      BY <3>4, <3>5
  <2> QED
    BY <2>1, <2>2, <2>3 DEF OrderOn
<1> DEFINE t == Arranged(s, 1..n, R)
<1>5. /\ t \in Seq(S) /\ Len(t) = n
      /\ \E at : Places(1..n, R, at) /\ \A k \in 1..n : t[k] = s[at[k]]
  BY <1>1, <1>2, <1>4, ArrangedBy
<1>6. PICK at : Places(1..n, R, at) /\ \A k \in 1..n : t[k] = s[at[k]]
  BY <1>5
<1>0. t = Sorted(s, less)
  BY <1>1 DEF Sorted, R
<1> HIDE DEF n, t
<1>7. /\ at \in [1..n -> 1..n]
      /\ \A i \in 1..n : \E k \in 1..n : at[k] = i
      /\ \A k, l \in 1..n : k < l => <<at[k], at[l]>> \in R
  BY <1>2, <1>6 DEF Places
<1>8. \A k, l \in 1..n : k < l =>
        \/ <<at[k], at[l]>> \in less
        \/ <<at[l], at[k]>> \notin less /\ at[k] < at[l]
  BY <1>3, <1>7
<1> QED
  BY <1>0, <1>1, <1>5, <1>6, <1>7, <1>8 DEF n

\* What a filter and a sort make, position by position.
Picks(s, I, t, at) ==
  /\ Len(t) \in Nat /\ DOMAIN t = 1..Len(t) /\ Len(t) = Cardinality(I)
  /\ at \in [1..Len(t) -> I]
  /\ \A i \in I : \E k \in 1..Len(t) : at[k] = i
  /\ \A k, l \in 1..Len(t) : k < l <=> at[k] < at[l]
  /\ \A k \in 1..Len(t) : t[k] = s[at[k]]

LEMMA PickOf ==
  ASSUME NEW S, NEW s \in Seq(S), NEW I \in SUBSET DOMAIN s
  PROVE  /\ Picked(s, I) \in Seq(S)
         /\ \E at : Picks(s, I, Picked(s, I), at)
<1>0. /\ Cardinality(I) \in Nat
      /\ Picked(s, I) \in Seq(S) /\ Len(Picked(s, I)) = Cardinality(I)
      /\ \E at \in [1..Cardinality(I) -> I] :
           /\ \A i \in I : \E k \in 1..Cardinality(I) : at[k] = i
           /\ \A k, l \in 1..Cardinality(I) : k < l <=> at[k] < at[l]
           /\ \A k \in 1..Cardinality(I) : Picked(s, I)[k] = s[at[k]]
  BY ZenonT(30), PickedBy
<1>1. PICK t : t = Picked(s, I)
  OBVIOUS
<1>2. /\ Cardinality(I) \in Nat
      /\ t \in Seq(S) /\ Len(t) = Cardinality(I)
      /\ \E at \in [1..Cardinality(I) -> I] :
           /\ \A i \in I : \E k \in 1..Cardinality(I) : at[k] = i
           /\ \A k, l \in 1..Cardinality(I) : k < l <=> at[k] < at[l]
           /\ \A k \in 1..Cardinality(I) : t[k] = s[at[k]]
  BY <1>0, <1>1
<1>3. DOMAIN t = 1..Len(t)
  BY <1>2, LenProperties
<1>4. \E at : Picks(s, I, t, at)
  BY <1>2, <1>3 DEF Picks
<1> QED
  BY <1>1, <1>2, <1>4

Sorts(s, less, t, at) ==
  /\ Len(t) \in Nat /\ DOMAIN t = 1..Len(t) /\ DOMAIN s = 1..Len(t)
  /\ at \in [1..Len(t) -> 1..Len(t)]
  /\ \A i \in 1..Len(t) : \E k \in 1..Len(t) : at[k] = i
  /\ \A k, l \in 1..Len(t) : k < l =>
       \/ <<at[k], at[l]>> \in less
       \/ <<at[l], at[k]>> \notin less /\ at[k] < at[l]
  /\ \A k \in 1..Len(t) : t[k] = s[at[k]]

LEMMA SortOf ==
  ASSUME NEW S, NEW s \in Seq(S), NEW less, WeakOrder(s, less)
  PROVE  /\ Sorted(s, less) \in Seq(S) /\ Len(Sorted(s, less)) = Len(s)
         /\ \E at : Sorts(s, less, Sorted(s, less), at)
<1>1. PICK t : t = Sorted(s, less)
  OBVIOUS
<1>2. /\ Len(s) \in Nat /\ DOMAIN s = 1..Len(s)
      /\ t \in Seq(S) /\ Len(t) = Len(s)
      /\ \E at \in [1..Len(s) -> 1..Len(s)] :
              /\ \A i \in 1..Len(s) : \E k \in 1..Len(s) : at[k] = i
              /\ \A k, l \in 1..Len(s) : k < l =>
                   \/ <<at[k], at[l]>> \in less
                   \/ <<at[l], at[k]>> \notin less /\ at[k] < at[l]
              /\ \A k \in 1..Len(s) : t[k] = s[at[k]]
  BY <1>1, SortedBy
<1>3. DOMAIN t = 1..Len(t)
  BY <1>2, LenProperties
<1>4. \E at : Sorts(s, less, t, at)
  BY ZenonT(30), <1>2, <1>3 DEF Sorts
<1> QED
  BY <1>1, <1>2, <1>4

\* What is sorted has the same entries.
LEMMA SortHas ==
  ASSUME NEW s, NEW less, NEW t, NEW at, WeakOrder(s, less), Sorts(s, less, t, at)
  PROVE  /\ \A k \in DOMAIN t : at[k] \in DOMAIN s /\ t[k] = s[at[k]]
         /\ \A i \in DOMAIN s : \E k \in DOMAIN t : at[k] = i /\ t[k] = s[i]
         /\ \A k, l \in DOMAIN t : k # l => at[k] # at[l]
<1>1. \A k \in DOMAIN t : at[k] \in DOMAIN s /\ t[k] = s[at[k]]
  BY DEF Sorts
<1>2. \A i \in DOMAIN s : \E k \in DOMAIN t : at[k] = i /\ t[k] = s[i]
  BY DEF Sorts
<1>3. ASSUME NEW k \in DOMAIN t, NEW l \in DOMAIN t, k # l, at[k] = at[l] PROVE FALSE
  <2>1. k \in 1..Len(t) /\ l \in 1..Len(t) /\ Len(t) \in Nat
    BY DEF Sorts
  <2>2. \A x, y \in 1..Len(t) : x < y =>
          \/ <<at[x], at[y]>> \in less
          \/ <<at[y], at[x]>> \notin less /\ at[x] < at[y]
    BY DEF Sorts
  <2>3. at[k] \in DOMAIN s /\ at[k] \in Nat
    BY SMTT(30), <1>1, <2>1 DEF Sorts
  <2>4. <<at[k], at[k]>> \notin less
    BY <2>3 DEF WeakOrder
  <2> QED
    BY <1>3, <2>1, <2>2, <2>3, <2>4
<1> QED
  BY <1>1, <1>2, <1>3

-----------------------------------------------------------------------------
(* What has been asked *)

Asked(c) == got[c] # Unasked

Typed ==
  /\ request \in Requests
  /\ got = [c \in Calls |-> got[c]]
  /\ \A c \in Calls : got[c] = Unasked \/ got[c] \in Answers[c]
  /\ status \in {0, 200, 400, 502}

Kinds == {Unasked, NotFound, Failure, Malformed, Thrown}

\* What a lookup has brought, if anything.
LEMMA GotIs ==
  ASSUME Typed, NEW c \in Calls
  PROVE  /\ Data(c) \in Seq(Results(c))
         /\ got[c] \in Kinds \/ got[c] = Success(Data(c))
         /\ got[c] \in Kinds => Data(c) = <<>>
<1>1. CASE got[c] = Unasked
  <2>1. Data(c) = <<>>
    BY <1>1 DEF Data, Unasked
  <2> QED
    BY <1>1, <2>1, EmptySeq DEF Kinds
<1>2. CASE got[c] \in Answers[c]
  BY <1>2, AnswersAssumption DEF Data, Kinds, Unasked, NotFound, Failure, Malformed, Thrown
<1> QED
  BY <1>1, <1>2 DEF Typed

\* A lookup that brought something was answered, and reached its provider.
LEMMA BroughtIs ==
  ASSUME Typed, NEW c \in Calls, Data(c) # <<>>
  PROVE  Asked(c) /\ Returned(c) /\ got[c].reached /\ got[c] # Thrown
<1>1. got[c] = Success(Data(c))
  BY GotIs
<1> QED
  BY <1>1 DEF Asked, Returned, Success, Unasked, Thrown

\* Returned and rejected are what an answered lookup is.
LEMMA ReturnedIs ==
  ASSUME Typed, NEW c \in Calls
  PROVE  Returned(c) <=> Asked(c) /\ got[c] # Thrown
<1>1. CASE got[c] = Success(Data(c))
  BY <1>1 DEF Returned, Asked, Success, Unasked, Thrown
<1>2. CASE got[c] \in Kinds
  <2>1. CASE got[c] \in {NotFound, Failure, Malformed}
    <3>1. got[c].kind \in {"not_found", "failure"}
      BY <2>1 DEF NotFound, Failure, Malformed
    <3>2. got[c] # Unasked /\ got[c] # Thrown
      BY <3>1 DEF Unasked, Thrown
    <3> QED
      BY <3>1, <3>2 DEF Returned, Asked
  <2>2. CASE got[c] = Unasked
    BY <2>2 DEF Returned, Asked, Unasked
  <2>3. CASE got[c] = Thrown
    BY <2>3 DEF Returned, Asked, Thrown
  <2> QED
    BY <1>2, <2>1, <2>2, <2>3 DEF Kinds
<1> QED
  BY <1>1, <1>2, GotIs

LEMMA ReachedIs ==
  ASSUME Typed, NEW c \in Calls
  PROVE  /\ got[c].reached <=> got[c] \notin {Unasked, Failure, Thrown}
         /\ Data(c) # <<>> => got[c].reached
<1>1. CASE got[c] = Success(Data(c))
  BY <1>1 DEF Success, Unasked, Failure, Thrown
<1>2. CASE got[c] \in Kinds
  <2>1. Data(c) = <<>>
    BY <1>2, GotIs
  <2> QED
    BY <1>2, <2>1 DEF Kinds, Unasked, NotFound, Failure, Malformed, Thrown
<1> QED
  BY <1>1, <1>2, GotIs

\* The results of a lookup that has brought nothing are none.
LEMMA FoundNothing ==
  ASSUME NEW c, Data(c) = <<>>
  PROVE  Found(c) = <<>>
<1>1. DOMAIN <<>> = {}
  OBVIOUS
<1>2. \A s : DOMAIN s = {} => Titled(s) = <<>>
  <2> SUFFICES ASSUME NEW s, DOMAIN s = {} PROVE Titled(s) = <<>>
    OBVIOUS
  <2>1. Cardinality({}) = 0
    BY FS_EmptySet
  <2>2. {i \in DOMAIN s : s[i].title.text # ""} = {}
    OBVIOUS
  <2>3. Titled(s) = Arranged(s, {}, Kept({}))
    BY <2>2 DEF Titled, Picked
  <2>4. Arranged(s, {}, Kept({})) = <<>>
    BY <2>1 DEF Arranged
  <2> QED
    BY <2>3, <2>4
<1>3. MapMbRecordings(<<>>, TRUE) = <<>> /\ MapMbRecordings(<<>>, FALSE) = <<>>
  BY <1>1, <1>2 DEF MapMbRecordings
<1>4. AcoustIdLookup(<<>>) = <<>>
  BY <1>1, <1>2 DEF AcoustIdLookup
<1>5. ItunesLookup(<<>>) = <<>>
  BY <1>1, <1>2 DEF ItunesLookup
<1> QED
  BY <1>3, <1>4, <1>5 DEF Found

Stays(c) == got'[c] = got[c]

LEMMA FoundStays ==
  ASSUME NEW c \in Calls, Stays(c)
  PROVE  /\ Data(c)' = Data(c) /\ Asked(c)' = Asked(c) /\ Returned(c)' = Returned(c)
         /\ Found(c)' = Found(c)
<1>1. Data(c)' = Data(c) /\ Asked(c)' = Asked(c) /\ Returned(c)' = Returned(c)
  BY DEF Stays, Data, Asked, Returned
<1>2. Found(c)' = Found(c)
  BY <1>1 DEF Found
<1> QED
  BY <1>1, <1>2

LEMMA FallbackGrows ==
  ASSUME Typed, \A c \in Calls : Asked(c) => Stays(c)
  PROVE  \A l \in Seq(Calls) : \A c \in Fallback(l) : c \in Fallback(l)'
<1> SUFFICES ASSUME NEW l \in Seq(Calls), NEW c \in Fallback(l)
             PROVE  c \in Fallback(l)'
  OBVIOUS
<1>1. DOMAIN l = 1..Len(l) /\ \A i \in DOMAIN l : l[i] \in Calls
  BY LenProperties, ElementOfSeq
<1>2. PICK i \in DOMAIN l : c = l[i] /\ \A j \in 1 .. i - 1 : Returned(l[j]) /\ Found(l[j]) = <<>>
  BY DEF Fallback
<1>3. ASSUME NEW j \in 1 .. i - 1 PROVE Returned(l[j])' /\ Found(l[j])' = <<>>
  <2>1. l[j] \in Calls /\ Returned(l[j]) /\ Found(l[j]) = <<>>
    BY <1>1, <1>2
  <2>2. Stays(l[j])
    BY <2>1, ReturnedIs
  <2> QED
    BY <2>1, <2>2, FoundStays
<1> QED
  BY <1>2, <1>3 DEF Fallback

LEMMA InTurnGrows ==
  ASSUME Typed, \A c \in Calls : Asked(c) => Stays(c)
  PROVE  \A l \in Seq(Calls) : \A c \in InTurn(l) : c \in InTurn(l)'
<1> SUFFICES ASSUME NEW l \in Seq(Calls), NEW c \in InTurn(l)
             PROVE  c \in InTurn(l)'
  OBVIOUS
<1>1. DOMAIN l = 1..Len(l) /\ \A i \in DOMAIN l : l[i] \in Calls
  BY LenProperties, ElementOfSeq
<1>2. PICK i \in DOMAIN l : c = l[i] /\ \A j \in 1 .. i - 1 : Returned(l[j])
  BY DEF InTurn
<1>3. ASSUME NEW j \in 1 .. i - 1 PROVE Returned(l[j])'
  <2>1. l[j] \in Calls /\ Returned(l[j])
    BY <1>1, <1>2
  <2>2. Stays(l[j])
    BY <2>1, ReturnedIs
  <2> QED
    BY <2>1, <2>2, FoundStays
<1> QED
  BY <1>2, <1>3 DEF InTurn

LEMMA ChainGrows ==
  ASSUME Typed, \A c \in Calls : Asked(c) => Stays(c)
  PROVE  \A l \in Seq(Calls) : \A c \in Chain(l) : c \in Chain(l)'
<1> SUFFICES ASSUME NEW l \in Seq(Calls), NEW c \in Chain(l)
             PROVE  c \in Chain(l)'
  OBVIOUS
<1>1. DOMAIN l = 1..Len(l) /\ \A i \in DOMAIN l : l[i] \in Calls
  BY LenProperties, ElementOfSeq
<1>2. PICK i \in DOMAIN l : c = l[i] /\ \A j \in 1 .. i - 1 : Data(l[j]) # <<>>
  BY DEF Chain
<1>3. ASSUME NEW j \in 1 .. i - 1 PROVE Data(l[j])' # <<>>
  <2>1. l[j] \in Calls /\ Data(l[j]) # <<>>
    BY <1>1, <1>2
  <2>2. Stays(l[j])
    BY <2>1, BroughtIs
  <2> QED
    BY <2>1, <2>2, FoundStays
<1> QED
  BY <1>2, <1>3 DEF Chain

\* The lookups of a request are calls, and the same as long as it lasts.
LEMMA LookupsAre ==
  /\ Strong \in Seq(Calls) /\ RecordingLookups \in Seq(Calls)
  /\ AlbumLookups \in Seq(Calls) /\ ArtistLookups \in Seq(Calls)
  /\ NeteaseChain \in Seq(Calls) /\ QqMusicChain \in Seq(Calls) /\ KugouChain \in Seq(Calls)
<1> DEFINE C == Calls
<1>1. /\ <<"byId">> \in Seq(C) /\ <<"byIsrc">> \in Seq(C) /\ <<"byPrint">> \in Seq(C)
      /\ <<"byText", "itunes">> \in Seq(C) /\ <<>> \in Seq(C)
      /\ <<"release">> \in Seq(C) /\ <<"releaseGroup">> \in Seq(C) /\ <<"groupSearch">> \in Seq(C)
      /\ <<"artistById">> \in Seq(C)
      /\ <<"artistSearch", "neteaseArtist", "qqArtist">> \in Seq(C)
  BY DEF Calls, Base
<1>2. /\ <<"neLyric">> \in Seq(C) /\ <<"neSong", "neLyric">> \in Seq(C)
      /\ <<"qqSong", "qqLyric">> \in Seq(C) /\ <<"kuSong", "kuFind", "kuLoad">> \in Seq(C)
  BY DEF Calls, WordLookups
<1> HIDE DEF C
<1>3. \A s, t \in Seq(C) : s \o t \in Seq(C)
  BY ConcatProperties
<1>4. Strong \in Seq(C)
  BY <1>1, <1>3, Zenon DEF Strong, If
<1>5. RecordingLookups \in Seq(C)
  BY <1>1, <1>3, <1>4, Zenon DEF RecordingLookups, If
<1>6. ArtistLookups \in Seq(C)
  BY <1>1, <1>3, Zenon DEF ArtistLookups, If
<1>7. AlbumLookups \in Seq(C)
  BY <1>1, Zenon DEF AlbumLookups, If
<1>8. NeteaseChain \in Seq(C) /\ QqMusicChain \in Seq(C) /\ KugouChain \in Seq(C)
  BY <1>2, Zenon DEF NeteaseChain, QqMusicChain, KugouChain
<1> QED
  BY <1>4, <1>5, <1>6, <1>7, <1>8 DEF C

LEMMA LookupsStay ==
  ASSUME request' = request
  PROVE  /\ Strong' = Strong /\ RecordingLookups' = RecordingLookups
         /\ AlbumLookups' = AlbumLookups /\ ArtistLookups' = ArtistLookups
         /\ NeteaseChain' = NeteaseChain /\ QqMusicChain' = QqMusicChain
         /\ KugouChain' = KugouChain
BY DEF Strong, RecordingLookups, AlbumLookups, ArtistLookups, NeteaseChain, QqMusicChain,
       KugouChain, If, Given

ArtistCalls == {"artistById", "artistSearch", "neteaseArtist", "qqArtist"}

LEMMA ArtistLookupsAre ==
  \A i \in DOMAIN ArtistLookups : ArtistLookups[i] \in ArtistCalls
<1>1. /\ <<"artistById">> \in Seq(ArtistCalls) /\ <<>> \in Seq(ArtistCalls)
      /\ <<"artistSearch", "neteaseArtist", "qqArtist">> \in Seq(ArtistCalls)
  BY DEF ArtistCalls
<1>2. ArtistLookups \in Seq(ArtistCalls)
  BY <1>1, ConcatProperties, Zenon DEF ArtistLookups, If
<1> QED
  BY <1>2, LenProperties, ElementOfSeq

\* Once the artists are known, no lookup that they depend on is asked.
LEMMA ArtistsStay ==
  ASSUME Typed, request.endpoint = "artists", request' = request, ArtistsKnown,
         NEW c \in Due, ~Asked(c), \A d \in Calls \ {c} : Stays(d)
  PROVE  /\ c \in {"wikidata", "profile", "intro"}
         /\ ArtistsKnown' /\ Artists' = Artists
<1>1. Due = ArtistsDue
  BY DEF Due
<1>2. c \notin Fallback(ArtistLookups)
  <2>1. ASSUME c \in Fallback(ArtistLookups) PROVE FALSE
    <3>1. c \in Calls /\ Returned(c)
      BY <2>1, ArtistLookupsAre DEF Fallback, ArtistsKnown, ArtistCalls, Calls, Base
    <3> QED
      BY <3>1, ReturnedIs
  <2> QED
    BY <2>1
<1>3. ASSUME c = "artistDetail", DetailDue PROVE FALSE
  BY <1>3, ReturnedIs DEF ArtistsKnown, Calls
<1>4. c \in {"wikidata", "profile", "intro"}
  <2>1. Chain(<<"profile", "intro">>) \subseteq {"profile", "intro"}
    BY DEF Chain
  <2> QED
    BY <1>1, <1>2, <1>3, <2>1 DEF ArtistsDue
<1>5. \A d \in ArtistCalls \cup {"artistDetail"} : d \in Calls /\ Stays(d)
  BY <1>4 DEF ArtistCalls, Calls, Base
<1>6. \A d \in ArtistCalls \cup {"artistDetail"} :
        Data(d)' = Data(d) /\ Returned(d)' = Returned(d) /\ Found(d)' = Found(d)
  BY <1>5, FoundStays
<1>7. Artists' = Artists
  <2>1. ArtistValues' = ArtistValues
    BY <1>6 DEF ArtistValues, ArtistCalls
  <2> QED
    BY <2>1 DEF Artists
<1>8. ArtistsKnown'
  <2>1. PICK l : l = ArtistLookups /\ l = ArtistLookups'
    BY LookupsStay
  <2>2. \A i \in DOMAIN l : l[i] \in ArtistCalls
    BY <2>1, ArtistLookupsAre
  <2>3. Fallback(l) = Fallback(ArtistLookups)
    BY <2>1
  <2>4. \A d \in Fallback(l)' : d \in Fallback(l)
    <3> SUFFICES ASSUME NEW d \in Fallback(l)' PROVE d \in Fallback(l)
      OBVIOUS
    <3>1. l \in Seq(Calls)
      BY <2>1, LookupsAre
    <3>2. DOMAIN l = 1..Len(l)
      BY <3>1, LenProperties
    <3>3. PICK i \in DOMAIN l : d = l[i] /\ \A j \in 1 .. i - 1 : Returned(l[j])' /\ Found(l[j])' = <<>>
      BY DEF Fallback
    <3>4. \A j \in 1 .. i - 1 : Returned(l[j]) /\ Found(l[j]) = <<>>
      BY <1>6, <2>2, <3>2, <3>3
    <3> QED
      BY <3>3, <3>4 DEF Fallback
  <2>5. Fallback(l)' = Fallback(ArtistLookups)'
    BY <2>1 DEF Fallback
  <2>6. ASSUME NEW d \in Fallback(ArtistLookups)' PROVE Returned(d)'
    <3>1. d \in Fallback(l)
      BY <2>4, <2>5, <2>6
    <3>2. d \in ArtistCalls /\ Returned(d)
      BY <2>2, <2>3, <3>1 DEF Fallback, ArtistsKnown
    <3> QED
      BY <1>6, <3>2
  <2>7. DetailDue' => Returned("artistDetail")'
    BY <1>6 DEF ArtistsKnown, ArtistCalls, DetailDue
  <2> QED
    BY <2>6, <2>7 DEF ArtistsKnown
<1> QED
  BY <1>4, <1>7, <1>8

\* An answer takes back no lookup that was due.
LEMMA DueGrows ==
  ASSUME Typed, request' = request,
         NEW c \in Due, ~Asked(c), \A d \in Calls \ {c} : Stays(d)
  PROVE  \A d \in Due : d \in Due'
<1>1. \A d \in Calls : Asked(d) => Stays(d)
  OBVIOUS
<1>2. request.endpoint \in Endpoints /\ request'.endpoint = request.endpoint
  BY RequestsAssumption DEF Typed
<1>3. CASE request.endpoint = "recordings"
  <2>1. PICK l \in Seq(Calls) : l = RecordingLookups /\ l = RecordingLookups'
    BY LookupsAre, LookupsStay
  <2>2. \A d \in Fallback(l) : d \in Fallback(l)'
    BY <1>1, FallbackGrows
  <2>3. Fallback(l)' = RecordingsV1Due' /\ Fallback(l) = RecordingsV1Due
    BY <2>1 DEF Fallback, RecordingsV1Due
  <2> QED
    BY <1>2, <1>3, <2>2, <2>3 DEF Due
<1>4. CASE request.endpoint = "recordings2"
  <2>1. PICK l \in Seq(Calls) : l = Strong /\ l = Strong'
    BY LookupsAre, LookupsStay
  <2>2. \A d \in InTurn(l) : d \in InTurn(l)'
    BY <1>1, InTurnGrows
  <2>3. InTurn(l)' = InTurn(Strong)' /\ InTurn(l) = InTurn(Strong)
    BY <2>1 DEF InTurn
  <2>4. ToSet(Strong) \subseteq Calls
    BY <2>1, LenProperties, ElementOfSeq DEF ToSet
  <2>5. ToSet(Strong)' = ToSet(Strong)
    BY <2>1 DEF ToSet
  <2>6. ASSUME \A d \in ToSet(Strong) : Returned(d)
        PROVE  \A d \in ToSet(Strong) : Returned(d)' /\ Found(d)' = Found(d)
    BY <1>1, <2>4, <2>6, ReturnedIs, FoundStays
  <2>7. Given("title")' = Given("title")
    BY DEF Given
  <2>8. \A d \in RecordingsV2Due : d \in RecordingsV2Due'
    BY <2>2, <2>3, <2>5, <2>6, <2>7 DEF RecordingsV2Due
  <2> QED
    BY <1>2, <1>4, <2>8 DEF Due
<1>5. CASE request.endpoint = "albums"
  <2>1. ToSet(AlbumLookups)' = ToSet(AlbumLookups)
    BY LookupsStay DEF ToSet
  <2> QED
    BY <1>2, <1>5, <2>1 DEF Due
<1>6. CASE request.endpoint = "artists"
  <2>1. PICK l \in Seq(Calls) : l = ArtistLookups /\ l = ArtistLookups'
    BY LookupsAre, LookupsStay
  <2>2. \A d \in Fallback(l) : d \in Fallback(l)'
    BY <1>1, FallbackGrows
  <2>3. Fallback(l)' = Fallback(ArtistLookups)' /\ Fallback(l) = Fallback(ArtistLookups)
    BY <2>1 DEF Fallback
  <2>4. DetailDue => DetailDue'
    BY <1>1, BroughtIs, FoundStays DEF Calls, Base, DetailDue
  <2>5. <<"profile", "intro">> \in Seq(Calls)
    BY DEF Calls
  <2>6. \A d \in Chain(<<"profile", "intro">>) : d \in Chain(<<"profile", "intro">>)'
    BY <1>1, <2>5, ChainGrows
  <2>7. ArtistsKnown => ArtistsKnown' /\ Artists' = Artists
    BY <1>6, ArtistsStay
  <2>8. Returned("wikidata") => Returned("wikidata")'
    BY <1>1, ReturnedIs, FoundStays DEF Calls
  <2>9. \A d \in ArtistsDue : d \in ArtistsDue'
    BY <2>2, <2>3, <2>4, <2>6, <2>7, <2>8 DEF ArtistsDue
  <2> QED
    BY <1>2, <1>6, <2>9 DEF Due
<1>7. CASE request.endpoint = "lyrics"
  <2>1. PICK l1 \in Seq(Calls) : l1 = NeteaseChain /\ l1 = NeteaseChain'
    BY LookupsAre, LookupsStay
  <2>2. PICK l2 \in Seq(Calls) : l2 = QqMusicChain /\ l2 = QqMusicChain'
    BY LookupsAre, LookupsStay
  <2>3. PICK l3 \in Seq(Calls) : l3 = KugouChain /\ l3 = KugouChain'
    BY LookupsAre, LookupsStay
  <2>4. \A l \in {l1, l2, l3} : \A d \in Chain(l) : d \in Chain(l)'
    BY <1>1, ChainGrows
  <2>5. /\ Chain(l1)' = Chain(NeteaseChain)' /\ Chain(l1) = Chain(NeteaseChain)
        /\ Chain(l2)' = Chain(QqMusicChain)' /\ Chain(l2) = Chain(QqMusicChain)
        /\ Chain(l3)' = Chain(KugouChain)' /\ Chain(l3) = Chain(KugouChain)
    BY <2>1, <2>2, <2>3 DEF Chain
  <2>6. \A d \in LyricsDue : d \in LyricsDue'
    BY <2>4, <2>5 DEF LyricsDue
  <2> QED
    BY <1>2, <1>7, <2>6 DEF Due
<1> QED
  BY <1>2, <1>3, <1>4, <1>5, <1>6, <1>7 DEF Endpoints

\* What is due are calls.
LEMMA DueAre ==
  ASSUME Typed
  PROVE  Due \subseteq Calls
<1>1. \A l \in Seq(Calls) :
        Fallback(l) \subseteq Calls /\ InTurn(l) \subseteq Calls /\ Chain(l) \subseteq Calls
        /\ ToSet(l) \subseteq Calls
  BY LenProperties, ElementOfSeq DEF Fallback, InTurn, Chain, ToSet
<1>2. request.endpoint \in Endpoints
  BY RequestsAssumption DEF Typed
<1>3. <<"profile", "intro">> \in Seq(Calls)
  BY DEF Calls
<1>4. Parallel \cup {"artistDetail", "wikidata", "byText", "itunes"} \subseteq Calls
  BY DEF Calls, Base
<1>5. RecordingsV1Due \subseteq Calls
  BY <1>1, LookupsAre DEF RecordingsV1Due
<1>6. RecordingsV2Due \subseteq Calls
  BY <1>1, <1>4, LookupsAre DEF RecordingsV2Due
<1>7. ArtistsDue \subseteq Calls
  BY <1>1, <1>3, <1>4, LookupsAre DEF ArtistsDue
<1>8. LyricsDue \subseteq Calls
  BY <1>1, <1>4, LookupsAre DEF LyricsDue
<1>9. ToSet(AlbumLookups) \subseteq Calls
  BY <1>1, LookupsAre
<1> QED
  BY <1>2, <1>5, <1>6, <1>7, <1>8, <1>9 DEF Due, Endpoints

-----------------------------------------------------------------------------
(* The inductive invariant *)

\* Nothing is asked that is not due.
AskedInTurn == \A c \in Calls : Asked(c) => c \in Due

\* An answer has been decided by the lookups that were due.
Settled ==
  status \in {200, 502} =>
    /\ ~Missing
    /\ Uncaught = {} => \A c \in Due : Asked(c)
    /\ status = 502 <=> BadGateway

Inv == Typed /\ AskedInTurn /\ Settled

\* What a request asks for and is answered follows from its lookups.
LEMMA SameLookups ==
  ASSUME request' = request, got' = got
  PROVE  /\ Due' = Due /\ Missing' = Missing /\ Uncaught' = Uncaught /\ BadGateway' = BadGateway
         /\ \A c : Asked(c)' = Asked(c)
<1>1. \A c : Asked(c)' = Asked(c)
  BY DEF Asked
<1>2. \A c : Data(c)' = Data(c) /\ Returned(c)' = Returned(c) /\ Found(c)' = Found(c)
  BY DEF Data, Returned, Found
<1>3. \A p : Given(p)' = Given(p)
  BY DEF Given
<1>4. \A l : Fallback(l)' = Fallback(l) /\ InTurn(l)' = InTurn(l) /\ Chain(l)' = Chain(l)
  BY <1>2 DEF Fallback, InTurn, Chain
<1>5. /\ Strong' = Strong /\ RecordingLookups' = RecordingLookups
      /\ AlbumLookups' = AlbumLookups /\ ArtistLookups' = ArtistLookups
      /\ NeteaseChain' = NeteaseChain /\ QqMusicChain' = QqMusicChain
      /\ KugouChain' = KugouChain
  BY LookupsStay
<1>6. Missing' = Missing
  BY <1>3 DEF Missing, Primary
<1>7. Uncaught' = Uncaught
  BY DEF Uncaught
<1>8. RecordingsV1Due' = RecordingsV1Due
  BY <1>2, <1>5 DEF RecordingsV1Due, Fallback
<1>9. RecordingsV2Due' = RecordingsV2Due
  BY <1>2, <1>3, <1>5 DEF RecordingsV2Due, InTurn, ToSet
<1>10. ArtistValues' = ArtistValues /\ Artists' = Artists /\ DetailDue' = DetailDue
  <2>1. ArtistValues' = ArtistValues
    BY <1>2 DEF ArtistValues
  <2> QED
    BY <1>2, <2>1 DEF Artists, DetailDue
<1>11. Fallback(ArtistLookups)' = Fallback(ArtistLookups)
  BY <1>2, <1>5 DEF Fallback
<1>12. ArtistsKnown' = ArtistsKnown
  BY <1>2, <1>10, <1>11 DEF ArtistsKnown
<1>13. ArtistsDue' = ArtistsDue
  <2>1. Chain(<<"profile", "intro">>)' = Chain(<<"profile", "intro">>)
    BY <1>4
  <2> QED
    BY <1>2, <1>10, <1>11, <1>12, <2>1 DEF ArtistsDue
<1>14. LyricsDue' = LyricsDue
  BY <1>2, <1>5 DEF LyricsDue, Chain
<1>15. ToSet(AlbumLookups)' = ToSet(AlbumLookups)
  BY <1>5 DEF ToSet
<1>16. Due' = Due
  BY <1>8, <1>9, <1>13, <1>14, <1>15 DEF Due
<1>17. Evidence' = Evidence
  BY <1>2 DEF Evidence
<1>18. Albums' = Albums
  BY <1>2, <1>3 DEF Albums
<1>19. Lyrics' = Lyrics
  BY <1>2 DEF Lyrics, Full
<1>20. Body' = Body
  BY <1>10, <1>17, <1>18, <1>19 DEF Body, RecordingsV1, RecordingsV2
<1>21. Refused' = Refused
  BY <1>2, <1>10, <1>20 DEF Refused, Reachable, Attempted
<1>22. RecordingsV2' = RecordingsV2
  BY <1>17 DEF RecordingsV2
<1>23. SchemaRefuses' = SchemaRefuses
  <2>1. ToSet(RecordingsV2)' = ToSet(RecordingsV2)
    BY <1>22 DEF ToSet
  <2> QED
    BY <1>19, <2>1 DEF SchemaRefuses
<1>24. BadGateway' = BadGateway
  BY <1>7, <1>21, <1>23 DEF BadGateway
<1> QED
  BY <1>1, <1>6, <1>7, <1>16, <1>24

LEMMA InvInit == Init => Inv
<1> SUFFICES ASSUME Init PROVE Inv
  OBVIOUS
<1>1. Typed
  BY DEF Init, Typed
<1>2. AskedInTurn
  BY DEF Init, AskedInTurn, Asked
<1>3. Settled
  BY DEF Init, Settled
<1> QED
  BY <1>1, <1>2, <1>3 DEF Inv

LEMMA InvAnswer ==
  ASSUME Inv, Answer
  PROVE  Inv'
<1>0. PICK c \in Open : \E a \in Answers[c] : got' = [got EXCEPT ![c] = a]
  BY DEF Answer
<1>1. PICK a \in Answers[c] :
        got' = [got EXCEPT ![c] = a] /\ request' = request /\ status' = status
  BY <1>0 DEF Answer
<1>2. status = 0 /\ c \in Due /\ ~Asked(c) /\ c \in Calls
  BY DueAre DEF Open, Asked, Inv
<1>3. \A d \in Calls \ {c} : Stays(d)
  BY <1>1, <1>2 DEF Stays, Inv, Typed
<1>4. \A d \in Due : d \in Due'
  BY <1>1, <1>2, <1>3, DueGrows DEF Inv
<1>5. Typed'
  BY <1>1, <1>2 DEF Inv, Typed
<1>6. AskedInTurn'
  <2> SUFFICES ASSUME NEW d \in Calls, Asked(d)' PROVE d \in Due'
    BY DEF AskedInTurn
  <2>1. CASE d = c
    BY <1>2, <1>4, <2>1
  <2>2. CASE d # c
    BY <1>3, <1>4, <2>2 DEF Stays, Asked, Inv, AskedInTurn
  <2> QED
    BY <2>1, <2>2
<1>7. Settled'
  BY <1>1, <1>2 DEF Settled
<1> QED
  BY <1>5, <1>6, <1>7 DEF Inv

LEMMA InvRespond ==
  ASSUME Inv, Respond
  PROVE  Inv'
<1>1. status = 0 /\ Open = {} /\ request' = request /\ got' = got
  BY DEF Respond
<1>2. /\ Due' = Due /\ Missing' = Missing /\ Uncaught' = Uncaught /\ BadGateway' = BadGateway
      /\ \A c : Asked(c)' = Asked(c)
  BY <1>1, SameLookups
<1>3. Typed'
  BY <1>1 DEF Inv, Typed, Respond
<1>4. AskedInTurn'
  BY <1>2 DEF Inv, AskedInTurn
<1>5. Settled'
  <2>1. ~Missing /\ Uncaught = {} => \A c \in Due : Asked(c)
    BY <1>1 DEF Open, Asked
  <2>2. status' = IF Missing THEN 400 ELSE IF BadGateway THEN 502 ELSE 200
    BY DEF Respond
  <2> QED
    BY <1>2, <2>1, <2>2 DEF Settled
<1> QED
  BY <1>3, <1>4, <1>5 DEF Inv

\* Every lookup asked was due, and an answer is decided by all that were.
THEOREM SearchIsSettled == Spec => []Inv
<1>1. Inv /\ [Next]_vars => Inv'
  <2> SUFFICES ASSUME Inv, [Next]_vars PROVE Inv'
    OBVIOUS
  <2>1. ASSUME NEW r \in Requests, Arrive(r) PROVE Inv'
    <3>1. Typed'
      BY <2>1 DEF Arrive, Typed
    <3>2. AskedInTurn'
      BY <2>1 DEF Arrive, AskedInTurn, Asked
    <3>3. Settled'
      BY <2>1 DEF Arrive, Settled
    <3> QED
      BY <3>1, <3>2, <3>3 DEF Inv
  <2>2. CASE UNCHANGED vars
    <3>1. /\ Due' = Due /\ Missing' = Missing /\ Uncaught' = Uncaught /\ BadGateway' = BadGateway
          /\ \A c : Asked(c)' = Asked(c)
      BY <2>2, SameLookups DEF vars
    <3> QED
      BY <2>2, <3>1 DEF Inv, Typed, AskedInTurn, Settled, vars
  <2> QED
    BY <2>1, <2>2, InvAnswer, InvRespond DEF Next
<1> QED
  BY <1>1, InvInit, PTL DEF Spec

-----------------------------------------------------------------------------
(* Grouping *)

Grows(s, g, m) == g = [n \in 0..m |-> IF n = 0 THEN <<>> ELSE Place(g[n - 1], s[n])]

\* The groups are those that the results before have made, and one result placed.
LEMMA GrownBy ==
  ASSUME NEW S, NEW s \in Seq(S)
  PROVE  /\ Grown(s)[0] = <<>>
         /\ \A n \in 1..Len(s) : Grown(s)[n] = Place(Grown(s)[n - 1], s[n])
<1>1. Len(s) \in Nat
  BY LenProperties
<1>2. \A m \in 0..Len(s) : \E g : Grows(s, g, m)
  <2> DEFINE bad == {m \in 0..Len(s) : ~\E g : Grows(s, g, m)}
  <2>1. SUFFICES ASSUME bad # {} PROVE FALSE
    BY <2>1
  <2>2. bad \in SUBSET Nat
    BY <1>1
  <2>3. PICK m \in bad : \A k \in bad : m <= k
    BY <2>1, <2>2, LeastOf
  <2>4. CASE m = 0
    <3> DEFINE g == [n \in 0..0 |-> <<>>]
    <3>1. Grows(s, g, 0)
      BY DEF Grows
    <3> QED
      BY <2>3, <2>4, <3>1
  <2>5. CASE m # 0
    <3>1. m \in 1..Len(s) /\ m - 1 \in 0..Len(s) /\ m - 1 \notin bad
      BY <1>1, <2>3, <2>5
    <3>2. PICK g : Grows(s, g, m - 1)
      BY <3>1
    <3> DEFINE h == [n \in 0..m |-> IF n = m THEN Place(g[m - 1], s[m]) ELSE g[n]]
    <3>3. ASSUME NEW n \in 0..m
          PROVE  h[n] = IF n = 0 THEN <<>> ELSE Place(h[n - 1], s[n])
      <4>1. CASE n = m
        <5>1. h[n] = Place(g[m - 1], s[m]) /\ n # 0 /\ m - 1 \in 0..m /\ m - 1 # m
          BY <3>1, <4>1
        <5>2. h[m - 1] = g[m - 1]
          BY <5>1
        <5> QED
          BY <4>1, <5>1, <5>2
      <4>2. CASE n # m
        <5>1. n \in 0..(m - 1) /\ h[n] = g[n]
          BY <3>1, <4>2
        <5>2. g[n] = IF n = 0 THEN <<>> ELSE Place(g[n - 1], s[n])
          BY <3>2, <5>1 DEF Grows
        <5>3. n # 0 => h[n - 1] = g[n - 1]
          BY <3>1, <5>1
        <5> QED
          BY <5>1, <5>2, <5>3
      <4> QED
        BY <4>1, <4>2
    <3>4. h = [n \in 0..m |-> h[n]]
      OBVIOUS
    <3> HIDE DEF h
    <3>5. Grows(s, h, m)
      BY <3>3, <3>4 DEF Grows
    <3> QED
      BY <2>3, <3>5
  <2> QED
    BY <2>4, <2>5
<1>3. \E g : Grows(s, g, Len(s))
  BY <1>1, <1>2
<1>4. Grows(s, Grown(s), Len(s))
  BY <1>3 DEF Grows, Grown
<1> DEFINE g == Grown(s)
<1> HIDE DEF g
<1>5. g = [n \in 0..Len(s) |-> IF n = 0 THEN <<>> ELSE Place(g[n - 1], s[n])]
  BY <1>4 DEF Grows, g
<1>6. g[0] = <<>> /\ \A n \in 1..Len(s) : g[n] = Place(g[n - 1], s[n])
  BY <1>1, <1>5
<1> QED
  BY <1>6 DEF g

-----------------------------------------------------------------------------
(* Cutting, and what becomes of no results *)

LEMMA MinOfTwo ==
  ASSUME NEW m \in Nat, NEW n \in Nat
  PROVE  Min({m, n}) = IF m <= n THEN m ELSE n
<1> DEFINE x == IF m <= n THEN m ELSE n
<1>1. x \in {m, n} /\ \A y \in {m, n} : x <= y
  OBVIOUS
<1>2. \A z \in {m, n} : (\A y \in {m, n} : z <= y) => z = x
  OBVIOUS
<1> HIDE DEF x
<1>3. Min({m, n}) = x
  BY <1>1, <1>2 DEF Min
<1> QED
  BY <1>3 DEF x

LEMMA CutIs ==
  ASSUME NEW S, NEW s \in Seq(S), NEW limit \in Nat \ {0}
  PROVE  /\ Cut(s, limit) \in Seq(S)
         /\ Len(Cut(s, limit)) = IF limit <= Len(s) THEN limit ELSE Len(s)
         /\ \A i \in 1..Len(Cut(s, limit)) : Cut(s, limit)[i] = s[i]
         /\ Cut(s, limit) = <<>> <=> s = <<>>
<1>1. Len(s) \in Nat /\ DOMAIN s = 1..Len(s) /\ \A i \in 1..Len(s) : s[i] \in S
  BY LenProperties, ElementOfSeq
<1> DEFINE m == IF limit <= Len(s) THEN limit ELSE Len(s)
           t == SubSeq(s, 1, m)
<1>2. Min({limit, Len(s)}) = m
  BY <1>1, MinOfTwo
<1>3. Cut(s, limit) = t
  BY <1>2 DEF Cut
<1>4. m \in 0..Len(s)
  BY <1>1
<1>5. m = 0 <=> Len(s) = 0
  BY <1>1
<1> HIDE DEF m
<1>6. \A i \in 1..m : s[i] \in S
  BY <1>1, <1>4
<1>7. /\ t \in Seq(S) /\ Len(t) = IF 1 <= m THEN m - 1 + 1 ELSE 0
      /\ \A i \in 1 .. m - 1 + 1 : t[i] = s[1 + i - 1]
  <2>1. m \in Int /\ 1 \in Int
    BY <1>1, <1>4
  <2> QED
    BY <1>6, <2>1, SubSeqProperties
<1> HIDE DEF t
<1>8. Len(t) = m /\ \A i \in 1..m : t[i] = s[i]
  BY <1>1, <1>4, <1>7
<1>9. \A u \in Seq(S) : u = <<>> <=> Len(u) = 0
  BY EmptySeq
<1> QED
  BY <1>3, <1>5, <1>7, <1>8, <1>9 DEF m

\* A comparison by a number is a weak order.
LEMMA ByNumber ==
  ASSUME NEW S, NEW s \in Seq(S), NEW number, \A i \in DOMAIN s : number[i] \in Int,
         NEW less, less = {p \in Pairs(s) : number[p[1]] > number[p[2]]}
  PROVE  /\ WeakOrder(s, less)
         /\ \A i, j \in DOMAIN s : <<i, j>> \in less <=> number[i] > number[j]
<1>1. \A i, j \in DOMAIN s : <<i, j>> \in less <=> number[i] > number[j]
  BY DEF Pairs
<1>2. less \subseteq Pairs(s)
  OBVIOUS
<1>3. \A i, j \in DOMAIN s : <<i, j>> \in less => <<j, i>> \notin less
  BY <1>1
<1>4. \A i, j, k \in DOMAIN s : <<i, k>> \in less => <<i, j>> \in less \/ <<j, k>> \in less
  BY <1>1
<1> QED
  BY <1>1, <1>2, <1>3, <1>4 DEF WeakOrder

\* What is sorted by a number descends in it.
LEMMA Descends ==
  ASSUME NEW s, NEW number, \A i \in DOMAIN s : number[i] \in Int,
         NEW less, \A i, j \in DOMAIN s : <<i, j>> \in less <=> number[i] > number[j],
         NEW t, NEW at, Sorts(s, less, t, at)
  PROVE  \A k, l \in DOMAIN t : k < l =>
           \/ number[at[k]] > number[at[l]]
           \/ number[at[k]] = number[at[l]] /\ at[k] < at[l]
<1> SUFFICES ASSUME NEW k \in DOMAIN t, NEW l \in DOMAIN t, k < l
             PROVE  \/ number[at[k]] > number[at[l]]
                    \/ number[at[k]] = number[at[l]] /\ at[k] < at[l]
  OBVIOUS
<1>1. at[k] \in DOMAIN s /\ at[l] \in DOMAIN s
  BY DEF Sorts
<1>2. \/ <<at[k], at[l]>> \in less
      \/ <<at[l], at[k]>> \notin less /\ at[k] < at[l]
  BY DEF Sorts
<1>3. number[at[k]] \in Int /\ number[at[l]] \in Int
  BY <1>1
<1>4. CASE <<at[k], at[l]>> \in less
  BY <1>1, <1>4
<1>5. CASE <<at[k], at[l]>> \notin less /\ <<at[l], at[k]>> \notin less /\ at[k] < at[l]
  <2>1. ~(number[at[k]] > number[at[l]]) /\ ~(number[at[l]] > number[at[k]])
    BY <1>1, <1>5
  <2> QED
    BY <1>3, <1>5, <2>1
<1> QED
  BY <1>2, <1>4, <1>5

LEMMA SortedNone ==
  ASSUME NEW less
  PROVE  Sorted(<<>>, less) = <<>>
<1>1. Cardinality(DOMAIN <<>>) = 0
  BY FS_EmptySet
<1> QED
  BY <1>1 DEF Sorted, Arranged

LEMMA PickedNone ==
  ASSUME NEW s
  PROVE  Picked(s, {}) = <<>>
BY FS_EmptySet DEF Picked, Arranged

LEMMA MadeOfNone ==
  /\ DedupeRecordings(<<>>) = <<>>
  /\ ResolveCanonicalRecordings(<<>>) = <<>>
  /\ \A exact : CanonicalizeReleaseGroups(<<>>, exact, Limit) = <<>>
  /\ Cut(<<>>, Limit) = <<>>
<1>1. \A f : DOMAIN f = {} /\ f = [x \in DOMAIN f |-> f[x]] => f = <<>>
  OBVIOUS
<1>2. Cut(<<>>, Limit) = <<>>
  <2>1. <<>> \in Seq({})
    OBVIOUS
  <2> QED
    BY <2>1, CutIs, RequestsAssumption
<1>3. DedupeRecordings(<<>>) = <<>>
  <2>1. FirstOfKey(<<>>) = {}
    BY DEF FirstOfKey
  <2> QED
    BY <2>1, SortedNone, PickedNone DEF DedupeRecordings
<1>4. Groups(<<>>) = <<>>
  <2>1. <<>> \in Seq({}) /\ Len(<<>>) = 0
    OBVIOUS
  <2>2. Grown(<<>>)[0] = <<>>
    BY <2>1, GrownBy
  <2> QED
    BY <2>1, <2>2, SortedNone DEF Groups
<1>5. ResolveCanonicalRecordings(<<>>) = <<>>
  <2> DEFINE canonical == [g \in DOMAIN <<>> |->
               [CanonicalizeGroup(<<>>[g]) EXCEPT !.possibleDuplicates = PossibleDuplicates(<<>>, g)]]
  <2>1. canonical = <<>>
    OBVIOUS
  <2> HIDE DEF canonical
  <2>2. ResolveCanonicalRecordings(<<>>) =
          Sorted(canonical, {p \in Pairs(canonical) :
                               canonical[p[1]].confidence > canonical[p[2]].confidence})
    BY <1>4 DEF ResolveCanonicalRecordings, ByCertainty, CanonicalRecordings, canonical
  <2> QED
    BY <2>1, <2>2, SortedNone
<1>6. ASSUME NEW exact PROVE CanonicalizeReleaseGroups(<<>>, exact, Limit) = <<>>
  <2>1. Named(<<>>) = <<>>
    <3>1. {i \in DOMAIN <<>> : <<>>[i].releaseGroup # NoId} = {}
      OBVIOUS
    <3> QED
      BY <3>1, PickedNone DEF Named
  <2> DEFINE albums == [i \in DOMAIN <<>> |-> AlbumFromReleaseGroup(<<>>[i], exact)]
             best == Picked(albums, BestOfGroup(albums))
  <2>2. albums = <<>>
    OBVIOUS
  <2>3. CanonicalizeReleaseGroups(<<>>, exact, Limit) = Cut(Sorted(best, ByConfidence(best)), Limit)
    BY <2>1 DEF CanonicalizeReleaseGroups
  <2> HIDE DEF albums
  <2>4. best = <<>>
    <3>1. BestOfGroup(<<>>) = {}
      BY DEF BestOfGroup
    <3> QED
      BY <2>2, <3>1, PickedNone
  <2> HIDE DEF best
  <2> QED
    BY <1>2, <2>3, <2>4, SortedNone
<1> QED
  BY <1>2, <1>3, <1>5, <1>6

-----------------------------------------------------------------------------
(* A failure is earned *)

\* The detail of an artist is asked for only when one was found by name, with an id.
LEMMA DetailFollows ==
  ASSUME Inv, request.endpoint = "artists", Data("artistDetail") # <<>>
  PROVE  DetailDue
<1>1. "artistDetail" \in Calls
  BY DEF Calls
<1>2. "artistDetail" \in ArtistsDue
  BY <1>1, BroughtIs DEF Inv, AskedInTurn, Due
<1>3. "artistDetail" \notin Fallback(ArtistLookups)
  BY ArtistLookupsAre DEF Fallback, ArtistCalls
<1>4. "artistDetail" \notin Chain(<<"profile", "intro">>)
  BY DEF Chain
<1> QED
  BY <1>2, <1>3, <1>4 DEF ArtistsDue

\* When no base lookup brought anything there is nothing to answer.
LEMMA NothingFromNothing ==
  ASSUME Inv, \A c \in Base : Data(c) = <<>>, request.endpoint # "lyrics"
  PROVE  (IF request.endpoint = "artists" THEN ArtistValues ELSE Body) = <<>>
<1>1. \A c \in Base : Found(c) = <<>>
  BY FoundNothing
<1>2. <<>> \o <<>> = <<>>
  BY ConcatEmptySeq, EmptySeq
<1>3. Evidence = <<>>
  BY <1>1, <1>2 DEF Evidence, Base
<1>4. request.endpoint \in Endpoints
  BY RequestsAssumption DEF Inv, Typed
<1>5. RecordingsV1 = <<>> /\ RecordingsV2 = <<>>
  BY <1>3, MadeOfNone DEF RecordingsV1, RecordingsV2
<1>6. Albums = <<>>
  <2>1. Data("release") = <<>> /\ Data("releaseGroup") = <<>> /\ Data("groupSearch") = <<>>
    BY DEF Base
  <2>2. {i \in DOMAIN <<>> : <<>>[i].release = AskedRelease} = {}
    OBVIOUS
  <2> QED
    BY <1>2, <2>1, <2>2, MadeOfNone DEF Albums
<1>7. request.endpoint = "artists" => ArtistValues = <<>>
  <2>1. /\ Data("artistById") = <<>> /\ Data("artistSearch") = <<>>
        /\ Data("neteaseArtist") = <<>> /\ Data("qqArtist") = <<>>
    BY DEF Base
  <2> QED
    BY <1>2, <2>1, DetailFollows DEF ArtistValues, DetailDue
<1> QED
  BY <1>4, <1>5, <1>6, <1>7 DEF Body, Endpoints

\* Without a rejection, a request is refused when the base lookups all failed.
LEMMA RefusedIs ==
  ASSUME Inv, Uncaught = {}
  PROVE  Refused <=> /\ \E c \in Base : got[c] # Unasked
                     /\ \A c \in Base : got[c] \in {Unasked, Failure}
<1>1. \A c \in Base : c \in Calls \ WordLookups
  BY DEF Calls, Base, WordLookups, Parallel
<1>2. \A c \in Base : got[c] # Thrown
  BY <1>1 DEF Uncaught
<1>3. \A c \in Base : c \in Attempted <=> got[c] # Unasked
  BY <1>1, <1>2, ReturnedIs DEF Attempted, Asked, Inv
<1>4. \A c \in Base : got[c].reached <=> got[c] \notin {Unasked, Failure}
  BY <1>1, <1>2, ReachedIs DEF Inv
<1>5. Reachable = {} <=> \A c \in Base : got[c] \in {Unasked, Failure}
  BY <1>3, <1>4 DEF Reachable, Attempted
<1>6. Attempted # {} <=> \E c \in Base : got[c] # Unasked
  BY <1>3 DEF Attempted
<1>7. ASSUME \A c \in Base : got[c] \in {Unasked, Failure}, request.endpoint # "lyrics"
      PROVE  (IF request.endpoint = "artists" THEN ArtistValues ELSE Body) = <<>>
  <2>1. \A c \in Base : Data(c) = <<>>
    BY <1>7 DEF Data, Unasked, Failure
  <2> QED
    BY <1>7, <2>1, NothingFromNothing
<1> QED
  BY <1>5, <1>6, <1>7 DEF Refused

LEMMA BadGatewayInv == Inv => BadGatewayIsEarned
<1> SUFFICES ASSUME Inv, status \in {200, 502}
             PROVE  status = 502 <=>
                      \/ \E c \in Calls \ WordLookups : got[c] = Thrown
                      \/ /\ \E c \in Base : got[c] # Unasked
                         /\ \A c \in Base : got[c] \in {Unasked, Failure}
                      \/ SchemaRefuses
  BY DEF BadGatewayIsEarned
<1>1. status = 502 <=> Uncaught # {} \/ Refused \/ SchemaRefuses
  BY DEF Inv, Settled, BadGateway
<1>2. Uncaught # {} <=> \E c \in Calls \ WordLookups : got[c] = Thrown
  BY DEF Uncaught
<1> QED
  BY <1>1, <1>2, RefusedIs

\* A failure says that a lookup rejected, that no base lookup reached anything, or that
\* the answer was not one its schema allows: what the enrichments answer is never counted.
THEOREM FailureIsEarned == Spec => []BadGatewayIsEarned
BY SearchIsSettled, BadGatewayInv, PTL

-----------------------------------------------------------------------------
(* Evidence *)

\* MusicBrainz and AcoustID name a recording by its MBID; iTunes names its own track.
Identifying ==
  [provider : {"musicbrainz", "acoustid"}, id : Ids, title : Titles, artist : Texts,
   duration : Nat, whole : BOOLEAN, mbid : Ids, isrcs : SUBSET Ids,
   verified : BOOLEAN, acoustId : Nat, score : Scores]
Supplementing ==
  [provider : {"itunes"}, id : Ids, title : Titles, artist : Texts,
   duration : Nat, whole : BOOLEAN, mbid : {NoId}, isrcs : {{}},
   verified : {FALSE}, acoustId : {NoId}, score : Scores]
Evidences == Identifying \cup Supplementing

LEMMA MaxOfTwo ==
  ASSUME NEW m \in Int, NEW n \in Int
  PROVE  Max({m, n}) = IF m >= n THEN m ELSE n
<1> DEFINE x == IF m >= n THEN m ELSE n
<1>1. x \in {m, n} /\ \A y \in {m, n} : x >= y
  OBVIOUS
<1>2. \A z \in {m, n} : (\A y \in {m, n} : z >= y) => z = x
  OBVIOUS
<1> HIDE DEF x
<1>3. Max({m, n}) = x
  BY <1>1, <1>2 DEF Max
<1> QED
  BY <1>3 DEF x

LEMMA TitledIs ==
  ASSUME NEW S, NEW s \in Seq(S)
  PROVE  Titled(s) \in Seq(S)
<1> DEFINE I == {i \in DOMAIN s : s[i].title.text # ""}
<1>1. I \in SUBSET DOMAIN s
  OBVIOUS
<1>2. Titled(s) = Picked(s, I)
  BY DEF Titled
<1> HIDE DEF I
<1> QED
  BY <1>1, <1>2, PickedBy

RecordingCalls == {"byId", "byIsrc", "byPrint", "byText", "itunes"}

LEMMA ResultsAre ==
  ASSUME NEW c
  PROVE  /\ c \in MusicBrainzLookups => Results(c) = MusicBrainzResults
         /\ c = "byPrint" => Results(c) = FingerprintResults
         /\ c = "itunes" => Results(c) = ItunesResults
         /\ c \in {"release", "releaseGroup", "groupSearch"} => Results(c) = AlbumResults
<1>1. CASE c \in MusicBrainzLookups
  BY <1>1 DEF Results, MusicBrainzLookups, WordLookups, Parallel
<1>2. CASE c = "byPrint"
  BY <1>2 DEF Results, MusicBrainzLookups, WordLookups, Parallel
<1>3. CASE c = "itunes"
  BY <1>3 DEF Results, MusicBrainzLookups, WordLookups, Parallel
<1>4. CASE c \in {"release", "releaseGroup", "groupSearch"}
  BY <1>4 DEF Results, MusicBrainzLookups, WordLookups, Parallel
<1> QED
  BY <1>1, <1>2, <1>3, <1>4

LEMMA MusicBrainzFields ==
  \A r \in MusicBrainzResults :
    /\ r.id \in Ids /\ r.title \in Titles /\ r.artist \in Texts
    /\ r.duration \in Nat /\ r.whole \in BOOLEAN /\ r.isrcs \in SUBSET Ids /\ r.score \in Scores
BY DEF MusicBrainzResults

LEMMA FingerprintFields ==
  \A r \in FingerprintResults :
    /\ r.acoustId \in Ids /\ r.id \in Ids /\ r.title \in Titles
    /\ r.artist \in Texts /\ r.score \in Scores
BY DEF FingerprintResults

LEMMA ItunesFields ==
  \A r \in ItunesResults :
    /\ r.id \in Ids /\ r.title \in Titles /\ r.artist \in Texts
    /\ r.duration \in Nat /\ r.whole \in BOOLEAN
BY DEF ItunesResults

LEMMA AlbumFields ==
  \A r \in AlbumResults :
    r.release \in Nat /\ r.releaseGroup \in Nat /\ r.score \in Scores
BY DEF AlbumResults

\* The score of the track that iTunes lists at position i.
LEMMA ItunesScore ==
  ASSUME NEW i \in Nat \ {0}
  PROVE  Max({0, 7500 - 100 * (i - 1)}) \in Scores
<1> DEFINE x == 7500 - 100 * (i - 1)
<1>1. x \in Int /\ x <= 10000
  OBVIOUS
<1> HIDE DEF x
<1>2. Max({0, x}) = IF 0 >= x THEN 0 ELSE x
  BY <1>1, MaxOfTwo
<1>3. (IF 0 >= x THEN 0 ELSE x) \in Scores
  BY SMTT(30), <1>1 DEF Scores
<1>4. Max({0, x}) \in Scores
  BY <1>2, <1>3
<1> QED
  BY <1>4 DEF x

\* What MusicBrainz lists becomes evidence that names a recording.
LEMMA MusicBrainzFound ==
  ASSUME NEW d \in Seq(MusicBrainzResults), NEW exact \in BOOLEAN
  PROVE  MapMbRecordings(d, exact) \in Seq(Identifying)
<1> DEFINE f == [i \in DOMAIN d |->
      [provider |-> "musicbrainz", id |-> d[i].id, title |-> d[i].title,
       artist |-> d[i].artist, duration |-> d[i].duration, whole |-> d[i].whole,
       mbid |-> d[i].id, isrcs |-> d[i].isrcs, verified |-> FALSE,
       acoustId |-> NoId, score |-> IF exact THEN 10000 ELSE d[i].score]]
<1>1. /\ Len(d) \in Nat /\ DOMAIN d = 1..Len(d)
      /\ \A i \in 1..Len(d) : d[i] \in MusicBrainzResults
  BY LenProperties, ElementOfSeq
<1>2. ASSUME NEW i \in 1..Len(d)
      PROVE  f[i] \in Identifying
  <2>0. d[i] \in MusicBrainzResults
    BY <1>1
  <2>1. /\ d[i].id \in Ids /\ d[i].title \in Titles /\ d[i].artist \in Texts
        /\ d[i].duration \in Nat /\ d[i].whole \in BOOLEAN /\ d[i].isrcs \in SUBSET Ids
    BY <2>0, MusicBrainzFields
  <2>2. (IF exact THEN 10000 ELSE d[i].score) \in Scores
    <3>1. d[i].score \in Scores
      BY <2>0, MusicBrainzFields
    <3>2. 10000 \in Scores
      BY SMTT(30) DEF Scores
    <3> QED
      BY <3>1, <3>2
  <2> QED
    BY <1>1, <2>1, <2>2, NoIdAssumption DEF Identifying
<1>3. f \in Seq(Identifying)
  BY <1>1, <1>2
<1>4. MapMbRecordings(d, exact) = Titled(f)
  BY DEF MapMbRecordings
<1> HIDE DEF f
<1> QED
  BY <1>3, <1>4, TitledIs

\* What AcoustID lists becomes evidence that names a recording.
LEMMA AcoustIdFound ==
  ASSUME NEW d \in Seq(FingerprintResults)
  PROVE  AcoustIdLookup(d) \in Seq(Identifying)
<1> DEFINE f == [i \in DOMAIN d |->
      [provider |-> "acoustid", id |-> d[i].acoustId, title |-> d[i].title,
       artist |-> d[i].artist, duration |-> PrintDuration, whole |-> TRUE,
       mbid |-> d[i].id, isrcs |-> {}, verified |-> TRUE,
       acoustId |-> d[i].acoustId, score |-> d[i].score]]
<1>1. /\ Len(d) \in Nat /\ DOMAIN d = 1..Len(d)
      /\ \A i \in 1..Len(d) : d[i] \in FingerprintResults
  BY LenProperties, ElementOfSeq
<1>2. ASSUME NEW i \in 1..Len(d)
      PROVE  f[i] \in Identifying
  <2>0. d[i] \in FingerprintResults
    BY <1>1
  <2>1. d[i].acoustId \in Ids /\ d[i].acoustId \in Nat /\ d[i].id \in Ids
    BY <2>0, FingerprintFields DEF Ids
  <2>2. d[i].title \in Titles /\ d[i].artist \in Texts /\ d[i].score \in Scores
    BY <2>0, FingerprintFields
  <2> QED
    BY <1>1, <2>1, <2>2, RequestsAssumption DEF Identifying
<1>3. f \in Seq(Identifying)
  BY <1>1, <1>2
<1>4. AcoustIdLookup(d) = Titled(f)
  BY DEF AcoustIdLookup
<1> HIDE DEF f
<1> QED
  BY <1>3, <1>4, TitledIs

\* What iTunes lists becomes evidence that names no recording.
LEMMA ItunesFound ==
  ASSUME NEW d \in Seq(ItunesResults)
  PROVE  ItunesLookup(d) \in Seq(Supplementing)
<1> DEFINE f == [i \in DOMAIN d |->
      [provider |-> "itunes", id |-> d[i].id, title |-> d[i].title,
       artist |-> d[i].artist, duration |-> d[i].duration, whole |-> d[i].whole,
       mbid |-> NoId, isrcs |-> {}, verified |-> FALSE,
       acoustId |-> NoId, score |-> Max({0, 7500 - 100 * (i - 1)})]]
<1>1. /\ Len(d) \in Nat /\ DOMAIN d = 1..Len(d)
      /\ \A i \in 1..Len(d) : d[i] \in ItunesResults /\ i \in Nat \ {0}
  BY LenProperties, ElementOfSeq
<1>2. ASSUME NEW i \in 1..Len(d)
      PROVE  f[i] \in Supplementing
  <2>0. d[i] \in ItunesResults
    BY <1>1
  <2>1. /\ d[i].id \in Ids /\ d[i].title \in Titles /\ d[i].artist \in Texts
        /\ d[i].duration \in Nat /\ d[i].whole \in BOOLEAN
    BY <2>0, ItunesFields
  <2>2. Max({0, 7500 - 100 * (i - 1)}) \in Scores
    BY <1>1, ItunesScore
  <2> QED
    BY <1>1, <2>1, <2>2, NoIdAssumption DEF Supplementing
<1>3. f \in Seq(Supplementing)
  BY <1>1, <1>2
<1>4. ItunesLookup(d) = Titled(f)
  BY DEF ItunesLookup
<1> HIDE DEF f
<1> QED
  BY <1>3, <1>4, TitledIs

\* Of a lookup there is a list.
LEMMA ListedIs ==
  ASSUME Typed, NEW c \in Calls
  PROVE  Data(c) \in Seq(Results(c))
BY GotIs DEF Data

\* What each recording lookup has found.
LEMMA FoundIs ==
  ASSUME Typed
  PROVE  /\ \A c \in {"byId", "byIsrc", "byText"} : Found(c) \in Seq(Identifying)
         /\ Found("byPrint") \in Seq(Identifying)
         /\ Found("itunes") \in Seq(Supplementing)
<1>1. ASSUME NEW c \in {"byId", "byIsrc", "byText"}
      PROVE  Found(c) \in Seq(Identifying)
  <2>1. c \in Calls /\ c \in MusicBrainzLookups
    BY DEF Calls, Base, MusicBrainzLookups
  <2>2. PICK d : d = Data(c)
    OBVIOUS
  <2>3. d \in Seq(MusicBrainzResults)
    BY <2>1, <2>2, ListedIs, ResultsAre
  <2>4. \A exact \in BOOLEAN : MapMbRecordings(d, exact) \in Seq(Identifying)
    BY <2>3, MusicBrainzFound
  <2>5. Found(c) = MapMbRecordings(d, TRUE) \/ Found(c) = MapMbRecordings(d, FALSE)
    BY <2>2 DEF Found
  <2> QED
    BY <2>4, <2>5
<1>2. Found("byPrint") \in Seq(Identifying)
  <2>1. "byPrint" \in Calls
    BY DEF Calls, Base
  <2>2. PICK d : d = Data("byPrint")
    OBVIOUS
  <2>3. d \in Seq(FingerprintResults)
    BY <2>1, <2>2, ListedIs, ResultsAre
  <2>4. Found("byPrint") = AcoustIdLookup(d)
    BY <2>2 DEF Found
  <2> QED
    BY <2>3, <2>4, AcoustIdFound
<1>3. Found("itunes") \in Seq(Supplementing)
  <2>1. "itunes" \in Calls
    BY DEF Calls, Base
  <2>2. PICK d : d = Data("itunes")
    OBVIOUS
  <2>3. d \in Seq(ItunesResults)
    BY <2>1, <2>2, ListedIs, ResultsAre
  <2>4. Found("itunes") = ItunesLookup(d)
    BY <2>2 DEF Found
  <2> QED
    BY <2>3, <2>4, ItunesFound
<1> QED
  BY <1>1, <1>2, <1>3

LEMMA EvidenceIs ==
  ASSUME Typed
  PROVE  Evidence \in Seq(Evidences)
<1>1. /\ Found("byId") \in Seq(Evidences) /\ Found("byIsrc") \in Seq(Evidences)
      /\ Found("byPrint") \in Seq(Evidences) /\ Found("byText") \in Seq(Evidences)
      /\ Found("itunes") \in Seq(Evidences)
  <2>1. \A s : s \in Seq(Identifying) \/ s \in Seq(Supplementing) => s \in Seq(Evidences)
    BY DEF Evidences
  <2> QED
    BY <2>1, FoundIs
<1> QED
  BY <1>1 DEF Evidence

LEMMA EvidenceFields ==
  /\ \A e \in Identifying : /\ e.provider \in {"musicbrainz", "acoustid"} /\ e.mbid \in Ids
                            /\ e.id \in Ids /\ e.isrcs \in SUBSET Ids /\ e.score \in Scores
                            /\ e.duration \in Nat /\ e.title \in Titles /\ e.artist \in Texts
                            /\ e.verified \in BOOLEAN /\ e.acoustId \in Nat
  /\ \A e \in Supplementing : /\ e.provider = "itunes" /\ e.mbid = NoId /\ ~e.verified
                              /\ e.id \in Ids /\ e.isrcs = {} /\ e.score \in Scores
                              /\ e.duration \in Nat /\ e.title \in Titles /\ e.artist \in Texts
                              /\ e.acoustId = NoId
BY DEF Identifying, Supplementing

-----------------------------------------------------------------------------
(* The best of each key *)

LEMMA ScoreIs == \A e \in Evidences : e.score \in Int
<1>1. \A e \in Evidences : e.score \in Scores
  BY EvidenceFields DEF Evidences
<1>2. \A x \in Scores : x \in Int
  BY SMTT(30) DEF Scores
<1> QED
  BY <1>1, <1>2

LEMMA DedupedTyped ==
  ASSUME NEW E \in Seq(Evidences)
  PROVE  DedupeRecordings(E) \in Seq(Evidences)
<1>1. \A i \in DOMAIN E : E[i] \in Evidences
  BY LenProperties, ElementOfSeq
<1> DEFINE number == [i \in DOMAIN E |-> E[i].score]
           less == {p \in Pairs(E) : E[p[1]].score > E[p[2]].score}
<1>2. \A i \in DOMAIN E : number[i] \in Int /\ number[i] = E[i].score
  BY <1>1, ScoreIs
<1>3. less = {p \in Pairs(E) : number[p[1]] > number[p[2]]}
  BY <1>2 DEF Pairs
<1>4. PICK sorted : sorted = Sorted(E, less)
  OBVIOUS
<1>5. DedupeRecordings(E) = Picked(sorted, FirstOfKey(sorted))
  BY <1>4 DEF DedupeRecordings
<1> HIDE DEF number, less
<1>6. WeakOrder(E, less)
  BY <1>2, <1>3, ByNumber
<1>7. sorted \in Seq(Evidences)
  BY <1>4, <1>6, SortOf
<1>8. FirstOfKey(sorted) \in SUBSET DOMAIN sorted
  BY DEF FirstOfKey
<1> QED
  BY <1>5, <1>7, <1>8, PickOf

\* Of each key the first version keeps one result, the one with the best score.
LEMMA DedupedIs ==
  ASSUME NEW E \in Seq(Evidences), NEW v \in ToSet(E)
  PROVE  \E i \in DOMAIN DedupeRecordings(E) :
           /\ DedupeKey(DedupeRecordings(E)[i]) = DedupeKey(v)
           /\ DedupeRecordings(E)[i].score >= v.score
           /\ \A j \in DOMAIN DedupeRecordings(E) \ {i} :
                DedupeKey(DedupeRecordings(E)[j]) # DedupeKey(v)
<1>1. Len(E) \in Nat /\ DOMAIN E = 1..Len(E) /\ \A i \in DOMAIN E : E[i] \in Evidences
  BY LenProperties, ElementOfSeq
<1> DEFINE number == [i \in DOMAIN E |-> E[i].score]
           less == {p \in Pairs(E) : E[p[1]].score > E[p[2]].score}
<1>2. \A i \in DOMAIN E : number[i] \in Int /\ number[i] = E[i].score
  BY <1>1, ScoreIs
<1>3. less = {p \in Pairs(E) : number[p[1]] > number[p[2]]}
  BY <1>2 DEF Pairs
<1>4. PICK sorted : sorted = Sorted(E, less)
  OBVIOUS
<1>5. DedupeRecordings(E) = Picked(sorted, FirstOfKey(sorted))
  BY <1>4 DEF DedupeRecordings
<1> HIDE DEF number, less
<1>6. WeakOrder(E, less) /\ \A i, j \in DOMAIN E : <<i, j>> \in less <=> number[i] > number[j]
  BY <1>2, <1>3, ByNumber
<1>7. PICK at : sorted \in Seq(Evidences) /\ Sorts(E, less, sorted, at)
  BY <1>4, <1>6, SortOf
<1> DEFINE n == Len(sorted)
<1>8. n \in Nat /\ DOMAIN sorted = 1..n /\ DOMAIN E = 1..n
  BY <1>7 DEF Sorts
<1>0. /\ \A k \in DOMAIN sorted : at[k] \in DOMAIN E /\ sorted[k] = E[at[k]]
      /\ \A i \in DOMAIN E : \E k \in DOMAIN sorted : at[k] = i /\ sorted[k] = E[i]
  BY <1>6, <1>7, SortHas
<1>9. \A k, l \in 1..n : k <= l => sorted[k].score >= sorted[l].score
  <2> SUFFICES ASSUME NEW k \in 1..n, NEW l \in 1..n, k <= l
               PROVE  sorted[k].score >= sorted[l].score
    OBVIOUS
  <2>1. /\ at[k] \in DOMAIN E /\ at[l] \in DOMAIN E
        /\ sorted[k] = E[at[k]] /\ sorted[l] = E[at[l]]
    BY <1>0, <1>8
  <2>2. number[at[k]] \in Int /\ number[at[l]] \in Int
    BY <1>2, <2>1
  <2>3. k < l => number[at[k]] >= number[at[l]]
    <3>1. \A x, y \in DOMAIN sorted : x < y =>
            \/ number[at[x]] > number[at[y]]
            \/ number[at[x]] = number[at[y]] /\ at[x] < at[y]
      BY <1>2, <1>6, <1>7, Descends
    <3> QED
      BY <1>8, <2>2, <3>1
  <2>4. number[at[k]] >= number[at[l]]
    BY <1>8, <2>2, <2>3
  <2> QED
    BY <1>2, <2>1, <2>4
<1>10. PICK I : I = FirstOfKey(sorted)
  OBVIOUS
<1>11. I \in SUBSET DOMAIN sorted
  BY <1>10 DEF FirstOfKey
<1>12. \A i \in 1..n : i \in I <=> \A j \in 1 .. i - 1 : DedupeKey(sorted[j]) # DedupeKey(sorted[i])
  BY <1>8, <1>10 DEF FirstOfKey
<1>13. PICK kept : kept = Picked(sorted, I)
  OBVIOUS
<1>14. PICK to : Picks(sorted, I, kept, to)
  BY <1>7, <1>11, <1>13, PickOf
<1> DEFINE m == Len(kept)
<1>15. /\ m \in Nat /\ DOMAIN kept = 1..m /\ to \in [1..m -> I]
       /\ \A i \in I : \E k \in 1..m : to[k] = i
       /\ \A k, l \in 1..m : k < l <=> to[k] < to[l]
       /\ \A k \in 1..m : kept[k] = sorted[to[k]]
  BY <1>14 DEF Picks
<1> HIDE DEF n, m
<1>16. PICK k \in 1..n : sorted[k] = v
  <2>1. PICK i \in 1..n : E[i] = v
    BY <1>8 DEF ToSet
  <2> QED
    BY <1>0, <1>8, <2>1
<1> DEFINE same == {j \in 1..n : DedupeKey(sorted[j]) = DedupeKey(v)}
<1>17. PICK f \in same : \A j \in same : f <= j
  <2>1. same \in SUBSET Nat /\ same # {}
    BY <1>8, <1>16
  <2> HIDE DEF same
  <2> QED
    BY <2>1, LeastOf
<1>18. f \in 1..n /\ f \in I /\ sorted[f].score >= v.score /\ DedupeKey(sorted[f]) = DedupeKey(v)
  <2>1. f \in 1..n /\ DedupeKey(sorted[f]) = DedupeKey(v) /\ k \in same /\ f <= k
    BY <1>16, <1>17
  <2>2. \A j \in 1 .. f - 1 : DedupeKey(sorted[j]) # DedupeKey(sorted[f])
    BY <1>8, <1>17, <2>1
  <2>3. sorted[f].score >= v.score
    BY <1>9, <1>16, <2>1
  <2> QED
    BY <1>12, <2>1, <2>2, <2>3
<1>19. PICK i \in 1..m : to[i] = f
  BY <1>15, <1>18
<1>20. ASSUME NEW j \in 1..m, j # i, DedupeKey(kept[j]) = DedupeKey(v) PROVE FALSE
  <2>1. to[j] \in I /\ to[j] \in 1..n /\ kept[j] = sorted[to[j]]
    BY <1>8, <1>11, <1>15
  <2>2. to[j] # f
    <3>1. j < i \/ i < j
      BY <1>15, <1>20
    <3>2. to[j] < to[i] \/ to[i] < to[j]
      BY <1>15, <3>1
    <3> QED
      BY <1>8, <1>18, <1>19, <2>1, <3>2
  <2>3. to[j] \in same
    BY <1>20, <2>1
  <2>4. f < to[j]
    BY <1>8, <1>17, <1>18, <2>1, <2>2, <2>3
  <2>5. f \in 1 .. to[j] - 1
    BY <1>8, <1>18, <2>1, <2>4
  <2> QED
    BY <1>12, <1>18, <1>20, <2>1, <2>5
<1>21. kept[i] = sorted[f]
  BY <1>15, <1>19
<1>22. /\ i \in DOMAIN kept /\ DedupeKey(kept[i]) = DedupeKey(v) /\ kept[i].score >= v.score
       /\ \A j \in DOMAIN kept \ {i} : DedupeKey(kept[j]) # DedupeKey(v)
  BY <1>15, <1>18, <1>20, <1>21
<1> QED
  BY <1>5, <1>10, <1>13, <1>22

-----------------------------------------------------------------------------
(* What has been asked when an answer is given *)

\* A fallback whose lookups have all found nothing has been made to its end.
LEMMA AllOfFallback ==
  ASSUME NEW l \in Seq(Calls), \A c \in Fallback(l) : Returned(c) /\ Found(c) = <<>>
  PROVE  \A c \in ToSet(l) : c \in Fallback(l)
<1>1. Len(l) \in Nat /\ DOMAIN l = 1..Len(l)
  BY LenProperties
<1> DEFINE skipped == {i \in 1..Len(l) : l[i] \notin Fallback(l)}
<1>2. skipped = {}
  <2> SUFFICES ASSUME skipped # {} PROVE FALSE
    OBVIOUS
  <2>1. skipped \in SUBSET Nat
    BY <1>1
  <2>2. PICK i \in skipped : \A j \in skipped : i <= j
    <3> HIDE DEF skipped
    <3> QED
      BY <2>1, LeastOf
  <2>3. \A j \in 1 .. i - 1 : l[j] \in Fallback(l)
    BY <1>1, <2>2
  <2>4. \A j \in 1 .. i - 1 : Returned(l[j]) /\ Found(l[j]) = <<>>
    BY <2>3
  <2> QED
    BY <1>1, <2>2, <2>4 DEF Fallback
<1> QED
  BY <1>1, <1>2 DEF ToSet

LEMMA AllInTurn ==
  ASSUME NEW l \in Seq(Calls), \A c \in InTurn(l) : Returned(c)
  PROVE  \A c \in ToSet(l) : c \in InTurn(l)
<1>1. Len(l) \in Nat /\ DOMAIN l = 1..Len(l)
  BY LenProperties
<1> DEFINE skipped == {i \in 1..Len(l) : l[i] \notin InTurn(l)}
<1>2. skipped = {}
  <2> SUFFICES ASSUME skipped # {} PROVE FALSE
    OBVIOUS
  <2>1. skipped \in SUBSET Nat
    BY <1>1
  <2>2. PICK i \in skipped : \A j \in skipped : i <= j
    <3> HIDE DEF skipped
    <3> QED
      BY <2>1, LeastOf
  <2>3. \A j \in 1 .. i - 1 : Returned(l[j])
    BY <1>1, <2>2
  <2> QED
    BY <1>1, <2>2, <2>3 DEF InTurn
<1> QED
  BY <1>1, <1>2 DEF ToSet

\* With an answer, what was due has been asked and has returned.
LEMMA OkIs ==
  ASSUME Inv, Ok
  PROVE  /\ ~Missing /\ Uncaught = {} /\ ~Refused
         /\ \A c \in Due : c \in Calls /\ Asked(c) /\ (c \notin WordLookups => Returned(c))
<1>1. ~Missing /\ Uncaught = {} /\ ~Refused /\ \A c \in Due : Asked(c)
  BY DEF Inv, Settled, Ok, BadGateway
<1>2. \A c \in Due : c \in Calls
  BY DueAre DEF Inv
<1>3. \A c \in Calls \ WordLookups : got[c] # Thrown
  BY <1>1 DEF Uncaught
<1>4. \A c \in Due : c \notin WordLookups => Returned(c)
  BY <1>1, <1>2, <1>3, ReturnedIs DEF Inv
<1> QED
  BY <1>1, <1>2, <1>4

LEMMA JoinedNone ==
  ASSUME NEW S, NEW s \in Seq(S), NEW T, NEW t \in Seq(T), s \o t = <<>>
  PROVE  s = <<>> /\ t = <<>>
<1>1. Len(s) \in Nat /\ Len(t) \in Nat
  BY LenProperties
<1>2. Len(s \o t) = Len(s) + Len(t) /\ Len(s \o t) = 0
  <2>1. s \in Seq(S \cup T) /\ t \in Seq(S \cup T)
    OBVIOUS
  <2> QED
    BY <2>1, ConcatProperties
<1>3. Len(s) = 0 /\ Len(t) = 0
  BY <1>1, <1>2
<1> QED
  BY <1>3, EmptySeq

LEMMA NoEvidence ==
  ASSUME Typed, Evidence = <<>>
  PROVE  \A c \in RecordingCalls : Found(c) = <<>>
<1> DEFINE E == Evidences
<1>1. /\ Found("byId") \in Seq(E) /\ Found("byIsrc") \in Seq(E)
      /\ Found("byPrint") \in Seq(E) /\ Found("byText") \in Seq(E)
      /\ Found("itunes") \in Seq(E)
  <2>1. \A s : s \in Seq(Identifying) \/ s \in Seq(Supplementing) => s \in Seq(Evidences)
    BY DEF Evidences
  <2> QED
    BY <2>1, FoundIs
<1> HIDE DEF E
<1>2. PICK a, b, p, x, y : /\ a = Found("byId") /\ b = Found("byIsrc") /\ p = Found("byPrint")
                           /\ x = Found("byText") /\ y = Found("itunes")
  OBVIOUS
<1>3. a \in Seq(E) /\ b \in Seq(E) /\ p \in Seq(E) /\ x \in Seq(E) /\ y \in Seq(E)
  BY <1>1, <1>2
<1>4. ((a \o b) \o p) \o x \o y = <<>>
  BY <1>2 DEF Evidence
<1>5. a \o b \in Seq(E) /\ (a \o b) \o p \in Seq(E) /\ ((a \o b) \o p) \o x \in Seq(E)
  BY <1>3
<1>6. ((a \o b) \o p) \o x = <<>> /\ y = <<>>
  BY <1>3, <1>4, <1>5, JoinedNone
<1>7. (a \o b) \o p = <<>> /\ x = <<>>
  BY <1>3, <1>5, <1>6, JoinedNone
<1>8. a \o b = <<>> /\ p = <<>>
  BY <1>3, <1>5, <1>7, JoinedNone
<1>9. a = <<>> /\ b = <<>>
  BY <1>3, <1>8, JoinedNone
<1> QED
  BY <1>2, <1>6, <1>7, <1>8, <1>9 DEF RecordingCalls

-----------------------------------------------------------------------------
(* Matching two results *)

Joins(l, r) == ~MatchRecordings(l, r).blocked /\ MatchRecordings(l, r).confidence >= Merges

LEMMA Tenth ==
  ASSUME NEW n \in Nat
  PROVE  n \div 10 \in Nat /\ 10 * (n \div 10) <= n
<1>1. n \div 10 \in Int
  OBVIOUS
<1>2. n \div 10 >= 0
  OBVIOUS
<1>3. 10 * (n \div 10) <= n
  OBVIOUS
<1> QED
  BY <1>1, <1>2, <1>3

\* Two texts and a difference give a confidence that is a score.
LEMMA NamedIs ==
  ASSUME NEW x \in Scores, NEW y \in Scores
  PROVE  /\ (4 * x + 4 * y) \div 10 \in Scores
         /\ (4 * x + 4 * y) \div 10 <= 8000
<1>1. x \in Nat /\ x <= 10000 /\ y \in Nat /\ y <= 10000
  BY SMTT(30) DEF Scores
<1> DEFINE n == 4 * x + 4 * y
<1>2. n \in Nat /\ n <= 80000
  <2>1. 4 * x + 4 * y \in Nat
    BY <1>1
  <2>2. 4 * x + 4 * y <= 80000
    BY <1>1
  <2> QED
    BY <2>1, <2>2
<1> HIDE DEF n
<1>3. n \div 10 \in Nat /\ 10 * (n \div 10) <= n
  BY <1>2, Tenth
<1> DEFINE c == n \div 10
<1> HIDE DEF c
<1>4. c \in Nat /\ c <= 8000
  BY <1>2, <1>3 DEF c
<1>5. c \in Scores /\ c <= 8000
  BY SMTT(30), <1>4 DEF Scores
<1> QED
  BY <1>5 DEF c, n

Timed(x, y, d) == (4 * x + 4 * y + 2 * ((10000 * (6 - d)) \div 6)) \div 10

LEMMA TimedIs ==
  ASSUME NEW x \in Scores, NEW y \in Scores, NEW d \in 0..6
  PROVE  Timed(x, y, d) \in Scores /\ (Timed(x, y, d) >= 9000 => d <= 3)
<1>1. x \in Nat /\ x <= 10000 /\ y \in Nat /\ y <= 10000
  BY SMTT(30) DEF Scores
<1> DEFINE z == (10000 * (6 - d)) \div 6
<1>2. z \in Nat /\ z <= 10000 /\ (d >= 4 => z <= 3334)
  <2>1. d \in {0, 1, 2, 3, 4, 5, 6}
    OBVIOUS
  <2> QED
    BY SMTT(30), <2>1
<1> HIDE DEF z
<1> DEFINE n == 4 * x + 4 * y + 2 * z
<1>3. n \in Nat /\ n <= 100000 /\ (d >= 4 => n <= 86668)
  <2>1. 4 * x + 4 * y + 2 * z \in Nat
    <3>1. 4 * x \in Nat /\ 4 * y \in Nat /\ 2 * z \in Nat
      BY SMTT(30), <1>1, <1>2
    <3> QED
      BY <3>1
  <2>2. 4 * x + 4 * y + 2 * z <= 100000
    BY SMTT(30), <1>1, <1>2
  <2>3. d >= 4 => 4 * x + 4 * y + 2 * z <= 86668
    BY <1>1, <1>2
  <2> QED
    BY <2>1, <2>2, <2>3
<1> HIDE DEF n
<1>4. n \div 10 \in Nat /\ 10 * (n \div 10) <= n
  BY <1>3, Tenth
<1> DEFINE c == n \div 10
<1> HIDE DEF c
<1>5. c \in Nat /\ c <= 10000 /\ (d >= 4 => c < 9000)
  BY <1>3, <1>4 DEF c
<1>6. c \in Scores /\ (c >= 9000 => d <= 3)
  BY SMTT(30), <1>5 DEF Scores
<1> QED
  BY <1>6 DEF c, n, z, Timed

\* What the texts of two results say.
LEMMA TextsMatch ==
  ASSUME NEW l \in Evidences, NEW r \in Evidences
  PROVE  /\ MatchTexts(l, r).confidence \in Scores
         /\ ~MatchTexts(l, r).blocked /\ MatchTexts(l, r).confidence >= Merges =>
              /\ l.title.versions = r.title.versions
              /\ l.duration - r.duration \in -3 .. 3
<1> DEFINE x == Similarity[<<l.title.text, r.title.text>>]
           y == Similarity[<<l.artist, r.artist>>]
           d == IF l.duration > r.duration THEN l.duration - r.duration
                                           ELSE r.duration - l.duration
           m == MatchTexts(l, r)
<1>1. /\ l.duration \in Nat /\ r.duration \in Nat
      /\ l.title \in Titles /\ r.title \in Titles /\ l.artist \in Texts /\ r.artist \in Texts
  BY EvidenceFields DEF Evidences
<1>2. l.title.text \in Texts /\ r.title.text \in Texts
  BY <1>1 DEF Titles
<1>3. x \in Scores /\ y \in Scores
  <2>1. \A p, q \in Texts : Similarity[<<p, q>>] \in Scores
    BY SimilarityAssumption
  <2> QED
    BY <1>1, <1>2, <2>1
<1>4. d \in Nat /\ (d <= 3 => l.duration - r.duration \in -3 .. 3)
  BY <1>1
<1>5. \/ m = Blocked
      \/ /\ l.title.versions = r.title.versions
         /\ x < 9200 \/ y < 9200 \/ ~(l.duration > 0 /\ r.duration > 0)
         /\ ~m.blocked
         /\ m.confidence = (4 * x + 4 * y) \div 10 \/ m.confidence = Min({8900, (4 * x + 4 * y) \div 10})
      \/ /\ l.title.versions = r.title.versions /\ ~(d > 6) /\ ~m.blocked
         /\ m.confidence = (4 * x + 4 * y + 2 * ((10000 * (6 - d)) \div 6)) \div 10
  BY DEF MatchTexts, Apart
<1>6. Blocked.confidence \in Scores /\ Blocked.blocked
  BY SMTT(30) DEF Blocked, Scores
<1> HIDE DEF x, y, d, m
<1>7. ASSUME m.confidence = (4 * x + 4 * y) \div 10 \/ m.confidence = Min({8900, (4 * x + 4 * y) \div 10})
      PROVE  m.confidence \in Scores /\ ~(m.confidence >= Merges)
  <2> DEFINE c == (4 * x + 4 * y) \div 10
  <2>1. c \in Scores /\ c <= 8000
    BY <1>3, NamedIs
  <2> HIDE DEF c
  <2>2. c \in Nat /\ 8900 \in Nat
    BY SMTT(30), <2>1 DEF Scores
  <2>3. Min({8900, c}) = c
    BY <2>1, <2>2, MinOfTwo
  <2>4. m.confidence = c
    BY <1>7, <2>3 DEF c
  <2> QED
    BY <2>1, <2>2, <2>4 DEF Merges
<1>8. ASSUME ~(d > 6), m.confidence = (4 * x + 4 * y + 2 * ((10000 * (6 - d)) \div 6)) \div 10
      PROVE  m.confidence \in Scores /\ (m.confidence >= Merges => d <= 3)
  <2>1. d \in 0..6
    BY <1>4, <1>8
  <2>2. m.confidence = Timed(x, y, d)
    BY <1>8 DEF Timed
  <2> QED
    BY <1>3, <2>1, <2>2, TimedIs DEF Merges
<1>9. /\ m.confidence \in Scores
      /\ ~m.blocked /\ m.confidence >= Merges =>
           l.title.versions = r.title.versions /\ d <= 3
  BY <1>5, <1>6, <1>7, <1>8
<1> QED
  BY <1>4, <1>9 DEF m

\* What makes two results match.
LEMMA MatchIs ==
  ASSUME NEW l \in Evidences, NEW r \in Evidences
  PROVE  /\ MatchRecordings(l, r).confidence \in Scores
         /\ l \in Identifying /\ r \in Identifying => (Joins(l, r) <=> l.mbid = r.mbid)
         /\ ~(l \in Identifying /\ r \in Identifying) =>
              MatchRecordings(l, r) = MatchTexts(l, r)
<1>1. CASE l \in Identifying /\ r \in Identifying
  <2>1. l.mbid # NoId /\ r.mbid # NoId
    BY <1>1, EvidenceFields DEF Ids
  <2>2. MatchRecordings(l, r) =
          IF l.mbid = r.mbid THEN Certain(10000, "recording_mbid") ELSE Blocked
    BY <2>1 DEF MatchRecordings
  <2>3. /\ Blocked.confidence \in Scores /\ Blocked.blocked
        /\ Certain(10000, "recording_mbid").confidence = 10000
        /\ ~Certain(10000, "recording_mbid").blocked
    BY SMTT(30) DEF Blocked, Certain, Scores
  <2>4. 10000 \in Scores /\ 10000 >= Merges
    BY SMTT(30) DEF Scores, Merges
  <2> QED
    BY <1>1, <2>2, <2>3, <2>4 DEF Joins
<1>2. CASE ~(l \in Identifying /\ r \in Identifying)
  <2>1. l \in Supplementing \/ r \in Supplementing
    BY <1>2 DEF Evidences
  <2>2. /\ l.mbid = NoId \/ r.mbid = NoId
        /\ l.isrcs = {} \/ r.isrcs = {}
        /\ ~l.verified \/ ~r.verified
    BY <2>1, EvidenceFields
  <2>3. MatchRecordings(l, r) = MatchTexts(l, r)
    BY <2>2 DEF MatchRecordings
  <2> QED
    BY <1>2, <2>3, TextsMatch
<1> QED
  BY <1>1, <1>2

-----------------------------------------------------------------------------
(* Placing a result *)

LEMMA LeastIs ==
  ASSUME NEW S \in SUBSET Nat, S # {}
  PROVE  Min(S) \in S /\ \A y \in S : Min(S) <= y
BY LeastOf DEF Min

Listed(s, m) == s = [g \in 1..m |-> s[g]]

LEMMA AppendedIs ==
  ASSUME NEW m \in Nat, NEW s, Listed(s, m), NEW e
  PROVE  Append(s, e) = [g \in 1 .. m + 1 |-> IF g = m + 1 THEN e ELSE s[g]]
<1> DEFINE S == {s[g] : g \in 1..m} \cup {e}
           t == Append(s, e)
<1>1. s \in Seq(S) /\ e \in S /\ Len(s) = m
  <2>1. \A g \in 1..m : s[g] \in S
    OBVIOUS
  <2>2. e \in S
    OBVIOUS
  <2> HIDE DEF S
  <2>3. s \in [1..m -> S]
    BY <2>1 DEF Listed
  <2> QED
    BY <2>2, <2>3
<1> HIDE DEF S
<1>2. /\ t \in Seq(S) /\ Len(t) = m + 1 /\ t[m + 1] = e
      /\ \A i \in 1..m : t[i] = s[i]
  BY <1>1, AppendProperties
<1>3. DOMAIN t = 1 .. m + 1 /\ t = [g \in DOMAIN t |-> t[g]]
  BY <1>2, LenProperties
<1> HIDE DEF t
<1>4. \A g \in 1 .. m + 1 : t[g] = IF g = m + 1 THEN e ELSE s[g]
  BY <1>2
<1> QED
  BY <1>3, <1>4 DEF t

IsGroup(g) ==
  /\ g = [evidence |-> g.evidence, matchBySource |-> g.matchBySource]
  /\ g.evidence \in Seq(Evidences) /\ g.evidence # <<>>
  /\ IsFiniteSet(DOMAIN g.matchBySource) /\ DOMAIN g.matchBySource # {}
  /\ \A k \in DOMAIN g.matchBySource : g.matchBySource[k].confidence \in Scores

LEMMA GroupHasFirst ==
  ASSUME NEW g, IsGroup(g)
  PROVE  /\ Len(g.evidence) \in Nat \ {0} /\ DOMAIN g.evidence = 1..Len(g.evidence)
         /\ 1 \in DOMAIN g.evidence
         /\ \A k \in DOMAIN g.evidence : g.evidence[k] \in Evidences
<1>1. /\ Len(g.evidence) \in Nat /\ DOMAIN g.evidence = 1..Len(g.evidence)
      /\ \A k \in DOMAIN g.evidence : g.evidence[k] \in Evidences
  BY LenProperties, ElementOfSeq DEF IsGroup
<1>2. Len(g.evidence) # 0
  BY EmptySeq DEF IsGroup
<1> QED
  BY <1>1, <1>2

\* A result is placed with a group whose first result it joins, if there is one.
LEMMA GroupOfIs ==
  ASSUME NEW m \in Nat, NEW groups, DOMAIN groups = 1..m,
         \A g \in 1..m : IsGroup(groups[g]), NEW v \in Evidences
  PROVE  \/ /\ GroupOf(groups, v) = 0
            /\ \A g \in 1..m : ~Joins(groups[g].evidence[1], v)
         \/ /\ GroupOf(groups, v) \in 1..m
            /\ Joins(groups[GroupOf(groups, v)].evidence[1], v)
<1> DEFINE match == [g \in DOMAIN groups |-> MatchRecordings(groups[g].evidence[1], v)]
           near == {g \in DOMAIN groups : ~match[g].blocked /\ match[g].confidence >= Merges}
           best == {g \in near : \A h \in near : match[g].confidence >= match[h].confidence}
<1>1. GroupOf(groups, v) = IF near = {} THEN 0 ELSE Min(best)
  BY DEF GroupOf
<1>2. ASSUME NEW g \in 1..m
      PROVE  /\ match[g].confidence \in Nat
             /\ g \in near <=> Joins(groups[g].evidence[1], v)
  <2>1. groups[g].evidence[1] \in Evidences
    BY GroupHasFirst
  <2>2. match[g] = MatchRecordings(groups[g].evidence[1], v)
    OBVIOUS
  <2> HIDE DEF match
  <2>3. match[g].confidence \in Scores
    BY <2>1, <2>2, MatchIs
  <2>4. \A x \in Scores : x \in Nat
    BY SMTT(30) DEF Scores
  <2> QED
    BY <2>2, <2>3, <2>4 DEF Joins
<1> HIDE DEF match
<1>3. near \in SUBSET (1..m) /\ IsFiniteSet(1..m)
  BY FS_Interval
<1> HIDE DEF near
<1>4. CASE near = {}
  BY <1>1, <1>2, <1>4
<1>5. CASE near # {}
  <2> DEFINE scores == {match[g].confidence : g \in near}
  <2>1. IsFiniteSet(near)
    BY <1>3, FS_Subset
  <2>2. IsFiniteSet(scores)
    <3> DEFINE f == [g \in near |-> match[g].confidence]
    <3>1. f \in Surjection(near, scores)
      BY DEF Surjection
    <3> QED
      BY <2>1, <3>1, FS_Surjection
  <2>3. scores \in SUBSET Nat /\ scores # {}
    BY <1>2, <1>3, <1>5
  <2>4. PICK x \in scores : \A y \in scores : x >= y
    <3> HIDE DEF scores
    <3> QED
      BY <2>2, <2>3, GreatestOf
  <2>5. best # {} /\ best \in SUBSET near
    BY <2>4
  <2> HIDE DEF best
  <2>6. best \in SUBSET Nat
    BY <1>3, <2>5
  <2>7. Min(best) \in best
    BY <2>5, <2>6, LeastIs
  <2> QED
    BY <1>1, <1>2, <1>3, <1>5, <2>5, <2>7
<1> QED
  BY <1>4, <1>5

Extended(groups, m, new) == [h \in 1 .. m + 1 |-> IF h = m + 1 THEN new ELSE groups[h]]
Replaced(groups, g, new) == [groups EXCEPT ![g] = new]

PlacedNew(groups, m, v, new) ==
  /\ IsGroup(new) /\ new.evidence = <<v>>
  /\ Place(groups, v) = Extended(groups, m, new)
PlacedIn(groups, g, v, new) ==
  /\ IsGroup(new) /\ new.evidence = Append(groups[g].evidence, v)
  /\ Place(groups, v) = Replaced(groups, g, new)

\* Such a group takes the result at its end, or else it begins one of its own.
LEMMA PlaceIs ==
  ASSUME NEW m \in Nat, NEW groups, Listed(groups, m),
         \A g \in 1..m : IsGroup(groups[g]), NEW v \in Evidences
  PROVE  /\ GroupOf(groups, v) = 0 => \E new : PlacedNew(groups, m, v, new)
         /\ \A g \in 1..m : GroupOf(groups, v) = g => \E new : PlacedIn(groups, g, v, new)
<1>1. DOMAIN groups = 1..m
  BY DEF Listed
<1> DEFINE key == SourceKey(v)
<1>3. ASSUME GroupOf(groups, v) = 0 PROVE \E new : PlacedNew(groups, m, v, new)
  <2> DEFINE sources == [k \in {key} |-> Certain(v.score, "provider_result")]
             new == [evidence |-> <<v>>, matchBySource |-> sources]
  <2>1. Place(groups, v) = Append(groups, new)
    BY <1>3 DEF Place
  <2>2. /\ DOMAIN sources = {key} /\ IsFiniteSet({key})
        /\ \A k \in {key} : sources[k].confidence \in Scores
    <3>1. v.score \in Scores
      BY EvidenceFields DEF Evidences
    <3> QED
      BY <3>1, FS_Singleton DEF Certain
  <2> HIDE DEF sources
  <2>3. IsGroup(new) /\ new.evidence = <<v>>
    BY <2>2 DEF IsGroup
  <2> HIDE DEF new
  <2>4. Append(groups, new) = Extended(groups, m, new)
    BY AppendedIs DEF Extended
  <2>5. Place(groups, v) = Extended(groups, m, new)
    BY <2>1, <2>4
  <2> QED
    BY <2>3, <2>5 DEF PlacedNew
<1>4. ASSUME NEW g \in 1..m, GroupOf(groups, v) = g PROVE \E new : PlacedIn(groups, g, v, new)
  <2> DEFINE old == groups[g].matchBySource
             sources == [k \in {key} |-> MatchRecordings(groups[g].evidence[1], v)]
             noted == [k \in DOMAIN old \cup DOMAIN sources |->
                         IF k \in DOMAIN sources THEN sources[k] ELSE old[k]]
             new == [evidence |-> Append(groups[g].evidence, v), matchBySource |-> noted]
  <2>1. g # 0
    BY <1>4
  <2>2. Place(groups, v) = Replaced(groups, g, new)
    BY <1>1, <1>4, <2>1 DEF Place, Replaced
  <2>3. IsGroup(groups[g]) /\ groups[g].evidence[1] \in Evidences
    BY <1>4, GroupHasFirst
  <2>4. MatchRecordings(groups[g].evidence[1], v).confidence \in Scores
    BY <2>3, MatchIs
  <2>5. DOMAIN sources = {key} /\ \A k \in {key} : sources[k].confidence \in Scores
    BY <2>4
  <2> HIDE DEF sources
  <2>6. /\ DOMAIN noted = DOMAIN old \cup {key}
        /\ \A k \in DOMAIN noted : noted[k].confidence \in Scores
    BY <2>3, <2>5 DEF IsGroup
  <2>7. IsFiniteSet(DOMAIN noted) /\ DOMAIN noted # {}
    BY <2>3, <2>6, FS_AddElement DEF IsGroup
  <2> HIDE DEF noted
  <2>8. Append(groups[g].evidence, v) \in Seq(Evidences) /\ Append(groups[g].evidence, v) # <<>>
    <3>1. groups[g].evidence \in Seq(Evidences)
      BY <2>3 DEF IsGroup
    <3>2. /\ Append(groups[g].evidence, v) \in Seq(Evidences)
          /\ Len(Append(groups[g].evidence, v)) = Len(groups[g].evidence) + 1
      BY <3>1, AppendProperties
    <3>3. Len(groups[g].evidence) \in Nat
      BY <3>1, LenProperties
    <3>4. Len(Append(groups[g].evidence, v)) # 0
      BY <3>2, <3>3
    <3> QED
      BY <3>2, <3>4, EmptySeq
  <2>9. IsGroup(new) /\ new.evidence = Append(groups[g].evidence, v)
    BY <2>6, <2>7, <2>8 DEF IsGroup
  <2> HIDE DEF new
  <2> QED
    BY <2>2, <2>9 DEF PlacedIn
<1> QED
  BY <1>3, <1>4

-----------------------------------------------------------------------------
(* What the groups of the first n results are *)

Cells(groups) == UNION {{g} \X DOMAIN groups[g].evidence : g \in DOMAIN groups}

\* hd[g] is the place of the result that group g began with.
Begun(s, n, groups, m, hd) ==
  /\ Listed(groups, m)
  /\ \A g \in 1..m : IsGroup(groups[g])
  /\ \A g \in 1..m : hd[g] \in 1..n /\ groups[g].evidence[1] = s[hd[g]]

\* A result begins a group only if it joins no group before.
Separate(s, m, hd) ==
  \A g, h \in 1..m : g < h => hd[g] < hd[h] /\ ~Joins(s[hd[g]], s[hd[h]])

\* What a group holds has joined it.
Joined(s, n, groups, m, hd) ==
  \A g \in 1..m : \A k \in DOMAIN groups[g].evidence :
    k # 1 => \E q \in 1..n : /\ hd[g] < q /\ groups[g].evidence[k] = s[q]
                             /\ Joins(s[hd[g]], s[q])

\* Every result is in a group.
Held(s, n, groups, m, hd) ==
  \A i \in 1..n : \E g \in 1..m :
    /\ hd[g] = i \/ (hd[g] < i /\ Joins(s[hd[g]], s[i]))
    /\ \E k \in DOMAIN groups[g].evidence : groups[g].evidence[k] = s[i]

\* No result is in two.
Counted(groups, n) == IsFiniteSet(Cells(groups)) /\ Cardinality(Cells(groups)) = n

Grouped(s, n, groups, m, hd) ==
  /\ m \in Nat
  /\ Begun(s, n, groups, m, hd) /\ Separate(s, m, hd) /\ Joined(s, n, groups, m, hd)
  /\ Held(s, n, groups, m, hd) /\ Counted(groups, n)

LEMMA GroupedNone == \A s, hd : Grouped(s, 0, <<>>, 0, hd)
<1>1. DOMAIN <<>> = {}
  OBVIOUS
<1>2. Cells(<<>>) = {}
  BY <1>1 DEF Cells
<1>3. Listed(<<>>, 0)
  BY DEF Listed
<1> QED
  BY <1>2, <1>3, FS_EmptySet
     DEF Grouped, Begun, Separate, Joined, Held, Counted

LEMMA NewGroup ==
  ASSUME NEW s \in Seq(Evidences), NEW n \in Nat, n + 1 \in 1..Len(s),
         NEW groups, NEW m, NEW hd, Grouped(s, n, groups, m, hd),
         GroupOf(groups, s[n + 1]) = 0
  PROVE  \E to : Grouped(s, n + 1, Place(groups, s[n + 1]), m + 1, to)
<1> DEFINE v == s[n + 1]
           to == [h \in 1 .. m + 1 |-> IF h = m + 1 THEN n + 1 ELSE hd[h]]
<1>1. v \in Evidences
  BY ElementOfSeq, LenProperties
<1>2. /\ m \in Nat /\ Begun(s, n, groups, m, hd) /\ Separate(s, m, hd)
      /\ Joined(s, n, groups, m, hd) /\ Held(s, n, groups, m, hd) /\ Counted(groups, n)
  BY DEF Grouped
<1> HIDE DEF v
<1>3. GroupOf(groups, v) = 0 /\ v = s[n + 1]
  BY DEF v
<1>4. /\ Listed(groups, m) /\ DOMAIN groups = 1..m
      /\ \A g \in 1..m : /\ IsGroup(groups[g]) /\ hd[g] \in 1..n
                         /\ groups[g].evidence[1] = s[hd[g]]
  BY <1>2 DEF Begun, Listed
<1>5. \A g \in 1..m : ~Joins(s[hd[g]], v)
  <2>0. GroupOf(groups, v) \notin 1..m
    BY <1>3
  <2>1. \A g \in 1..m : ~Joins(groups[g].evidence[1], v)
    BY <1>1, <1>2, <1>4, <2>0, GroupOfIs
  <2> QED
    BY <1>4, <2>1
<1>6. PICK new : /\ IsGroup(new) /\ new.evidence = <<v>>
                 /\ Place(groups, v) = Extended(groups, m, new)
  <2>1. \E new : PlacedNew(groups, m, v, new)
    BY <1>1, <1>2, <1>3, <1>4, PlaceIs
  <2> QED
    BY <2>1 DEF PlacedNew
<1>7. PICK after : after = Place(groups, v)
  OBVIOUS
<1>8. /\ Listed(after, m + 1) /\ DOMAIN after = 1 .. m + 1
      /\ after[m + 1] = new /\ \A h \in 1..m : after[h] = groups[h]
  BY <1>2, <1>6, <1>7 DEF Extended, Listed
<1>9. to[m + 1] = n + 1 /\ \A h \in 1..m : to[h] = hd[h]
  BY <1>2
<1> HIDE DEF to
<1>10. \A h \in 1 .. m + 1 : h \in 1..m \/ h = m + 1
  BY <1>2
<1>11. DOMAIN new.evidence = {1} /\ new.evidence[1] = v
  BY <1>6
<1>12. Begun(s, n + 1, after, m + 1, to)
  <2>1. ASSUME NEW h \in 1..m
        PROVE  IsGroup(after[h]) /\ to[h] \in 1 .. n + 1 /\ after[h].evidence[1] = s[to[h]]
    <3>1. IsGroup(after[h]) /\ to[h] = hd[h] /\ after[h].evidence[1] = s[to[h]]
      BY <1>4, <1>8, <1>9
    <3>2. hd[h] \in 1..n
      BY <1>4
    <3>3. hd[h] \in 1 .. n + 1
      BY <3>2
    <3> QED
      BY <3>1, <3>3
  <2>2. IsGroup(after[m + 1]) /\ to[m + 1] \in 1 .. n + 1 /\ after[m + 1].evidence[1] = s[to[m + 1]]
    BY <1>3, <1>6, <1>8, <1>9, <1>11
  <2> QED
    BY <1>8, <1>10, <2>1, <2>2 DEF Begun
<1>13. Separate(s, m + 1, to)
  <2> SUFFICES ASSUME NEW g \in 1 .. m + 1, NEW h \in 1 .. m + 1, g < h
               PROVE  to[g] < to[h] /\ ~Joins(s[to[g]], s[to[h]])
    BY DEF Separate
  <2>1. g \in 1..m
    BY <1>2
  <2>2. CASE h \in 1..m
    BY <1>2, <1>9, <2>1, <2>2 DEF Separate
  <2>3. CASE h = m + 1
    <3>1. to[g] = hd[g] /\ hd[g] \in 1..n /\ to[h] = n + 1
      BY <1>4, <1>9, <2>1, <2>3
    <3>2. ~Joins(s[hd[g]], s[n + 1])
      BY <1>3, <1>5, <2>1
    <3> QED
      BY <3>1, <3>2
  <2> QED
    BY <1>10, <2>2, <2>3
<1>14. Joined(s, n + 1, after, m + 1, to)
  <2> SUFFICES ASSUME NEW g \in 1 .. m + 1, NEW k \in DOMAIN after[g].evidence, k # 1
               PROVE  \E q \in 1 .. n + 1 : /\ to[g] < q /\ after[g].evidence[k] = s[q]
                                            /\ Joins(s[to[g]], s[q])
    BY DEF Joined
  <2>1. g \in 1..m
    BY <1>8, <1>10, <1>11
  <2>2. after[g] = groups[g] /\ to[g] = hd[g]
    BY <1>8, <1>9, <2>1
  <2>3. PICK q \in 1..n : /\ hd[g] < q /\ groups[g].evidence[k] = s[q]
                          /\ Joins(s[hd[g]], s[q])
    BY <1>2, <2>1, <2>2 DEF Joined
  <2>4. q \in 1 .. n + 1
    OBVIOUS
  <2> QED
    BY <2>2, <2>3, <2>4
<1>15. Held(s, n + 1, after, m + 1, to)
  <2> SUFFICES ASSUME NEW i \in 1 .. n + 1
               PROVE  \E g \in 1 .. m + 1 :
                        /\ to[g] = i \/ (to[g] < i /\ Joins(s[to[g]], s[i]))
                        /\ \E k \in DOMAIN after[g].evidence : after[g].evidence[k] = s[i]
    BY DEF Held
  <2>1. CASE i \in 1..n
    <3>1. PICK g \in 1..m :
            /\ hd[g] = i \/ (hd[g] < i /\ Joins(s[hd[g]], s[i]))
            /\ \E k \in DOMAIN groups[g].evidence : groups[g].evidence[k] = s[i]
      BY <1>2, <2>1 DEF Held
    <3>2. after[g] = groups[g] /\ to[g] = hd[g]
      BY <1>8, <1>9
    <3>3. g \in 1 .. m + 1
      BY <1>2
    <3> QED
      BY <3>1, <3>2, <3>3
  <2>2. CASE i = n + 1
    <3>1. m + 1 \in 1 .. m + 1
      BY <1>2
    <3>2. 1 \in DOMAIN after[m + 1].evidence /\ after[m + 1].evidence[1] = s[i] /\ to[m + 1] = i
      BY <1>3, <1>8, <1>9, <1>11, <2>2
    <3> QED
      BY <3>1, <3>2
  <2> QED
    BY <2>1, <2>2
<1>16. Counted(after, n + 1)
  <2>1. Cells(after) = Cells(groups) \cup {<<m + 1, 1>>}
    <3>1. \A h \in 1..m : DOMAIN after[h].evidence = DOMAIN groups[h].evidence
      BY <1>8
    <3>2. {m + 1} \X DOMAIN after[m + 1].evidence = {<<m + 1, 1>>}
      <4>1. DOMAIN after[m + 1].evidence = {1}
        BY <1>8, <1>11
      <4>2. \A x : {x} \X {1} = {<<x, 1>>}
        OBVIOUS
      <4> QED
        BY <4>1, <4>2
    <3>3. ASSUME NEW x PROVE x \in Cells(after) <=> x \in Cells(groups) \/ x = <<m + 1, 1>>
      <4>1. x \in Cells(after) <=> \E h \in 1 .. m + 1 : x \in {h} \X DOMAIN after[h].evidence
        BY <1>8 DEF Cells
      <4>2. x \in Cells(groups) <=> \E h \in 1..m : x \in {h} \X DOMAIN groups[h].evidence
        BY <1>4 DEF Cells
      <4>3. m + 1 \in 1 .. m + 1 /\ \A h \in 1..m : h \in 1 .. m + 1
        BY <1>2
      <4> QED
        BY <1>10, <3>1, <3>2, <4>1, <4>2, <4>3
    <3> QED
      BY <3>3
  <2>2. <<m + 1, 1>> \notin Cells(groups)
    <3>1. m + 1 \notin 1..m
      BY <1>2
    <3> QED
      BY <1>4, <3>1 DEF Cells
  <2> QED
    BY <1>2, <2>1, <2>2, FS_AddElement DEF Counted
<1>17. m + 1 \in Nat
  BY <1>2
<1>18. Grouped(s, n + 1, after, m + 1, to)
  BY <1>12, <1>13, <1>14, <1>15, <1>16, <1>17 DEF Grouped
<1> QED
  BY <1>7, <1>18 DEF v

LEMMA OldGroup ==
  ASSUME NEW s \in Seq(Evidences), NEW n \in Nat, n + 1 \in 1..Len(s),
         NEW groups, NEW m, NEW hd, Grouped(s, n, groups, m, hd),
         NEW j \in 1..m, j = GroupOf(groups, s[n + 1])
  PROVE  Grouped(s, n + 1, Place(groups, s[n + 1]), m, hd)
<1> DEFINE v == s[n + 1]
<1>1. v \in Evidences
  BY ElementOfSeq, LenProperties
<1>2. /\ m \in Nat /\ Begun(s, n, groups, m, hd) /\ Separate(s, m, hd)
      /\ Joined(s, n, groups, m, hd) /\ Held(s, n, groups, m, hd) /\ Counted(groups, n)
  BY DEF Grouped
<1> HIDE DEF v
<1>3. GroupOf(groups, v) = j /\ v = s[n + 1]
  BY DEF v
<1>4. /\ Listed(groups, m) /\ DOMAIN groups = 1..m
      /\ \A g \in 1..m : /\ IsGroup(groups[g]) /\ hd[g] \in 1..n
                         /\ groups[g].evidence[1] = s[hd[g]]
  BY <1>2 DEF Begun, Listed
<1>5. Joins(s[hd[j]], v)
  <2>0. j # 0
    OBVIOUS
  <2>1. Joins(groups[j].evidence[1], v)
    BY <1>1, <1>2, <1>3, <1>4, <2>0, GroupOfIs
  <2> QED
    BY <1>4, <2>1
<1>6. PICK new : /\ IsGroup(new) /\ new.evidence = Append(groups[j].evidence, v)
                 /\ Place(groups, v) = Replaced(groups, j, new)
  <2>1. m \in Nat /\ Listed(groups, m) /\ \A g \in 1..m : IsGroup(groups[g])
    BY <1>2, <1>4
  <2>2. \E new : PlacedIn(groups, j, v, new)
    BY <1>1, <1>3, <2>1, PlaceIs
  <2> QED
    BY <2>2 DEF PlacedIn
<1>7. PICK after : after = Place(groups, v)
  OBVIOUS
<1>8. /\ Listed(after, m) /\ DOMAIN after = 1..m
      /\ after[j] = new /\ \A h \in 1..m : h # j => after[h] = groups[h]
  BY <1>4, <1>6, <1>7 DEF Replaced, Listed
<1> DEFINE old == groups[j].evidence
           len == Len(old)
<1>9. /\ len \in Nat \ {0} /\ DOMAIN old = 1..len /\ old \in Seq(Evidences)
  BY <1>4, GroupHasFirst DEF IsGroup
<1>10. /\ DOMAIN new.evidence = 1 .. len + 1 /\ new.evidence[len + 1] = v
       /\ \A k \in 1..len : new.evidence[k] = old[k]
  <2>1. /\ Append(old, v) \in Seq(Evidences) /\ Len(Append(old, v)) = len + 1
        /\ Append(old, v)[len + 1] = v /\ \A k \in 1..len : Append(old, v)[k] = old[k]
    BY <1>1, <1>9, AppendProperties
  <2>2. DOMAIN Append(old, v) = 1 .. len + 1
    BY <2>1, LenProperties
  <2> QED
    BY <1>6, <2>1, <2>2
<1> HIDE DEF old, len
<1>11. /\ \A h \in 1..m : after[h].evidence[1] = groups[h].evidence[1]
       /\ \A h \in 1..m : \A k \in DOMAIN groups[h].evidence :
            k \in DOMAIN after[h].evidence /\ after[h].evidence[k] = groups[h].evidence[k]
  <2>1. \A h \in 1..m : h # j => after[h].evidence = groups[h].evidence
    BY <1>8
  <2>2. \A k \in 1..len : k \in 1 .. len + 1
    BY <1>9
  <2>3. \A k \in DOMAIN old : k \in DOMAIN new.evidence /\ new.evidence[k] = old[k]
    BY <1>9, <1>10, <2>2
  <2>4. 1 \in DOMAIN old
    BY <1>9
  <2>5. after[j].evidence[1] = groups[j].evidence[1]
    BY <1>8, <2>3, <2>4 DEF old
  <2> QED
    BY <1>8, <2>1, <2>3, <2>5 DEF old
<1>12. Begun(s, n + 1, after, m, hd)
  <2>1. ASSUME NEW h \in 1..m
        PROVE  IsGroup(after[h]) /\ hd[h] \in 1 .. n + 1 /\ after[h].evidence[1] = s[hd[h]]
    <3>1. IsGroup(after[h])
      BY <1>4, <1>6, <1>8
    <3>2. hd[h] \in 1..n /\ after[h].evidence[1] = s[hd[h]]
      BY <1>4, <1>11
    <3>3. hd[h] \in 1 .. n + 1
      BY <3>2
    <3> QED
      BY <3>1, <3>2, <3>3
  <2> QED
    BY <1>8, <2>1 DEF Begun
<1>13. Joined(s, n + 1, after, m, hd)
  <2> SUFFICES ASSUME NEW g \in 1..m, NEW k \in DOMAIN after[g].evidence, k # 1
               PROVE  \E q \in 1 .. n + 1 : /\ hd[g] < q /\ after[g].evidence[k] = s[q]
                                            /\ Joins(s[hd[g]], s[q])
    BY DEF Joined
  <2>1. CASE k \in DOMAIN groups[g].evidence
    <3>1. PICK q \in 1..n : /\ hd[g] < q /\ groups[g].evidence[k] = s[q]
                            /\ Joins(s[hd[g]], s[q])
      BY <1>2, <2>1 DEF Joined
    <3>2. q \in 1 .. n + 1
      OBVIOUS
    <3>3. after[g].evidence[k] = groups[g].evidence[k]
      BY <1>11, <2>1
    <3> QED
      BY <3>1, <3>2, <3>3
  <2>2. CASE k \notin DOMAIN groups[g].evidence
    <3>1. g = j
      BY <1>8, <2>2
    <3>2. k \in 1 .. len + 1 /\ k \notin 1..len
      BY <1>8, <1>9, <1>10, <2>2, <3>1 DEF old
    <3>3. k = len + 1
      BY <1>9, <3>2
    <3>4. after[g].evidence[k] = s[n + 1]
      BY <1>3, <1>8, <1>10, <3>1, <3>3
    <3>5. hd[g] \in 1..n
      BY <1>4
    <3>6. hd[g] < n + 1 /\ n + 1 \in 1 .. n + 1
      BY <3>5
    <3>7. Joins(s[hd[g]], s[n + 1])
      BY <1>3, <1>5, <3>1
    <3> QED
      BY <3>4, <3>6, <3>7
  <2> QED
    BY <2>1, <2>2
<1>14. Held(s, n + 1, after, m, hd)
  <2> SUFFICES ASSUME NEW i \in 1 .. n + 1
               PROVE  \E g \in 1..m :
                        /\ hd[g] = i \/ (hd[g] < i /\ Joins(s[hd[g]], s[i]))
                        /\ \E k \in DOMAIN after[g].evidence : after[g].evidence[k] = s[i]
    BY DEF Held
  <2>1. CASE i \in 1..n
    <3>1. PICK g \in 1..m :
            /\ hd[g] = i \/ (hd[g] < i /\ Joins(s[hd[g]], s[i]))
            /\ \E k \in DOMAIN groups[g].evidence : groups[g].evidence[k] = s[i]
      BY <1>2, <2>1 DEF Held
    <3> QED
      BY <1>11, <3>1
  <2>2. CASE i = n + 1
    <3>1. hd[j] \in 1..n
      BY <1>4
    <3>2. hd[j] < i
      BY <2>2, <3>1
    <3>3. len + 1 \in DOMAIN after[j].evidence /\ after[j].evidence[len + 1] = s[i]
      BY <1>3, <1>8, <1>9, <1>10, <2>2
    <3> QED
      BY <1>3, <1>5, <2>2, <3>2, <3>3
  <2> QED
    BY <2>1, <2>2
<1>15. Counted(after, n + 1)
  <2>1. Cells(after) = Cells(groups) \cup {<<j, len + 1>>}
    <3>1. \A h \in 1..m : h # j => DOMAIN after[h].evidence = DOMAIN groups[h].evidence
      BY <1>8
    <3>2. DOMAIN after[j].evidence = DOMAIN groups[j].evidence \cup {len + 1}
      <4>1. 1 .. len + 1 = (1..len) \cup {len + 1}
        BY <1>9
      <4> QED
        BY <1>8, <1>9, <1>10, <4>1 DEF old
    <3>3. ASSUME NEW x PROVE x \in Cells(after) <=> x \in Cells(groups) \/ x = <<j, len + 1>>
      <4>1. x \in Cells(after) <=> \E h \in 1..m : x \in {h} \X DOMAIN after[h].evidence
        BY <1>8 DEF Cells
      <4>2. x \in Cells(groups) <=> \E h \in 1..m : x \in {h} \X DOMAIN groups[h].evidence
        BY <1>4 DEF Cells
      <4>3. {j} \X DOMAIN after[j].evidence =
              ({j} \X DOMAIN groups[j].evidence) \cup {<<j, len + 1>>}
        BY <3>2
      <4> QED
        BY <3>1, <4>1, <4>2, <4>3
    <3> QED
      BY <3>3
  <2>2. <<j, len + 1>> \notin Cells(groups)
    <3>1. len + 1 \notin 1..len
      BY <1>9
    <3>2. len + 1 \notin DOMAIN groups[j].evidence
      BY <1>9, <3>1 DEF old
    <3> QED
      BY <1>4, <3>2 DEF Cells
  <2> QED
    BY <1>2, <2>1, <2>2, FS_AddElement DEF Counted
<1>16. Grouped(s, n + 1, after, m, hd)
  BY <1>2, <1>12, <1>13, <1>14, <1>15 DEF Grouped
<1> QED
  BY <1>7, <1>16 DEF v

\* Whatever the results and their order, the groups are such groups.
LEMMA GroupsAre ==
  ASSUME NEW s \in Seq(Evidences)
  PROVE  /\ Len(s) \in Nat
         /\ \E m, hd : Grouped(s, Len(s), Grown(s)[Len(s)], m, hd)
<1>1. Len(s) \in Nat
  BY LenProperties
<1> DEFINE good(n) == \E m, hd : Grouped(s, n, Grown(s)[n], m, hd)
           bad == {n \in 0..Len(s) : ~good(n)}
<1>2. bad = {}
  <2> SUFFICES ASSUME bad # {} PROVE FALSE
    OBVIOUS
  <2>1. bad \in SUBSET Nat
    BY <1>1
  <2>2. PICK n \in bad : \A k \in bad : n <= k
    <3> HIDE DEF bad
    <3> QED
      BY <2>1, LeastOf
  <2>3. n \in 0..Len(s) /\ ~good(n)
    OBVIOUS
  <2>4. n # 0
    BY <2>3, GrownBy, GroupedNone
  <2>5. n - 1 \in Nat /\ n - 1 \in 0..Len(s) /\ (n - 1) + 1 = n /\ n \in 1..Len(s)
    BY <1>1, <2>3, <2>4
  <2>6. good(n - 1)
    BY <2>2, <2>5
  <2>7. PICK l : l = n - 1
    OBVIOUS
  <2>8. PICK m, hd : Grouped(s, l, Grown(s)[l], m, hd)
    BY <2>6, <2>7
  <2>9. Grown(s)[n] = Place(Grown(s)[l], s[n])
    BY <2>5, <2>7, GrownBy
  <2>10. PICK groups : groups = Grown(s)[l]
    OBVIOUS
  <2>11. l \in Nat /\ l + 1 = n /\ l + 1 \in 1..Len(s) /\ s[l + 1] \in Evidences
    BY <2>5, <2>7, ElementOfSeq, LenProperties
  <2>12. /\ m \in Nat /\ DOMAIN groups = 1..m /\ \A g \in 1..m : IsGroup(groups[g])
    BY <2>8, <2>10 DEF Grouped, Begun, Listed
  <2>13. GroupOf(groups, s[l + 1]) = 0 \/ GroupOf(groups, s[l + 1]) \in 1..m
    BY <2>11, <2>12, GroupOfIs
  <2>14. CASE GroupOf(groups, s[l + 1]) = 0
    <3>1. \E to : Grouped(s, l + 1, Place(groups, s[l + 1]), m + 1, to)
      BY <2>8, <2>10, <2>11, <2>14, NewGroup
    <3> QED
      BY <2>3, <2>9, <2>10, <2>11, <3>1
  <2>15. CASE GroupOf(groups, s[l + 1]) \in 1..m
    <3>1. Grouped(s, l + 1, Place(groups, s[l + 1]), m, hd)
      BY <2>8, <2>10, <2>11, <2>15, OldGroup
    <3> QED
      BY <2>3, <2>9, <2>10, <2>11, <3>1
  <2> QED
    BY <2>13, <2>14, <2>15
<1>3. Len(s) \in 0..Len(s)
  BY <1>1
<1> QED
  BY <1>1, <1>2, <1>3

-----------------------------------------------------------------------------
(* What the recordings of an answer are made of *)

LEMMA PriorityIs ==
  /\ \A e \in Evidences : Priority(e.provider) \in {0, 1, 2} /\ e.id \in Int /\ e.score \in Int
  /\ \A e \in Identifying : Priority(e.provider) < 2
  /\ \A e \in Supplementing : Priority(e.provider) = 2
<1>1. \A e \in Identifying : Priority(e.provider) \in {0, 1}
  BY EvidenceFields DEF Priority
<1>2. \A e \in Supplementing : Priority(e.provider) = 2
  BY EvidenceFields DEF Priority
<1>3. \A e \in Evidences : e.id \in Int
  BY EvidenceFields DEF Evidences, Ids
<1> QED
  BY <1>1, <1>2, <1>3, ScoreIs DEF Evidences

\* The comparison of two results is a weak order.
LEMMA EvidenceOrder ==
  ASSUME NEW E \in Seq(Evidences)
  PROVE  /\ WeakOrder(E, ByEvidence(E))
         /\ \A i, j \in DOMAIN E : <<i, j>> \in ByEvidence(E) <=> CompareEvidence(E[i], E[j])
<1>1. \A i, j \in DOMAIN E : <<i, j>> \in ByEvidence(E) <=> CompareEvidence(E[i], E[j])
  BY DEF ByEvidence, Pairs
<1>2. ByEvidence(E) \subseteq Pairs(E)
  BY DEF ByEvidence
<1>3. \A i \in DOMAIN E : E[i] \in Evidences
  BY LenProperties, ElementOfSeq
<1>4. \A a, b \in Evidences : CompareEvidence(a, b) => ~CompareEvidence(b, a)
  BY PriorityIs DEF CompareEvidence
<1>5. ASSUME NEW a \in Evidences, NEW b \in Evidences, NEW c \in Evidences,
             CompareEvidence(a, c), ~CompareEvidence(a, b), ~CompareEvidence(b, c)
      PROVE  FALSE
  <2>1. PICK pa, pb, pc \in Int : /\ pa = Priority(a.provider) /\ pb = Priority(b.provider)
                                  /\ pc = Priority(c.provider)
    BY SMTT(30), PriorityIs
  <2>2. PICK sa, sb, sc \in Int : sa = a.score /\ sb = b.score /\ sc = c.score
    BY PriorityIs
  <2>3. PICK ia, ib, ic \in Int : ia = a.id /\ ib = b.id /\ ic = c.id
    BY PriorityIs
  <2>4. pa < pc \/ (pa = pc /\ (sa > sc \/ (sa = sc /\ ia < ic)))
    BY <1>5, <2>1, <2>2, <2>3 DEF CompareEvidence
  <2>5. ~(pa < pb \/ (pa = pb /\ (sa > sb \/ (sa = sb /\ ia < ib))))
    BY <1>5, <2>1, <2>2, <2>3 DEF CompareEvidence
  <2>6. ~(pb < pc \/ (pb = pc /\ (sb > sc \/ (sb = sc /\ ib < ic))))
    BY <1>5, <2>1, <2>2, <2>3 DEF CompareEvidence
  <2> QED
    BY <2>4, <2>5, <2>6
<1>6. \A i, j \in DOMAIN E : <<i, j>> \in ByEvidence(E) => <<j, i>> \notin ByEvidence(E)
  BY <1>1, <1>3, <1>4
<1>7. \A i, j, k \in DOMAIN E : <<i, k>> \in ByEvidence(E) =>
        <<i, j>> \in ByEvidence(E) \/ <<j, k>> \in ByEvidence(E)
  BY <1>1, <1>3, <1>5
<1> QED
  BY <1>1, <1>2, <1>6, <1>7 DEF WeakOrder

LEMMA GreatestIs ==
  ASSUME NEW S \in SUBSET Nat, IsFiniteSet(S), S # {}
  PROVE  Max(S) \in S
BY GreatestOf DEF Max

\* The confidence of a recording is that of one of its matches.
LEMMA CanonicalIs ==
  ASSUME NEW g, IsGroup(g)
  PROVE  CanonicalizeGroup(g).confidence \in Int
<1> DEFINE D == DOMAIN g.matchBySource
           S == {g.matchBySource[k].confidence : k \in D}
           f == [k \in D |-> g.matchBySource[k].confidence]
<1>1. /\ IsFiniteSet(D) /\ D # {} /\ \A k \in D : g.matchBySource[k].confidence \in Scores
  BY DEF IsGroup
<1>2. CanonicalizeGroup(g).confidence = Max(S)
  BY DEF CanonicalizeGroup
<1>3. f \in Surjection(D, S)
  BY DEF Surjection
<1>4. IsFiniteSet(S)
  <2> HIDE DEF f, S, D
  <2> QED
    BY <1>1, <1>3, FS_Surjection
<1>5. S # {}
  BY <1>1
<1>6. \A x \in Scores : x \in Nat /\ x \in Int
  BY SMTT(30) DEF Scores
<1>7. S \in SUBSET Scores
  BY <1>1
<1> HIDE DEF S
<1>8. Max(S) \in S
  BY <1>4, <1>5, <1>6, <1>7, GreatestIs
<1> QED
  BY <1>2, <1>6, <1>7, <1>8

\* R lists the recordings of m groups in some order.
Resolves(R, groups, m, pos) ==
  /\ DOMAIN R = 1..m /\ \E S : R \in Seq(S)
  /\ \A i \in 1..m : /\ pos[i] \in 1..m
                     /\ R[i].evidence = groups[pos[i]].evidence
                     /\ R[i].canonicalId = CanonicalizeGroup(groups[pos[i]]).canonicalId
  /\ \A g \in 1..m : \E i \in 1..m : pos[i] = g
  /\ \A i, j \in 1..m : i # j => pos[i] # pos[j]

\* s lists the results of E in the order in which they are placed.
Ordered(E, s, at) ==
  /\ s \in Seq(Evidences) /\ Len(s) = Len(E)
  /\ Sorts(E, ByEvidence(E), s, at)

LEMMA ResolvedIs ==
  ASSUME NEW E \in Seq(Evidences), NEW R, R = ResolveCanonicalRecordings(E)
  PROVE  \E s, at, groups, m, hd, pos :
           /\ Ordered(E, s, at) /\ Grouped(s, Len(s), groups, m, hd)
           /\ Resolves(R, groups, m, pos)
<1>1. PICK s, at : s = Sorted(E, ByEvidence(E)) /\ Ordered(E, s, at)
  BY EvidenceOrder, SortOf DEF Ordered
<1>2. s \in Seq(Evidences) /\ Len(s) = Len(E)
  BY <1>1 DEF Ordered
<1>3. PICK groups, m, hd : groups = Grown(s)[Len(s)] /\ Grouped(s, Len(s), groups, m, hd)
  BY <1>2, GroupsAre
<1>4. Groups(E) = groups
  BY <1>1, <1>2, <1>3 DEF Groups
<1>5. m \in Nat /\ DOMAIN groups = 1..m /\ \A g \in 1..m : IsGroup(groups[g])
  BY <1>3 DEF Grouped, Begun, Listed
<1> DEFINE canonical == [g \in DOMAIN groups |->
             [CanonicalizeGroup(groups[g]) EXCEPT
                !.possibleDuplicates = PossibleDuplicates(groups, g)]]
           less == {p \in Pairs(canonical) :
                      canonical[p[1]].confidence > canonical[p[2]].confidence}
           S == {canonical[g] : g \in 1..m}
           number == [g \in DOMAIN canonical |-> canonical[g].confidence]
<1>6. R = Sorted(canonical, less)
  BY <1>4 DEF ResolveCanonicalRecordings, ByCertainty, CanonicalRecordings
<1>7. DOMAIN canonical = 1..m
  BY <1>5
<1>8. ASSUME NEW g \in 1..m
      PROVE  /\ canonical[g].canonicalId = CanonicalizeGroup(groups[g]).canonicalId
             /\ canonical[g].evidence = groups[g].evidence
             /\ canonical[g].confidence \in Int
  <2>1. CanonicalizeGroup(groups[g]).confidence \in Int
    BY <1>5, CanonicalIs
  <2>2. CanonicalizeGroup(groups[g]) =
          [canonicalId |-> CanonicalizeGroup(groups[g]).canonicalId,
           evidence |-> groups[g].evidence,
           confidence |-> CanonicalizeGroup(groups[g]).confidence,
           possibleDuplicates |-> {}]
    BY DEF CanonicalizeGroup
  <2>3. canonical[g] = [CanonicalizeGroup(groups[g]) EXCEPT
                          !.possibleDuplicates = PossibleDuplicates(groups, g)]
    BY <1>5
  <2> HIDE DEF canonical
  <2>4. /\ canonical[g].canonicalId = CanonicalizeGroup(groups[g]).canonicalId
        /\ canonical[g].evidence = groups[g].evidence
        /\ canonical[g].confidence = CanonicalizeGroup(groups[g]).confidence
    BY <2>2, <2>3
  <2> QED
    BY <2>1, <2>4
<1>9. canonical \in Seq(S)
  <2>1. canonical = [g \in 1..m |-> canonical[g]]
    BY <1>7
  <2> HIDE DEF canonical
  <2>2. \A g \in 1..m : canonical[g] \in S
    OBVIOUS
  <2> HIDE DEF S
  <2>3. canonical \in [1..m -> S]
    BY <2>1, <2>2
  <2> QED
    BY <1>5, <2>3
<1> HIDE DEF canonical, S
<1>10. /\ \A g \in DOMAIN canonical : number[g] \in Int
       /\ less = {p \in Pairs(canonical) : number[p[1]] > number[p[2]]}
  <2>1. \A g \in DOMAIN canonical : number[g] = canonical[g].confidence
    OBVIOUS
  <2> QED
    BY <1>7, <1>8, <2>1 DEF Pairs
<1> HIDE DEF number, less
<1>11. WeakOrder(canonical, less)
  BY <1>9, <1>10, ByNumber
<1>12. PICK pos : Sorts(canonical, less, R, pos) /\ \E T : R \in Seq(T)
  BY <1>6, <1>9, <1>11, SortOf
<1>13. /\ \A k \in DOMAIN R : pos[k] \in DOMAIN canonical /\ R[k] = canonical[pos[k]]
       /\ \A g \in DOMAIN canonical : \E k \in DOMAIN R : pos[k] = g /\ R[k] = canonical[g]
       /\ \A k, l \in DOMAIN R : k # l => pos[k] # pos[l]
  BY <1>11, <1>12, SortHas
<1>14. DOMAIN R = 1..m
  BY <1>7, <1>12 DEF Sorts
<1>15. Resolves(R, groups, m, pos)
  <2>1. ASSUME NEW i \in 1..m
        PROVE  /\ pos[i] \in 1..m
               /\ R[i].evidence = groups[pos[i]].evidence
               /\ R[i].canonicalId = CanonicalizeGroup(groups[pos[i]]).canonicalId
    <3>1. pos[i] \in 1..m /\ R[i] = canonical[pos[i]]
      BY <1>7, <1>13, <1>14
    <3> QED
      BY <1>8, <3>1
  <2>2. \A g \in 1..m : \E i \in 1..m : pos[i] = g
    BY <1>7, <1>13, <1>14
  <2>3. \A i, j \in 1..m : i # j => pos[i] # pos[j]
    BY <1>13, <1>14
  <2> QED
    BY <1>12, <1>14, <2>1, <2>2, <2>3 DEF Resolves
<1> QED
  BY <1>1, <1>3, <1>15

\* Some results make some recording.
LEMMA SomeResolved ==
  ASSUME NEW E \in Seq(Evidences), E # <<>>
  PROVE  ResolveCanonicalRecordings(E) # <<>>
<1>1. PICK R : R = ResolveCanonicalRecordings(E)
  OBVIOUS
<1>2. PICK s, at, groups, m, hd, pos :
         /\ Ordered(E, s, at) /\ Grouped(s, Len(s), groups, m, hd)
         /\ Resolves(R, groups, m, pos)
  BY <1>1, ResolvedIs
<1>3. Len(s) \in Nat \ {0}
  <2>1. Len(E) \in Nat /\ Len(E) # 0
    BY LenProperties, EmptySeq
  <2> QED
    BY <1>2, <2>1 DEF Ordered
<1>4. 1 \in 1..Len(s)
  BY <1>3
<1>5. \E g \in 1..m : TRUE
  BY <1>2, <1>4 DEF Grouped, Held
<1>6. DOMAIN R # {}
  BY <1>2, <1>5 DEF Resolves
<1> QED
  BY <1>1, <1>6

-----------------------------------------------------------------------------
(* No fallback is skipped *)

LEMMA EntriesOfConcat ==
  ASSUME NEW S, NEW s \in Seq(S), NEW t \in Seq(S)
  PROVE  ToSet(s \o t) = ToSet(s) \cup ToSet(t)
<1>1. Len(s) \in Nat /\ Len(t) \in Nat /\ DOMAIN s = 1..Len(s) /\ DOMAIN t = 1..Len(t)
  BY LenProperties
<1>2. /\ s \o t \in Seq(S) /\ Len(s \o t) = Len(s) + Len(t)
      /\ \A i \in 1 .. Len(s) + Len(t) :
           (s \o t)[i] = IF i <= Len(s) THEN s[i] ELSE t[i - Len(s)]
  BY ConcatProperties
<1>3. PICK u : u = s \o t
  OBVIOUS
<1>4. DOMAIN u = 1 .. Len(s) + Len(t)
  BY <1>2, <1>3, LenProperties
<1>5. ASSUME NEW i \in DOMAIN u PROVE u[i] \in ToSet(s) \cup ToSet(t)
  <2>1. i <= Len(s) => i \in 1..Len(s)
    BY <1>1, <1>4
  <2>2. ~(i <= Len(s)) => i - Len(s) \in 1..Len(t)
    BY <1>1, <1>4
  <2>3. u[i] = IF i <= Len(s) THEN s[i] ELSE t[i - Len(s)]
    BY <1>2, <1>3, <1>4
  <2> QED
    BY <1>1, <2>1, <2>2, <2>3 DEF ToSet
<1>6. ASSUME NEW i \in DOMAIN s PROVE s[i] \in ToSet(u)
  <2>1. i \in DOMAIN u /\ i <= Len(s)
    BY <1>1, <1>4
  <2>2. u[i] = s[i]
    BY <1>2, <1>3, <1>4, <2>1
  <2> QED
    BY <2>1, <2>2 DEF ToSet
<1>7. ASSUME NEW i \in DOMAIN t PROVE t[i] \in ToSet(u)
  <2>1. PICK j : j = i + Len(s)
    OBVIOUS
  <2>2. j \in DOMAIN u /\ ~(j <= Len(s)) /\ j - Len(s) = i
    BY <1>1, <1>4, <2>1
  <2>3. u[j] = t[i]
    BY <1>2, <1>3, <1>4, <2>2
  <2> QED
    BY <2>2, <2>3 DEF ToSet
<1>8. ToSet(u) = ToSet(s) \cup ToSet(t)
  BY <1>5, <1>6, <1>7 DEF ToSet
<1> QED
  BY <1>3, <1>8

LEMMA RecordingLookupsAre ==
  /\ \A i \in DOMAIN RecordingLookups : RecordingLookups[i] \in RecordingCalls
  /\ \A i \in DOMAIN Strong : Strong[i] \in RecordingCalls
  /\ \A c \in ToSet(RecordingLookups) :
       c \in ToSet(Strong) \/ (Given("title") /\ c \in {"byText", "itunes"})
<1> DEFINE R == RecordingCalls
<1>1. /\ <<"byId">> \in Seq(R) /\ <<"byIsrc">> \in Seq(R) /\ <<"byPrint">> \in Seq(R)
      /\ <<"byText", "itunes">> \in Seq(R) /\ <<>> \in Seq(R)
  BY DEF RecordingCalls
<1> HIDE DEF R
<1>2. \A s, t \in Seq(R) : s \o t \in Seq(R)
  BY ConcatProperties
<1>3. Strong \in Seq(R)
  BY <1>1, <1>2, Zenon DEF Strong, If
<1>4. If("title", <<"byText", "itunes">>) \in Seq(R)
  BY <1>1 DEF If
<1>5. RecordingLookups \in Seq(R)
  BY <1>2, <1>3, <1>4 DEF RecordingLookups
<1>6. /\ \A i \in DOMAIN RecordingLookups : RecordingLookups[i] \in R
      /\ \A i \in DOMAIN Strong : Strong[i] \in R
  BY <1>3, <1>5, LenProperties, ElementOfSeq
<1>7. ASSUME NEW c \in ToSet(RecordingLookups)
      PROVE  c \in ToSet(Strong) \/ (Given("title") /\ c \in {"byText", "itunes"})
  <2>1. PICK s, t : s = Strong /\ t = If("title", <<"byText", "itunes">>)
    OBVIOUS
  <2>2. s \in Seq(R) /\ t \in Seq(R) /\ RecordingLookups = s \o t
    BY <1>3, <1>4, <2>1 DEF RecordingLookups
  <2>3. c \in ToSet(s) \/ c \in ToSet(t)
    BY <2>2, EntriesOfConcat
  <2>4. \A d \in ToSet(t) : Given("title") /\ d \in {"byText", "itunes"}
    BY <2>1 DEF If, ToSet
  <2> QED
    BY <2>1, <2>3, <2>4
<1> QED
  BY <1>6, <1>7 DEF R

LEMMA CutNone ==
  ASSUME NEW s, Cut(s, Limit) = <<>>, NEW S, s \in Seq(S)
  PROVE  s = <<>>
BY CutIs, RequestsAssumption

\* An answer without recordings is made of no evidence.
LEMMA NoRecordings ==
  ASSUME Typed, Body = <<>>, request.endpoint \in {"recordings", "recordings2"}
  PROVE  Evidence = <<>>
<1>1. PICK E : E = Evidence
  OBVIOUS
<1>2. E \in Seq(Evidences)
  BY <1>1, EvidenceIs
<1>3. SUFFICES ASSUME E # <<>> PROVE FALSE
  BY <1>1
<1>4. CASE request.endpoint = "recordings"
  <2>1. Cut(DedupeRecordings(E), Limit) = <<>>
    BY <1>1, <1>4 DEF Body, RecordingsV1
  <2>2. E[1] \in ToSet(E)
    <3>1. Len(E) \in Nat /\ Len(E) # 0 /\ DOMAIN E = 1..Len(E)
      BY <1>2, <1>3, LenProperties, EmptySeq
    <3>2. 1 \in DOMAIN E
      BY <3>1
    <3> QED
      BY <3>2 DEF ToSet
  <2>3. PICK i \in DOMAIN DedupeRecordings(E) : TRUE
    BY <1>2, <2>2, DedupedIs
  <2>4. \E S : DedupeRecordings(E) \in Seq(S)
    BY <1>2, DedupedTyped
  <2> QED
    BY <2>1, <2>3, <2>4, CutNone
<1>5. CASE request.endpoint = "recordings2"
  <2>1. Cut(ResolveCanonicalRecordings(E), Limit) = <<>>
    BY <1>1, <1>5 DEF Body, RecordingsV2
  <2>2. ResolveCanonicalRecordings(E) # <<>>
    BY <1>2, <1>3, SomeResolved
  <2>3. \E S : ResolveCanonicalRecordings(E) \in Seq(S)
    <3>1. PICK R : R = ResolveCanonicalRecordings(E)
      OBVIOUS
    <3>2. \E s, at, groups, m, hd, pos :
           /\ Ordered(E, s, at) /\ Grouped(s, Len(s), groups, m, hd)
           /\ Resolves(R, groups, m, pos)
      BY <1>2, <3>1, ResolvedIs
    <3> QED
      BY <3>1, <3>2 DEF Resolves
  <2> QED
    BY <2>1, <2>2, <2>3, CutNone
<1> QED
  BY <1>4, <1>5

LEMMA FoundOfArtists ==
  ASSUME NEW c \in ArtistCalls
  PROVE  Found(c) = Data(c)
BY DEF Found, ArtistCalls

LEMMA NoArtists ==
  ASSUME Typed, ArtistValues = <<>>
  PROVE  \A c \in ArtistCalls : Found(c) = <<>>
<1>1. /\ ArtistCalls \subseteq Calls /\ "artistDetail" \in Calls
      /\ \A c \in Calls : \E S : Data(c) \in Seq(S)
  BY GotIs DEF ArtistCalls, Calls, Base
<1>2. PICK a, b, c, d : /\ a = Data("artistById") /\ b = Data("artistSearch")
                        /\ c = Data("neteaseArtist") /\ d = Data("qqArtist")
  OBVIOUS
<1>3. PICK A, B, C, D : a \in Seq(A) /\ b \in Seq(B) /\ c \in Seq(C) /\ d \in Seq(D)
  BY <1>1, <1>2 DEF ArtistCalls
<1>4. CASE Data("artistDetail") # <<>>
  <2>1. PICK e : e = Data("artistDetail")
    OBVIOUS
  <2>2. PICK S : e \in Seq(S)
    BY <1>1, <2>1
  <2>3. e \o Tail(b) = <<>>
    BY <1>2, <1>4, <2>1 DEF ArtistValues
  <2>4. CASE b = <<>>
    <3>1. Tail(<<>>) = <<>>
      OBVIOUS
    <3> QED
      BY <1>4, <2>1, <2>2, <2>3, <2>4, <3>1, JoinedNone
  <2>5. CASE b # <<>>
    <3>1. Tail(b) \in Seq(B)
      BY <1>3, <2>5
    <3> QED
      BY <1>4, <2>1, <2>2, <2>3, <3>1, JoinedNone
  <2> QED
    BY <2>4, <2>5
<1>5. CASE Data("artistDetail") = <<>>
  <2>1. ((a \o b) \o c) \o d = <<>>
    BY <1>2, <1>5 DEF ArtistValues
  <2> DEFINE S == A \cup B \cup C \cup D
  <2>2. a \in Seq(S) /\ b \in Seq(S) /\ c \in Seq(S) /\ d \in Seq(S)
    BY <1>3
  <2> HIDE DEF S
  <2>3. a \o b \in Seq(S) /\ (a \o b) \o c \in Seq(S)
    BY <2>2
  <2>4. (a \o b) \o c = <<>> /\ d = <<>>
    BY <2>1, <2>2, <2>3, JoinedNone
  <2>5. a \o b = <<>> /\ c = <<>>
    BY <2>2, <2>3, <2>4, JoinedNone
  <2>6. a = <<>> /\ b = <<>>
    BY <2>2, <2>5, JoinedNone
  <2> QED
    BY <1>2, <2>4, <2>5, <2>6, FoundOfArtists DEF ArtistCalls
<1> QED
  BY <1>4, <1>5

LEMMA NoFallbackSkippedInv == Inv => NoFallbackSkipped
<1> DEFINE lookups == CASE request.endpoint = "artists" -> ArtistLookups
                        [] request.endpoint = "albums" -> AlbumLookups
                        [] request.endpoint = "lyrics" -> <<"exact", "search">>
                        [] OTHER -> RecordingLookups
<1> SUFFICES ASSUME Inv, Ok, Body = <<>>, request.endpoint = "artists" => ArtistValues = <<>>
             PROVE  \A c \in ToSet(lookups) : Returned(c)
  BY DEF NoFallbackSkipped
<1>1. Typed /\ request.endpoint \in Endpoints
  BY RequestsAssumption DEF Inv, Typed
<1>2. \A c \in Due : c \notin WordLookups => Returned(c)
  BY OkIs
<1>3. /\ RecordingCalls \cap WordLookups = {} /\ ArtistCalls \cap WordLookups = {}
      /\ {"release", "releaseGroup", "groupSearch", "exact", "search"} \cap WordLookups = {}
  BY DEF RecordingCalls, ArtistCalls, WordLookups
<1>4. ASSUME request.endpoint = "recordings" PROVE \A c \in ToSet(lookups) : Returned(c)
  <2>1. lookups = RecordingLookups /\ Due = Fallback(RecordingLookups)
    BY <1>4 DEF Due, RecordingsV1Due
  <2>2. \A c \in RecordingCalls : Found(c) = <<>>
    BY <1>1, <1>4, NoRecordings, NoEvidence
  <2>3. \A c \in Fallback(RecordingLookups) : c \in RecordingCalls
    BY RecordingLookupsAre DEF Fallback
  <2>4. \A c \in Fallback(RecordingLookups) : Returned(c) /\ Found(c) = <<>>
    BY <1>2, <1>3, <2>1, <2>2, <2>3
  <2>5. \A c \in ToSet(RecordingLookups) : c \in Fallback(RecordingLookups)
    BY <2>4, LookupsAre, AllOfFallback
  <2> QED
    BY <2>1, <2>4, <2>5
<1>5. ASSUME request.endpoint = "recordings2" PROVE \A c \in ToSet(lookups) : Returned(c)
  <2>1. lookups = RecordingLookups /\ Due = RecordingsV2Due
    BY <1>5 DEF Due
  <2>2. \A c \in InTurn(Strong) : c \in Due /\ c \in RecordingCalls
    BY <2>1, RecordingLookupsAre DEF InTurn, RecordingsV2Due
  <2>3. \A c \in ToSet(Strong) : Returned(c)
    <3>1. \A c \in InTurn(Strong) : Returned(c)
      BY <1>2, <1>3, <2>2
    <3> QED
      BY <3>1, LookupsAre, AllInTurn
  <2>4. Given("title") => Returned("byText") /\ Returned("itunes")
    <3> SUFFICES ASSUME Given("title") PROVE Returned("byText") /\ Returned("itunes")
      OBVIOUS
    <3>1. "byText" \in Due /\ "itunes" \in Due
      BY <2>1, <2>3 DEF RecordingsV2Due
    <3> QED
      BY <1>2, <1>3, <3>1 DEF RecordingCalls
  <2>5. \A c \in ToSet(RecordingLookups) :
          c \in ToSet(Strong) \/ (Given("title") /\ c \in {"byText", "itunes"})
    BY RecordingLookupsAre
  <2> QED
    BY <2>1, <2>3, <2>4, <2>5
<1>6. ASSUME request.endpoint = "albums" PROVE \A c \in ToSet(lookups) : Returned(c)
  <2>1. lookups = AlbumLookups /\ Due = ToSet(AlbumLookups)
    BY <1>6 DEF Due
  <2>2. \A c \in ToSet(AlbumLookups) : c \in {"release", "releaseGroup", "groupSearch"}
    BY DEF AlbumLookups, If, ToSet
  <2> QED
    BY <1>2, <1>3, <2>1, <2>2
<1>7. ASSUME request.endpoint = "artists" PROVE \A c \in ToSet(lookups) : Returned(c)
  <2>1. lookups = ArtistLookups /\ Fallback(ArtistLookups) \subseteq Due
    BY <1>7 DEF Due, ArtistsDue
  <2>2. \A c \in ArtistCalls : Found(c) = <<>>
    BY <1>1, <1>7, NoArtists
  <2>3. \A c \in Fallback(ArtistLookups) : c \in ArtistCalls
    BY ArtistLookupsAre DEF Fallback
  <2>4. \A c \in Fallback(ArtistLookups) : Returned(c) /\ Found(c) = <<>>
    BY <1>2, <1>3, <2>1, <2>2, <2>3
  <2>5. \A c \in ToSet(ArtistLookups) : c \in Fallback(ArtistLookups)
    BY <2>4, LookupsAre, AllOfFallback
  <2> QED
    BY <2>1, <2>4, <2>5
<1>8. ASSUME request.endpoint = "lyrics" PROVE \A c \in ToSet(lookups) : Returned(c)
  <2>1. lookups = <<"exact", "search">> /\ "exact" \in Due /\ "search" \in Due
    BY <1>8 DEF Due, LyricsDue, Parallel
  <2>2. ToSet(<<"exact", "search">>) = {"exact", "search"}
    BY DEF ToSet
  <2> QED
    BY <1>2, <1>3, <2>1, <2>2
<1> QED
  BY <1>1, <1>4, <1>5, <1>6, <1>7, <1>8 DEF Endpoints

\* No answer is empty while a lookup that the parameters and the key allow is left
\* unmade, unless it is of artists that were found and dropped.
THEOREM EmptyIsExhaustive == Spec => []NoFallbackSkipped
BY SearchIsSettled, NoFallbackSkippedInv, PTL

-----------------------------------------------------------------------------
(* The best words *)

WordRecords == [source : {"netease", "qqmusic", "kugou"}, length : Nat]

LEMMA WordsOfIs ==
  ASSUME Typed, NEW source \in {"netease", "qqmusic", "kugou"},
         NEW last \in {"neLyric", "qqLyric", "kuLoad"}
  PROVE  WordsOf(source, last) \in Seq(WordRecords)
<1>1. last \in Calls /\ Results(last) = Nat
  BY DEF Calls, WordLookups, Results, MusicBrainzLookups, Parallel
<1>2. PICK d : d = Data(last)
  OBVIOUS
<1>3. d \in Seq(Nat)
  BY <1>1, <1>2, GotIs
<1>4. CASE d = <<>>
  BY <1>2, <1>4 DEF WordsOf
<1>5. CASE d # <<>>
  <2>1. d[1] \in Nat
    <3>1. Len(d) \in Nat /\ Len(d) # 0
      BY <1>3, <1>5, LenProperties, EmptySeq
    <3>2. 1 \in 1..Len(d)
      BY <3>1
    <3> QED
      BY <1>3, <3>2, ElementOfSeq
  <2>2. Min({d[1], MaxWords}) \in Nat
    BY <2>1, MinOfTwo, RequestsAssumption
  <2>3. [source |-> source, length |-> Min({d[1], MaxWords})] \in WordRecords
    BY <2>2 DEF WordRecords
  <2>4. WordsOf(source, last) = <<[source |-> source, length |-> Min({d[1], MaxWords})]>>
    BY <1>2, <1>5 DEF WordsOf
  <2> QED
    BY <2>3, <2>4
<1> QED
  BY <1>4, <1>5

LEMMA WordResultsAre ==
  ASSUME Typed
  PROVE  WordResults \in Seq(WordRecords)
<1>1. /\ WordsOf("netease", "neLyric") \in Seq(WordRecords)
      /\ WordsOf("qqmusic", "qqLyric") \in Seq(WordRecords)
      /\ WordsOf("kugou", "kuLoad") \in Seq(WordRecords)
  BY WordsOfIs
<1> QED
  BY <1>1 DEF WordResults

\* The first of the longest.
LEMMA BestWords ==
  ASSUME NEW W \in Seq(WordRecords), NEW words, words = Cut(Sorted(W, ByLength(W)), 1)
  PROVE  /\ words = <<>> <=> W = <<>>
         /\ \A i \in DOMAIN W :
              \/ words[1].length > W[i].length
              \/ words[1].length = W[i].length /\ \E j \in 1..i : W[j] = words[1]
<1>1. PICK less : less = ByLength(W)
  OBVIOUS
<1>2. \A i \in DOMAIN W : W[i].length \in Int
  <2>1. \A w \in WordRecords : w.length \in Nat
    BY DEF WordRecords
  <2> QED
    BY <2>1, LenProperties, ElementOfSeq
<1> DEFINE number == [i \in DOMAIN W |-> W[i].length]
<1>3. \A i \in DOMAIN W : number[i] = W[i].length /\ number[i] \in Int
  BY <1>2
<1>4. less = {p \in Pairs(W) : number[p[1]] > number[p[2]]}
  BY <1>1, <1>3 DEF ByLength, Pairs
<1> HIDE DEF number
<1>5. WeakOrder(W, less) /\ \A i, j \in DOMAIN W : <<i, j>> \in less <=> number[i] > number[j]
  BY <1>3, <1>4, ByNumber
<1>6. PICK s, at : /\ s = Sorted(W, less) /\ s \in Seq(WordRecords) /\ Len(s) = Len(W)
                   /\ Sorts(W, less, s, at)
  BY <1>5, SortOf
<1>7. words = Cut(s, 1)
  BY <1>1, <1>6
<1>8. Len(W) \in Nat /\ DOMAIN W = 1..Len(W) /\ DOMAIN s = 1..Len(W)
  BY <1>6, LenProperties
<1>9. /\ words = <<>> <=> s = <<>>
      /\ Len(words) = IF 1 <= Len(s) THEN 1 ELSE Len(s)
      /\ \A i \in 1..Len(words) : words[i] = s[i]
  <2>1. 1 \in Nat \ {0} /\ s \in Seq(WordRecords)
    BY <1>6
  <2>2. Len(Cut(s, 1)) = IF 1 <= Len(s) THEN 1 ELSE Len(s)
    BY <2>1, CutIs
  <2>3. \A i \in 1..Len(Cut(s, 1)) : Cut(s, 1)[i] = s[i]
    BY <2>1, CutIs
  <2>4. Cut(s, 1) = <<>> <=> s = <<>>
    BY <2>1, CutIs
  <2> QED
    BY <1>7, <2>2, <2>3, <2>4
<1>10. words = <<>> <=> W = <<>>
  BY <1>6, <1>9, EmptySeq
<1>11. /\ \A k \in DOMAIN s : at[k] \in DOMAIN W /\ s[k] = W[at[k]]
       /\ \A i \in DOMAIN W : \E k \in DOMAIN s : at[k] = i /\ s[k] = W[i]
  <2>1. WeakOrder(W, less) /\ Sorts(W, less, s, at)
    BY <1>5, <1>6
  <2>2. \A k \in DOMAIN s : at[k] \in DOMAIN W /\ s[k] = W[at[k]]
    BY <2>1, SortHas
  <2>3. \A i \in DOMAIN W : \E k \in DOMAIN s : at[k] = i /\ s[k] = W[i]
    BY <2>1, SortHas
  <2> QED
    BY <2>2, <2>3
<1>12. \A k, l \in DOMAIN s : k < l =>
         \/ number[at[k]] > number[at[l]]
         \/ number[at[k]] = number[at[l]] /\ at[k] < at[l]
  BY ZenonT(30), <1>3, <1>5, <1>6, Descends
<1>13. ASSUME NEW i \in DOMAIN W
       PROVE  \/ words[1].length > W[i].length
              \/ words[1].length = W[i].length /\ \E j \in 1..i : W[j] = words[1]
  <2>1. 1 \in DOMAIN s /\ words[1] = s[1]
    BY <1>6, <1>8, <1>9
  <2>2. PICK k \in DOMAIN s : at[k] = i
    BY <1>11
  <2>3. /\ at[1] \in DOMAIN W /\ words[1] = W[at[1]]
        /\ words[1].length = number[at[1]] /\ W[i].length = number[i]
        /\ number[at[1]] \in Int /\ number[i] \in Int
    BY SMTT(30), <1>3, <1>11, <2>1
  <2>4. CASE k = 1
    <3>1. i \in 1..i
      BY <1>8
    <3> QED
      BY <2>2, <2>3, <2>4, <3>1
  <2>5. CASE k # 1
    <3>1. 1 < k
      BY <1>8, <2>5
    <3>2. \/ number[at[1]] > number[i]
          \/ number[at[1]] = number[i] /\ at[1] < i
      BY <1>12, <2>1, <2>2, <3>1
    <3>3. at[1] < i => at[1] \in 1..i
      BY <1>8, <2>3
    <3> QED
      BY <2>3, <3>2, <3>3
  <2> QED
    BY <2>4, <2>5
<1> QED
  BY <1>10, <1>13

\* Of lyrics that hold a text some are not empty.
LEMMA FullIs ==
  ASSUME Typed, Full("exact") = <<>>
  PROVE  \A l \in ToSet(Data("exact")) : ~l.text
<1>1. "exact" \in Calls
  BY DEF Calls, Base, Parallel
<1>2. PICK d, S : d = Data("exact") /\ d \in Seq(S)
  BY <1>1, GotIs DEF Data
<1> DEFINE I == {i \in DOMAIN d : d[i].text}
<1>3. I \in SUBSET DOMAIN d
  OBVIOUS
<1>4. Picked(d, I) = <<>>
  BY <1>2 DEF Full
<1>5. I = {}
  <2> HIDE DEF I
  <2> QED
    BY <1>2, <1>3, <1>4, PickedBy, EmptySeq
<1> QED
  BY <1>2, <1>5 DEF ToSet

LEMMA WordsInv == Inv => WordsAreBest
<1> SUFFICES ASSUME Inv
             PROVE  /\ LyricsV2.match = "search" => \A l \in ToSet(Data("exact")) : ~l.text
                    /\ (LyricsV2.words = <<>>) <=> (WordResults = <<>>)
                    /\ \A i \in DOMAIN WordResults :
                         /\ \E e \in ToSet(LyricsV2.sources) :
                              e.provider = LyricsV2.words[1].source /\ e.role = "enrichment"
                         /\ \/ LyricsV2.words[1].length > WordResults[i].length
                            \/ /\ LyricsV2.words[1].length = WordResults[i].length
                               /\ \E j \in 1..i : WordResults[j] = LyricsV2.words[1]
  BY DEF WordsAreBest
<1>1. PICK W, words : W = WordResults /\ words = SelectBestWordLyrics
  OBVIOUS
<1>2. W \in Seq(WordRecords)
  BY <1>1, WordResultsAre DEF Inv
<1>3. words = Cut(Sorted(W, ByLength(W)), 1)
  BY <1>1 DEF SelectBestWordLyrics
<1>4. /\ words = <<>> <=> W = <<>>
      /\ \A i \in DOMAIN W :
           \/ words[1].length > W[i].length
           \/ words[1].length = W[i].length /\ \E j \in 1..i : W[j] = words[1]
  BY <1>2, <1>3, BestWords
<1>5. /\ LyricsV2.words = words
      /\ LyricsV2.match = IF Full("exact") # <<>> THEN "exact_metadata" ELSE "search"
      /\ LyricsV2.sources = Identified("lrclib")
           \o (IF words = <<>> THEN <<>> ELSE Enriched(words[1].source, {"wordLyrics"}))
  BY <1>1 DEF LyricsV2
<1>6. ASSUME words # <<>>
      PROVE  \E e \in ToSet(LyricsV2.sources) : e.provider = words[1].source /\ e.role = "enrichment"
  <2> DEFINE e == [provider |-> words[1].source, role |-> "enrichment", fields |-> {"wordLyrics"}]
             S == {e} \cup {[provider |-> "lrclib", role |-> "identity", fields |-> {"name"}]}
  <2>1. Enriched(words[1].source, {"wordLyrics"}) = <<e>>
    BY DEF Enriched
  <2>2. PICK s, t : s = Identified("lrclib") /\ t = <<e>>
    OBVIOUS
  <2>3. s \in Seq(S) /\ t \in Seq(S)
    BY <2>2 DEF Identified
  <2>4. LyricsV2.sources = s \o t
    BY <1>5, <1>6, <2>1, <2>2
  <2> HIDE DEF S
  <2>5. ToSet(LyricsV2.sources) = ToSet(s) \cup ToSet(t)
    BY <2>3, <2>4, EntriesOfConcat
  <2>6. e \in ToSet(t)
    <3> HIDE DEF e
    <3>1. 1 \in DOMAIN t /\ t[1] = e
      BY <2>2
    <3> QED
      BY <3>1 DEF ToSet
  <2>7. e.provider = words[1].source /\ e.role = "enrichment"
    OBVIOUS
  <2> QED
    BY <2>5, <2>6, <2>7
<1>7. \A i \in DOMAIN W : words # <<>>
  BY <1>4
<1>8. LyricsV2.match = "search" => \A l \in ToSet(Data("exact")) : ~l.text
  BY <1>5, FullIs DEF Inv
<1> QED
  BY ZenonT(30), <1>1, <1>4, <1>5, <1>6, <1>7, <1>8

\* Whatever the chains bring and in whichever order they end, the answer has the
\* longest words, and names where they are from.
THEOREM LongestWordsWin == Spec => []WordsAreBest
BY SearchIsSettled, WordsInv, PTL

-----------------------------------------------------------------------------
(* The fields of an artist and their sources *)

LEMMA ArtistFields ==
  \A provider, fields, linked : \A a \in ArtistResults(provider, fields, linked) :
    a.provider = provider /\ a.fields \subseteq fields /\ a.wikidata \in linked
BY DEF ArtistResults

\* An artist that links to Wikidata is MusicBrainz's, and has no field yet.
LEMMA LinkedAre ==
  ASSUME NEW c \in {"artistById", "artistSearch", "artistDetail", "neteaseArtist", "qqArtist"},
         NEW a \in Results(c), a.wikidata
  PROVE  a.fields = {}
<1>1. CASE c \in {"artistById", "artistSearch", "artistDetail"}
  <2>1. Results(c) = ArtistResults("musicbrainz", {}, BOOLEAN)
    BY <1>1 DEF Results, MusicBrainzLookups, WordLookups, Parallel
  <2> QED
    BY <2>1, ArtistFields
<1>2. CASE c = "neteaseArtist"
  <2>1. Results(c) = ArtistResults("netease", {"avatar"}, {FALSE})
                     \cup ArtistResults("musicbrainz", {}, {FALSE})
    BY <1>2 DEF Results, MusicBrainzLookups, WordLookups, Parallel
  <2>2. \/ a \in ArtistResults("netease", {"avatar"}, {FALSE})
        \/ a \in ArtistResults("musicbrainz", {}, {FALSE})
    BY <2>1
  <2>3. a.wikidata \in {FALSE}
    BY <2>2, ArtistFields, Zenon
  <2> QED
    BY <2>3
<1>3. CASE c = "qqArtist"
  <2>1. Results(c) = ArtistResults("qqmusic", {"avatar"}, {FALSE})
    BY <1>3 DEF Results, MusicBrainzLookups, WordLookups, Parallel
  <2>2. a \in ArtistResults("qqmusic", {"avatar"}, {FALSE})
    BY <2>1
  <2>3. a.wikidata \in {FALSE}
    BY <2>2, ArtistFields, Zenon
  <2> QED
    BY <2>3
<1> QED
  BY <1>1, <1>2, <1>3

LEMMA ArtistsAre ==
  ASSUME Inv, request.endpoint = "artists"
  PROVE  /\ \A i \in DOMAIN Artists : Artists[i].wikidata => Artists[i].fields = {}
         /\ Artists # <<>> => 1 \in DOMAIN Artists
<1>1. PICK a, b, c, d, e : /\ a = Data("artistById") /\ b = Data("artistSearch")
                           /\ c = Data("neteaseArtist") /\ d = Data("qqArtist")
                           /\ e = Data("artistDetail")
  OBVIOUS
<1> DEFINE S == UNION {Results(x) : x \in {"artistById", "artistSearch", "artistDetail",
                                           "neteaseArtist", "qqArtist"}}
<1>2. a \in Seq(S) /\ b \in Seq(S) /\ c \in Seq(S) /\ d \in Seq(S) /\ e \in Seq(S)
  <2>1. {"artistById", "artistSearch", "neteaseArtist", "qqArtist", "artistDetail"} \subseteq Calls
    BY DEF Calls, Base
  <2>2. ASSUME NEW x \in {"artistById", "artistSearch", "artistDetail", "neteaseArtist", "qqArtist"}
        PROVE  Data(x) \in Seq(S)
    <3>1. PICK X : X = Results(x)
      OBVIOUS
    <3>2. Data(x) \in Seq(X)
      BY <2>1, <3>1, ListedIs DEF Inv
    <3>3. X \subseteq S
      BY <3>1
    <3> HIDE DEF S
    <3> QED
      BY <3>2, <3>3
  <2> QED
    BY <1>1, <2>2
<1>3. \A x \in S : x.wikidata => x.fields = {}
  BY LinkedAre
<1> HIDE DEF S
<1>4. ArtistValues \in Seq(S)
  <2>1. CASE e # <<>>
    <3>1. b # <<>>
      BY <1>1, <2>1, DetailFollows DEF DetailDue
    <3>2. Tail(b) \in Seq(S)
      BY <1>2, <3>1
    <3>3. e \o Tail(b) \in Seq(S)
      BY <1>2, <3>2, ConcatProperties
    <3> QED
      BY <1>1, <2>1, <3>3 DEF ArtistValues
  <2>2. CASE e = <<>>
    <3>1. a \o b \in Seq(S)
      BY <1>2, ConcatProperties
    <3>2. (a \o b) \o c \in Seq(S)
      BY <1>2, <3>1, ConcatProperties
    <3>3. ((a \o b) \o c) \o d \in Seq(S)
      BY <1>2, <3>2, ConcatProperties
    <3> QED
      BY <1>1, <2>2, <3>3 DEF ArtistValues
  <2> QED
    BY <2>1, <2>2
<1>5. PICK s, v, I : s = Artists /\ v = ArtistValues /\ s = Picked(v, I) /\ I \in SUBSET DOMAIN v
  BY DEF Artists
<1>6. s \in Seq(S)
  BY <1>4, <1>5, PickedBy
<1>7. Len(s) \in Nat /\ DOMAIN s = 1..Len(s) /\ \A i \in 1..Len(s) : s[i] \in S
  BY <1>6, LenProperties, ElementOfSeq
<1>8. s # <<>> => 1 \in DOMAIN s
  <2>1. s # <<>> => Len(s) # 0
    BY <1>6, EmptySeq
  <2> QED
    BY <1>7, <2>1
<1> QED
  BY <1>3, <1>5, <1>7, <1>8

\* Wikidata is asked only for a first artist that links to it.
LEMMA WikidataFollows ==
  ASSUME Inv, request.endpoint = "artists", Data("wikidata") # <<>>
  PROVE  Artists[1].wikidata
<1>1. "wikidata" \in Calls
  BY DEF Calls
<1>2. "wikidata" \in ArtistsDue
  BY <1>1, BroughtIs DEF Inv, AskedInTurn, Due
<1>3. "wikidata" \notin Fallback(ArtistLookups)
  BY ArtistLookupsAre DEF Fallback, ArtistCalls
<1>4. "wikidata" \notin Chain(<<"profile", "intro">>)
  BY DEF Chain
<1> QED
  BY <1>2, <1>3, <1>4 DEF ArtistsDue

\* Each field has one source after the first, and each of these sources a field.
Attributed(sources, fields) ==
  /\ \A f \in fields : Cardinality({e \in ToSet(Tail(sources)) : f \in e.fields}) = 1
  /\ \A e \in ToSet(Tail(sources)) : e.fields # {} /\ e.fields \subseteq fields

LEMMA EnrichmentsAre ==
  ASSUME NEW p, NEW wiki, NEW more, wiki \cap more = {},
         NEW sources, sources = Identified(p) \o (Enriched("wikidata", wiki) \o Enriched("netease", more))
  PROVE  Attributed(sources, wiki \cup more)
<1> DEFINE w == [provider |-> "wikidata", role |-> "enrichment", fields |-> wiki]
           m == [provider |-> "netease", role |-> "enrichment", fields |-> more]
           id == [provider |-> p, role |-> "identity", fields |-> {"name"}]
           S == {w, m, id}
<1>1. w.fields = wiki /\ m.fields = more
  OBVIOUS
<1>2. PICK a, b, c : /\ a = Identified(p) /\ b = Enriched("wikidata", wiki) /\ c = Enriched("netease", more)
  OBVIOUS
<1>3. /\ a = <<id>>
      /\ b = IF wiki = {} THEN <<>> ELSE <<w>>
      /\ c = IF more = {} THEN <<>> ELSE <<m>>
  BY <1>2 DEF Identified, Enriched
<1> HIDE DEF w, m, id
<1>4. a \in Seq(S) /\ b \in Seq(S) /\ c \in Seq(S)
  <2>1. \A x \in S : <<x>> \in Seq(S)
    OBVIOUS
  <2>2. w \in S /\ m \in S /\ id \in S
    OBVIOUS
  <2>3. <<>> \in Seq(S)
    OBVIOUS
  <2> HIDE DEF S
  <2> QED
    BY <1>3, <2>1, <2>2, <2>3, Zenon
<1>5. ToSet(b) = (IF wiki = {} THEN {} ELSE {w}) /\ ToSet(c) = (IF more = {} THEN {} ELSE {m})
  BY <1>3 DEF ToSet
<1> HIDE DEF S
<1>6. sources = a \o (b \o c) /\ b \o c \in Seq(S)
  BY SMTT(30), <1>2, <1>4, ConcatProperties
<1>7. Tail(sources) = b \o c
  <2>1. PICK t : t = b \o c
    OBVIOUS
  <2>2. t \in Seq(S) /\ sources = a \o t /\ sources \in Seq(S)
    BY <1>4, <1>6, <2>1, ConcatProperties
  <2>3. /\ Len(a) = 1 /\ Len(t) \in Nat /\ Len(sources) = 1 + Len(t)
        /\ \A i \in 1 .. 1 + Len(t) : sources[i] = IF i <= 1 THEN a[i] ELSE t[i - 1]
    <3>1. Len(a) = 1 /\ Len(t) \in Nat
      BY <1>3, <2>2, LenProperties
    <3>2. /\ Len(a \o t) = Len(a) + Len(t)
          /\ \A i \in 1 .. Len(a) + Len(t) : (a \o t)[i] = IF i <= Len(a) THEN a[i] ELSE t[i - Len(a)]
      BY <1>4, <2>2, ConcatProperties
    <3> QED
      BY <2>2, <3>1, <3>2
  <2>4. sources # <<>>
    BY <2>2, <2>3, EmptySeq
  <2>5. /\ Tail(sources) \in Seq(S) /\ Len(Tail(sources)) = Len(t)
        /\ \A i \in 1..Len(t) : Tail(sources)[i] = sources[i + 1]
    BY <2>2, <2>3, <2>4, HeadTailProperties
  <2>6. \A i \in 1..Len(t) : sources[i + 1] = t[i]
    BY <2>3
  <2>7. Tail(sources) = t
    BY <2>2, <2>5, <2>6, SeqEqual
  <2> QED
    BY <2>1, <2>7
<1>8. ToSet(Tail(sources)) = ToSet(b) \cup ToSet(c)
  BY ZenonT(30), <1>4, <1>7, EntriesOfConcat
<1>9. ASSUME NEW f \in wiki \cup more
      PROVE  Cardinality({e \in ToSet(Tail(sources)) : f \in e.fields}) = 1
  <2>1. CASE f \in wiki
    <3>1. {e \in ToSet(Tail(sources)) : f \in e.fields} = {w}
      BY <1>1, <1>5, <1>8, <2>1
    <3> QED
      BY <3>1, FS_Singleton
  <2>2. CASE f \in more
    <3>1. {e \in ToSet(Tail(sources)) : f \in e.fields} = {m}
      BY <1>1, <1>5, <1>8, <2>2
    <3> QED
      BY <3>1, FS_Singleton
  <2> QED
    BY <2>1, <2>2
<1>10. \A e \in ToSet(Tail(sources)) : e.fields # {} /\ e.fields \subseteq wiki \cup more
  BY <1>1, <1>5, <1>8
<1> QED
  BY <1>9, <1>10 DEF Attributed

\* An artist with another id than the first has but the source that it is from.
LEMMA OthersAre ==
  ASSUME NEW id, id # Artists[1].id
  PROVE  Tail(SourceMetadata(id)) = <<>>
<1>1. PICK p : SourceMetadata(id) = Identified(p) \o <<>>
  BY DEF SourceMetadata
<1>2. PICK e : Identified(p) = <<e>>
  BY DEF Identified
<1>3. \A x : <<x>> \in Seq({x}) /\ Tail(<<x>>) = <<>>
  OBVIOUS
<1>4. <<e>> \o <<>> = <<e>>
  BY <1>3, ConcatEmptySeq
<1> QED
  BY <1>1, <1>2, <1>3, <1>4, Zenon

LEMMA SourcesInv == Inv => EveryFieldHasItsSource
<1> SUFFICES ASSUME Inv, request.endpoint = "artists", Artists # <<>>
             PROVE  /\ \A f \in ArtistsV2[1].fields :
                         Cardinality({e \in ToSet(Tail(ArtistsV2[1].sources)) : f \in e.fields})
                           = IF f \in Artists[1].fields THEN 0 ELSE 1
                    /\ \A e \in ToSet(Tail(ArtistsV2[1].sources)) :
                         e.fields # {} /\ e.fields \subseteq ArtistsV2[1].fields
                    /\ \A i \in DOMAIN ArtistsV2 :
                         Tail(ArtistsV2[i].sources) # <<>> => Artists[i].id = Artists[1].id
  BY DEF EveryFieldHasItsSource
<1>1. 1 \in DOMAIN Artists /\ (Artists[1].wikidata => Artists[1].fields = {})
  BY ArtistsAre
<1>2. PICK wiki, had, more :
        /\ wiki = WikidataArtistProfile
        /\ had = IF Artists[1].wikidata THEN wiki ELSE Artists[1].fields
        /\ more = NeteaseArtistProfile \ had
  OBVIOUS
<1>3. ~Artists[1].wikidata => wiki = {}
  BY <1>2, WikidataFollows DEF WikidataArtistProfile, Offered
<1>4. wiki \cap more = {}
  BY <1>2, <1>3
<1>5. /\ FirstArtist.fields = had \cup more
      /\ FirstArtist.enrichments = Enriched("wikidata", wiki) \o Enriched("netease", more)
  BY <1>2 DEF FirstArtist
<1>6. PICK fields, sources : fields = ArtistsV2[1].fields /\ sources = ArtistsV2[1].sources
  OBVIOUS
<1>7. fields = had \cup more /\ sources = SourceMetadata(Artists[1].id)
  BY <1>1, <1>5, <1>6 DEF ArtistsV2
<1>8. PICK p : sources = Identified(p) \o (Enriched("wikidata", wiki) \o Enriched("netease", more))
  BY <1>5, <1>7 DEF SourceMetadata
<1>9. Attributed(sources, wiki \cup more)
  BY <1>4, <1>8, EnrichmentsAre
<1>10. PICK given : given = ToSet(Tail(sources))
  OBVIOUS
<1>11. /\ \A f \in wiki \cup more : Cardinality({e \in given : f \in e.fields}) = 1
       /\ \A e \in given : e.fields # {} /\ e.fields \subseteq wiki \cup more
  BY <1>9, <1>10 DEF Attributed
<1>12. /\ \A f \in wiki \cup more : f \notin Artists[1].fields
       /\ wiki \cup more \subseteq fields
       /\ \A f \in fields : f \in wiki \cup more \/ f \in Artists[1].fields
  BY <1>1, <1>2, <1>3, <1>7
<1>13. ASSUME NEW f \in fields
       PROVE  Cardinality({e \in given : f \in e.fields}) = IF f \in Artists[1].fields THEN 0 ELSE 1
  <2>1. CASE f \in wiki \cup more
    BY <1>11, <1>12, <2>1
  <2>2. CASE f \notin wiki \cup more
    <3>1. {e \in given : f \in e.fields} = {}
      BY <1>11, <2>2
    <3> QED
      BY <1>12, <2>2, <3>1, FS_EmptySet
  <2> QED
    BY <2>1, <2>2
<1>14. \A e \in given : e.fields # {} /\ e.fields \subseteq fields
  BY <1>11, <1>12
<1>15. ASSUME NEW i \in DOMAIN ArtistsV2, Artists[i].id # Artists[1].id
       PROVE  Tail(ArtistsV2[i].sources) = <<>>
  <2>1. i \in DOMAIN Artists
    BY DEF ArtistsV2
  <2>2. ArtistsV2[i].sources = SourceMetadata(Artists[i].id)
    BY <2>1 DEF ArtistsV2
  <2> QED
    BY <1>15, <2>2, OthersAre
<1> QED
  BY <1>6, <1>10, <1>13, <1>14, <1>15

\* Whatever the providers say of an artist, each field it was enriched with has exactly
\* one source, and each source named as an enrichment gave a field of the first artist.
THEOREM FieldsAreAttributed == Spec => []EveryFieldHasItsSource
BY SearchIsSettled, SourcesInv, PTL

-----------------------------------------------------------------------------
(* The best of each recording and release group *)

AlbumRecords == [releaseGroup : Nat, confidence : Scores]

LEMMA AlbumRecordFields ==
  \A a \in AlbumRecords : a.releaseGroup \in Nat /\ a.confidence \in Scores /\ a.confidence \in Int
<1>1. \A a \in AlbumRecords : a.releaseGroup \in Nat /\ a.confidence \in Scores
  BY DEF AlbumRecords
<1>2. \A x \in Scores : x \in Int
  BY SMTT(30) DEF Scores
<1> QED
  BY <1>1, <1>2

\* Albums are compared by two numbers.
LEMMA ConfidenceOrder ==
  ASSUME NEW A \in Seq(AlbumRecords)
  PROVE  /\ WeakOrder(A, ByConfidence(A))
         /\ \A i, j \in DOMAIN A : <<i, j>> \in ByConfidence(A) => A[i].confidence >= A[j].confidence
         /\ \A i, j \in DOMAIN A : A[i].confidence > A[j].confidence => <<i, j>> \in ByConfidence(A)
<1>1. \A i, j \in DOMAIN A : <<i, j>> \in ByConfidence(A) <=>
        \/ A[i].confidence > A[j].confidence
        \/ A[i].confidence = A[j].confidence /\ A[i].releaseGroup < A[j].releaseGroup
  BY DEF ByConfidence, Pairs
<1>2. ByConfidence(A) \subseteq Pairs(A)
  BY DEF ByConfidence
<1>3. \A i \in DOMAIN A : A[i].confidence \in Int /\ A[i].releaseGroup \in Nat
  BY LenProperties, ElementOfSeq, AlbumRecordFields
<1>4. \A i, j \in DOMAIN A : <<i, j>> \in ByConfidence(A) => <<j, i>> \notin ByConfidence(A)
  BY SMTT(30), <1>1, <1>3
<1>5. ASSUME NEW i \in DOMAIN A, NEW j \in DOMAIN A, NEW k \in DOMAIN A,
             <<i, k>> \in ByConfidence(A)
      PROVE  <<i, j>> \in ByConfidence(A) \/ <<j, k>> \in ByConfidence(A)
  <2>1. PICK a, b, c \in Int : a = A[i].confidence /\ b = A[j].confidence /\ c = A[k].confidence
    BY <1>3
  <2>2. PICK x, y, z \in Int : x = A[i].releaseGroup /\ y = A[j].releaseGroup /\ z = A[k].releaseGroup
    BY <1>3
  <2>3. a > c \/ (a = c /\ x < z)
    BY <1>1, <1>5, <2>1, <2>2
  <2>4. \/ a > b \/ (a = b /\ x < y)
        \/ b > c \/ (b = c /\ y < z)
    BY <2>3
  <2> QED
    BY <1>1, <2>1, <2>2, <2>4
<1>6. \A i, j \in DOMAIN A : <<i, j>> \in ByConfidence(A) => A[i].confidence >= A[j].confidence
  BY <1>1, <1>3
<1> QED
  BY <1>1, <1>2, <1>4, <1>5, <1>6 DEF WeakOrder

Distinct(A) ==
  /\ A \in Seq(AlbumRecords)
  /\ \A i, j \in DOMAIN A : i < j =>
       A[i].releaseGroup # A[j].releaseGroup /\ A[i].confidence >= A[j].confidence

\* No result is better than the album of its release group.
Bests(A, V) ==
  \A a \in ToSet(V) : \A i \in DOMAIN A :
    a.releaseGroup = A[i].releaseGroup => a.score <= A[i].confidence

\* The albums made of release groups: each group once, the most confident first.
LEMMA AlbumsAreOf ==
  ASSUME NEW V \in Seq(AlbumResults), NEW exact,
         NEW A, A = CanonicalizeReleaseGroups(V, exact, Limit)
  PROVE  Distinct(A) /\ (~exact => Bests(A, V))
<1>1. PICK I : I = {i \in DOMAIN V : V[i].releaseGroup # NoId}
  OBVIOUS
<1>2. PICK named : named = Picked(V, I)
  OBVIOUS
<1>3. PICK at : Picks(V, I, named, at) /\ named \in Seq(AlbumResults)
  <2>1. I \in SUBSET DOMAIN V
    BY <1>1
  <2> QED
    BY <1>2, <2>1, PickOf
<1>4. PICK albums : albums = [i \in DOMAIN named |-> AlbumFromReleaseGroup(named[i], exact)]
  OBVIOUS
<1>5. PICK n : n = Len(named)
  OBVIOUS
<1>6. n \in Nat /\ DOMAIN named = 1..n /\ \A i \in 1..n : named[i] \in AlbumResults
  BY <1>3, <1>5, LenProperties, ElementOfSeq
<1>7. ASSUME NEW i \in 1..n
      PROVE  /\ albums[i] \in AlbumRecords /\ albums[i].releaseGroup = named[i].releaseGroup
             /\ ~exact => albums[i].confidence = named[i].score
  <2>0. 10000 \in Scores
    BY SMTT(30) DEF Scores
  <2>1. named[i].releaseGroup \in Nat /\ named[i].score \in Scores /\ 10000 \in Scores
    BY <1>6, <2>0, AlbumFields
  <2>2. albums[i] = [releaseGroup |-> named[i].releaseGroup,
                     confidence |-> IF exact THEN 10000 ELSE named[i].score]
    BY <1>4, <1>6 DEF AlbumFromReleaseGroup
  <2> QED
    BY <2>1, <2>2 DEF AlbumRecords
<1>8. albums \in Seq(AlbumRecords) /\ DOMAIN albums = 1..n
  <2>1. albums = [i \in 1..n |-> albums[i]]
    BY <1>4, <1>6
  <2>2. albums \in [1..n -> AlbumRecords]
    BY <1>7, <2>1
  <2> QED
    BY <1>6, <2>2
<1>9. PICK B : B = BestOfGroup(albums)
  OBVIOUS
<1>10. /\ B \in SUBSET DOMAIN albums
       /\ \A i \in B : \A j \in 1..n : albums[j].releaseGroup = albums[i].releaseGroup =>
            \/ albums[i].confidence > albums[j].confidence
            \/ albums[i].confidence = albums[j].confidence /\ i <= j
  BY <1>8, <1>9 DEF BestOfGroup
<1>11. PICK best, to : best = Picked(albums, B) /\ best \in Seq(AlbumRecords) /\ Picks(albums, B, best, to)
  BY <1>8, <1>10, PickOf
<1>12. PICK less : less = ByConfidence(best)
  OBVIOUS
<1>13. /\ WeakOrder(best, less)
       /\ \A i, j \in DOMAIN best : <<i, j>> \in less => best[i].confidence >= best[j].confidence
       /\ \A i, j \in DOMAIN best : best[i].confidence > best[j].confidence => <<i, j>> \in less
  BY <1>11, <1>12, ConfidenceOrder
<1>14. PICK s, pos : /\ s = Sorted(best, less) /\ s \in Seq(AlbumRecords)
                     /\ Sorts(best, less, s, pos)
  BY <1>11, <1>13, SortOf
<1>15. A = Cut(s, Limit)
  BY <1>1, <1>2, <1>4, <1>9, <1>11, <1>12, <1>14 DEF CanonicalizeReleaseGroups, Named
<1>16. /\ \A k \in DOMAIN s : pos[k] \in DOMAIN best /\ s[k] = best[pos[k]]
       /\ \A k, l \in DOMAIN s : k # l => pos[k] # pos[l]
  <2>1. \A k \in DOMAIN s : pos[k] \in DOMAIN best /\ s[k] = best[pos[k]]
    BY <1>13, <1>14, SortHas
  <2>2. \A k, l \in DOMAIN s : k # l => pos[k] # pos[l]
    BY <1>13, <1>14, SortHas
  <2> QED
    BY <2>1, <2>2
<1>17. /\ A \in Seq(AlbumRecords)
       /\ \A i \in DOMAIN A : i \in DOMAIN s /\ A[i] = s[i] /\ i \in Nat
  <2>1. Limit \in Nat \ {0}
    BY RequestsAssumption
  <2>2. A \in Seq(AlbumRecords)
    BY <1>14, <1>15, <2>1, CutIs
  <2>3. Len(A) = IF Limit <= Len(s) THEN Limit ELSE Len(s)
    BY <1>14, <1>15, <2>1, CutIs
  <2>4. \A i \in 1..Len(A) : A[i] = s[i]
    BY <1>14, <1>15, <2>1, CutIs
  <2>5. DOMAIN A = 1..Len(A) /\ DOMAIN s = 1..Len(s) /\ Len(s) \in Nat
    BY <1>14, <2>2, LenProperties
  <2> QED
    BY <2>1, <2>2, <2>3, <2>4, <2>5
<1>18. /\ \A k \in DOMAIN best : to[k] \in B /\ best[k] = albums[to[k]]
       /\ \A k, l \in DOMAIN best : k # l => to[k] # to[l]
  <2>1. \A k \in DOMAIN best : to[k] \in B /\ best[k] = albums[to[k]]
    BY <1>11 DEF Picks
  <2>2. ASSUME NEW k \in DOMAIN best, NEW l \in DOMAIN best, k # l PROVE to[k] # to[l]
    <3>1. k \in Nat /\ l \in Nat /\ k \in 1..Len(best) /\ l \in 1..Len(best)
      BY <1>11 DEF Picks
    <3>2. k < l \/ l < k
      BY <2>2, <3>1
    <3>3. to[k] < to[l] \/ to[l] < to[k]
      BY <1>11, <3>1, <3>2 DEF Picks
    <3>4. to[k] \in Nat /\ to[l] \in Nat
      BY <1>8, <1>10, <2>1
    <3> QED
      BY <3>3, <3>4
  <2> QED
    BY <2>1, <2>2
<1>19. ASSUME NEW i \in DOMAIN A
       PROVE  to[pos[i]] \in B /\ to[pos[i]] \in 1..n /\ A[i] = albums[to[pos[i]]]
  BY <1>8, <1>10, <1>16, <1>17, <1>18
<1>20. ASSUME NEW i \in DOMAIN A, NEW j \in DOMAIN A, i < j
       PROVE  A[i].releaseGroup # A[j].releaseGroup /\ A[i].confidence >= A[j].confidence
  <2>1. to[pos[i]] # to[pos[j]]
    <3>1. i # j /\ i \in DOMAIN s /\ j \in DOMAIN s
      BY <1>17, <1>20
    <3>2. pos[i] # pos[j] /\ pos[i] \in DOMAIN best /\ pos[j] \in DOMAIN best
      BY <1>16, <3>1
    <3> QED
      BY <1>18, <3>2
  <2>2. PICK p, q \in 1..n : p = to[pos[i]] /\ q = to[pos[j]]
    BY <1>19
  <2>3. /\ p \in B /\ q \in B /\ A[i] = albums[p] /\ A[j] = albums[q] /\ p # q
        /\ albums[p].confidence \in Int /\ albums[q].confidence \in Int
    BY <1>7, <1>19, <2>1, <2>2, AlbumRecordFields
  <2>4. A[i].releaseGroup # A[j].releaseGroup
    <3> SUFFICES ASSUME albums[p].releaseGroup = albums[q].releaseGroup PROVE FALSE
      BY <2>3
    <3>1. \/ albums[p].confidence > albums[q].confidence
          \/ albums[p].confidence = albums[q].confidence /\ p <= q
      BY <1>10, <2>3
    <3>2. \/ albums[q].confidence > albums[p].confidence
          \/ albums[q].confidence = albums[p].confidence /\ q <= p
      BY <1>10, <2>3
    <3> QED
      BY <1>6, <2>3, <3>1, <3>2
  <2>5. A[i].confidence >= A[j].confidence
    <3>1. PICK x, y : x = pos[i] /\ y = pos[j]
      OBVIOUS
    <3>2. <<x, y>> \in less \/ <<y, x>> \notin less
      BY <1>14, <1>17, <1>20, <3>1 DEF Sorts
    <3>3. x \in DOMAIN best /\ y \in DOMAIN best /\ A[i] = best[x] /\ A[j] = best[y]
      BY <1>16, <1>17, <3>1
    <3>4. A[i].confidence \in Int /\ A[j].confidence \in Int
      BY <2>3
    <3>5. <<y, x>> \notin less => ~(best[y].confidence > best[x].confidence)
      BY <1>13, <3>3
    <3>6. <<x, y>> \in less => best[x].confidence >= best[y].confidence
      BY <1>13, <3>3
    <3> QED
      BY <3>2, <3>3, <3>4, <3>5, <3>6
  <2> QED
    BY <2>4, <2>5
<1>21. ASSUME ~exact, NEW a \in ToSet(V), NEW i \in DOMAIN A, a.releaseGroup = A[i].releaseGroup
       PROVE  a.score <= A[i].confidence
  <2>1. PICK x \in DOMAIN V : V[x] = a
    BY DEF ToSet
  <2>2. PICK p \in 1..n : p \in B /\ A[i] = albums[p]
    BY <1>19
  <2>3. a.releaseGroup # NoId
    <3>1. named[p].releaseGroup = a.releaseGroup
      BY <1>7, <1>21, <2>2
    <3>2. at[p] \in I /\ named[p] = V[at[p]]
      BY <1>3, <1>5 DEF Picks
    <3> QED
      BY <1>1, <3>1, <3>2
  <2>4. PICK k \in 1..n : named[k] = a
    <3>1. x \in I
      BY <1>1, <2>1, <2>3
    <3> QED
      BY <1>3, <1>5, <2>1, <3>1 DEF Picks
  <2>5. albums[k].releaseGroup = albums[p].releaseGroup /\ albums[k].confidence = a.score
    BY <1>7, <1>21, <2>2, <2>4
  <2>6. \/ albums[p].confidence > albums[k].confidence
        \/ albums[p].confidence = albums[k].confidence /\ p <= k
    BY <1>10, <2>2, <2>5
  <2>7. albums[p].confidence \in Int /\ albums[k].confidence \in Int
    BY <1>7, AlbumRecordFields
  <2>8. albums[k].confidence <= albums[p].confidence
    BY <2>6, <2>7
  <2> QED
    BY <2>2, <2>5, <2>8
<1> QED
  BY <1>17, <1>20, <1>21 DEF Distinct, Bests

\* An album is of a lookup that the request made, and it made one.
LEMMA AlbumsAsked ==
  ASSUME Inv, request.endpoint = "albums"
  PROVE  /\ Data("release") # <<>> => Given("releaseMbid")
         /\ Data("releaseGroup") # <<>> => ~Given("releaseMbid") /\ Given("releaseGroupMbid")
         /\ Data("groupSearch") # <<>> => ~Given("releaseMbid") /\ ~Given("releaseGroupMbid")
<1>1. ASSUME NEW c \in {"release", "releaseGroup", "groupSearch"}, Data(c) # <<>>
      PROVE  c \in ToSet(AlbumLookups)
  <2>1. c \in Calls
    BY DEF Calls, Base
  <2> QED
    BY <1>1, <2>1, BroughtIs DEF Inv, AskedInTurn, Due
<1>2. CASE Given("releaseMbid")
  <2>1. AlbumLookups = <<"release">>
    BY <1>2 DEF AlbumLookups
  <2>2. ToSet(AlbumLookups) = {"release"}
    BY <2>1 DEF ToSet
  <2> QED
    BY <1>1, <1>2, <2>2
<1>3. CASE ~Given("releaseMbid") /\ Given("releaseGroupMbid")
  <2>1. AlbumLookups = <<"releaseGroup">>
    BY <1>3 DEF AlbumLookups
  <2>2. ToSet(AlbumLookups) = {"releaseGroup"}
    BY <2>1 DEF ToSet
  <2> QED
    BY <1>1, <1>3, <2>2
<1>4. CASE ~Given("releaseMbid") /\ ~Given("releaseGroupMbid")
  <2>1. AlbumLookups = <<"groupSearch">> \/ AlbumLookups = <<>>
    BY <1>4 DEF AlbumLookups, If
  <2>2. ToSet(AlbumLookups) \subseteq {"groupSearch"}
    BY <2>1 DEF ToSet
  <2> QED
    BY <1>1, <1>4, <2>2
<1> QED
  BY <1>2, <1>3, <1>4

LEMMA AlbumsInv == Inv => AlbumsAreApart
<1> SUFFICES ASSUME Inv, request.endpoint = "albums"
             PROVE  /\ \A i, j \in DOMAIN Albums : i < j =>
                         /\ Albums[i].releaseGroup # Albums[j].releaseGroup
                         /\ Albums[i].confidence >= Albums[j].confidence
                    /\ \A a \in ToSet(Data("groupSearch")) : \A i \in DOMAIN Albums :
                         a.releaseGroup = Albums[i].releaseGroup => a.score <= Albums[i].confidence
                    /\ {"releaseMbid", "releaseGroupMbid"} \subseteq request.given =>
                         \A i \in DOMAIN Albums : Albums[i].releaseGroup = AskedGroup
  BY DEF AlbumsAreApart
<1>1. PICK r, g, t : r = Data("release") /\ g = Data("releaseGroup") /\ t = Data("groupSearch")
  OBVIOUS
<1>2. r \in Seq(AlbumResults) /\ g \in Seq(AlbumResults) /\ t \in Seq(AlbumResults)
  <2>1. {"release", "releaseGroup", "groupSearch"} \subseteq Calls
    BY DEF Calls, Base
  <2> QED
    BY <1>1, <2>1, ListedIs, ResultsAre DEF Inv
<1>3. /\ r # <<>> => Given("releaseMbid")
      /\ g # <<>> => ~Given("releaseMbid") /\ Given("releaseGroupMbid")
      /\ t # <<>> => ~Given("releaseMbid") /\ ~Given("releaseGroupMbid")
  BY <1>1, AlbumsAsked
<1>4. ToSet(<<>>) = {}
  BY DEF ToSet
<1>5. PICK asked : asked = {i \in DOMAIN r : r[i].release = AskedRelease}
  OBVIOUS
<1>6. PICK A : A = Albums
  OBVIOUS
<1>7. CASE asked # {}
  <2>1. r # <<>> /\ t = <<>>
    BY <1>3, <1>5, <1>7
  <2>2. PICK v, expected :
          /\ A = CanonicalizeRelease(v, expected)
          /\ expected = IF Given("releaseGroupMbid") THEN AskedGroup ELSE NoId
    BY <1>1, <1>5, <1>6, <1>7 DEF Albums
  <2>3. A = <<>> \/ (/\ A = <<AlbumFromReleaseGroup(v, TRUE)>>
                     /\ expected \in {NoId, v.releaseGroup})
    BY <2>2 DEF CanonicalizeRelease
  <2>4. \A i \in DOMAIN A : /\ i = 1 /\ A[i].releaseGroup = v.releaseGroup
                            /\ expected \in {NoId, v.releaseGroup}
    BY <2>3 DEF AlbumFromReleaseGroup
  <2>5. AskedGroup # NoId
    BY RequestsAssumption DEF Ids
  <2>6. "releaseGroupMbid" \in request.given => expected = AskedGroup
    BY <2>2 DEF Given
  <2>7. \A i, j \in DOMAIN A : ~(i < j)
    BY <2>4
  <2>8. "releaseGroupMbid" \in request.given => \A i \in DOMAIN A : A[i].releaseGroup = AskedGroup
    BY <2>4, <2>5, <2>6
  <2> QED
    BY <1>1, <1>4, <1>6, <2>1, <2>7, <2>8
<1>8. CASE asked = {}
  <2>1. PICK x, y : /\ x = CanonicalizeReleaseGroups(g, TRUE, Limit)
                    /\ y = CanonicalizeReleaseGroups(t, FALSE, Limit)
    OBVIOUS
  <2>2. A = x \o y
    BY <1>1, <1>5, <1>6, <1>8, <2>1 DEF Albums
  <2>0. Distinct(x) /\ Distinct(y) /\ Bests(y, t)
    BY <1>2, <2>1, AlbumsAreOf
  <2>3. /\ x \in Seq(AlbumRecords)
        /\ \A i, j \in DOMAIN x : i < j =>
              x[i].releaseGroup # x[j].releaseGroup /\ x[i].confidence >= x[j].confidence
    BY <2>0 DEF Distinct
  <2>4. /\ y \in Seq(AlbumRecords)
        /\ \A i, j \in DOMAIN y : i < j =>
              y[i].releaseGroup # y[j].releaseGroup /\ y[i].confidence >= y[j].confidence
        /\ \A a \in ToSet(t) : \A i \in DOMAIN y :
              a.releaseGroup = y[i].releaseGroup => a.score <= y[i].confidence
    BY <2>0 DEF Distinct, Bests
  <2>5. (g = <<>> => x = <<>>) /\ (t = <<>> => y = <<>>)
    BY <2>1, MadeOfNone
  <2>6. CASE t = <<>>
    <3>1. A = x
      BY <2>2, <2>3, <2>5, <2>6, ConcatEmptySeq
    <3>2. Given("releaseMbid") => x = <<>>
      BY <1>3, <2>5
    <3>3. {"releaseMbid", "releaseGroupMbid"} \subseteq request.given => A = <<>>
      BY <3>1, <3>2 DEF Given
    <3>4. DOMAIN <<>> = {}
      OBVIOUS
    <3> QED
      BY <1>1, <1>4, <1>6, <2>3, <2>6, <3>1, <3>3, <3>4
  <2>7. CASE t # <<>>
    <3>1. g = <<>> /\ ~Given("releaseMbid")
      BY <1>3, <2>7
    <3>2. A = y
      BY <2>2, <2>4, <2>5, <3>1, ConcatEmptySeq
    <3> QED
      BY <1>1, <1>6, <2>4, <3>1, <3>2 DEF Given
  <2> QED
    BY <2>6, <2>7
<1> QED
  BY <1>7, <1>8

LEMMA BestInv == Inv => BestIsAnswered
<1> SUFFICES ASSUME Inv PROVE BestIsAnswered
  OBVIOUS
<1>1. BestIsKept
  <2>1. PICK E : E = Evidence
    OBVIOUS
  <2>2. E \in Seq(Evidences)
    BY <2>1, EvidenceIs DEF Inv
  <2>3. PICK kept : kept = DedupeRecordings(E)
    OBVIOUS
  <2>4. \A v \in ToSet(E) :
          \E i \in DOMAIN kept :
            /\ DedupeKey(kept[i]) = DedupeKey(v) /\ kept[i].score >= v.score
            /\ \A j \in DOMAIN kept \ {i} : DedupeKey(kept[j]) # DedupeKey(v)
    BY <2>2, <2>3, DedupedIs
  <2> QED
    BY <2>1, <2>3, <2>4 DEF BestIsKept
<1> QED
  BY <1>1, AlbumsInv DEF BestIsAnswered

\* Of a recording that several results are of, and of a release group, exactly the
\* best result is answered.
THEOREM OnlyTheBestIsAnswered == Spec => []BestIsAnswered
BY SearchIsSettled, BestInv, PTL

-----------------------------------------------------------------------------
(* The heads of the groups *)

\* No result is placed before one that the comparison puts first.
LEMMA InOrder ==
  ASSUME NEW E \in Seq(Evidences), NEW s, NEW at, Ordered(E, s, at)
  PROVE  /\ Len(s) \in Nat /\ DOMAIN s = 1..Len(s) /\ Len(s) = Len(E) /\ ToSet(s) = ToSet(E)
         /\ \A p \in 1..Len(s) : s[p] \in Evidences
         /\ \A p, q \in 1..Len(s) : p < q => ~CompareEvidence(s[q], s[p])
<1>1. PICK less : less = ByEvidence(E)
  OBVIOUS
<1>2. WeakOrder(E, less) /\ \A i, j \in DOMAIN E : <<i, j>> \in less <=> CompareEvidence(E[i], E[j])
  BY <1>1, EvidenceOrder
<1>3. s \in Seq(Evidences) /\ Len(s) = Len(E) /\ Sorts(E, less, s, at)
  BY <1>1 DEF Ordered
<1>0. WeakOrder(E, less) /\ Sorts(E, less, s, at)
  BY <1>2, <1>3
<1>4. \A k \in DOMAIN s : at[k] \in DOMAIN E /\ s[k] = E[at[k]]
  BY <1>0, SortHas
<1>5. \A i \in DOMAIN E : \E k \in DOMAIN s : at[k] = i /\ s[k] = E[i]
  BY <1>0, SortHas
<1>6. Len(s) \in Nat /\ DOMAIN s = 1..Len(s) /\ \A p \in 1..Len(s) : s[p] \in Evidences
  BY <1>3, LenProperties, ElementOfSeq
<1>7. ToSet(s) = ToSet(E)
  BY <1>4, <1>5 DEF ToSet
<1>8. ASSUME NEW p \in 1..Len(s), NEW q \in 1..Len(s), p < q PROVE ~CompareEvidence(s[q], s[p])
  <2>1. <<at[p], at[q]>> \in less \/ <<at[q], at[p]>> \notin less
    BY <1>3, <1>8 DEF Sorts
  <2>2. at[p] \in DOMAIN E /\ at[q] \in DOMAIN E /\ s[p] = E[at[p]] /\ s[q] = E[at[q]]
    BY <1>4, <1>6
  <2>3. <<at[q], at[p]>> \notin less
    BY <1>2, <2>1, <2>2 DEF WeakOrder
  <2> QED
    BY <1>2, <2>2, <2>3
<1> QED
  BY <1>3, <1>6, <1>7, <1>8

\* A group that begins with a track of iTunes holds only such tracks.
LEMMA HeadComesFirst ==
  ASSUME NEW E \in Seq(Evidences), NEW s, NEW at, Ordered(E, s, at),
         NEW p \in 1..Len(s), NEW q \in 1..Len(s), p < q, s[p] \in Supplementing
  PROVE  s[q] \in Supplementing
<1>1. s[p] \in Evidences /\ s[q] \in Evidences /\ ~CompareEvidence(s[q], s[p])
  BY InOrder
<1>2. Priority(s[p].provider) = 2 /\ Priority(s[q].provider) \in {0, 1, 2}
  BY <1>1, PriorityIs
<1>3. ~(Priority(s[q].provider) < Priority(s[p].provider))
  BY <1>1 DEF CompareEvidence
<1>4. ~(Priority(s[q].provider) < 2)
  BY <1>2, <1>3
<1> QED
  BY <1>1, <1>4, PriorityIs DEF Evidences

\* What a group holds: its head, and what has joined that.
Members(ev, h) ==
  /\ ev \in Seq(Evidences) /\ 1 \in DOMAIN ev /\ ev[1] = h /\ h \in Evidences
  /\ \A k \in DOMAIN ev : ev[k] \in Evidences /\ (k # 1 => Joins(h, ev[k]))
  /\ h \in Supplementing => \A k \in DOMAIN ev : ev[k] \in Supplementing

LEMMA MembersAre ==
  ASSUME NEW E \in Seq(Evidences), NEW s, NEW at, Ordered(E, s, at),
         NEW groups, NEW m, NEW hd, Grouped(s, Len(s), groups, m, hd), NEW g \in 1..m
  PROVE  /\ Members(groups[g].evidence, s[hd[g]]) /\ hd[g] \in 1..Len(s)
         /\ ToSet(groups[g].evidence) \subseteq ToSet(E)
<1>1. PICK ev : ev = groups[g].evidence
  OBVIOUS
<1>2. IsGroup(groups[g]) /\ hd[g] \in 1..Len(s) /\ ev[1] = s[hd[g]]
  BY <1>1 DEF Grouped, Begun
<1>3. ev \in Seq(Evidences) /\ 1 \in DOMAIN ev /\ \A k \in DOMAIN ev : ev[k] \in Evidences
  BY <1>1, <1>2, GroupHasFirst DEF IsGroup
<1>4. \A k \in DOMAIN ev : k # 1 =>
        \E q \in 1..Len(s) : hd[g] < q /\ ev[k] = s[q] /\ Joins(s[hd[g]], s[q])
  BY <1>1 DEF Grouped, Joined
<1>5. s[hd[g]] \in Supplementing => \A k \in DOMAIN ev : ev[k] \in Supplementing
  BY <1>2, <1>4, HeadComesFirst
<1>6. \A k \in DOMAIN ev : ev[k] \in ToSet(s)
  <2>1. DOMAIN s = 1..Len(s)
    BY InOrder
  <2>2. \A q \in 1..Len(s) : s[q] \in ToSet(s)
    BY <2>1 DEF ToSet
  <2> QED
    BY <1>2, <1>4, <2>2
<1>7. ToSet(ev) \subseteq ToSet(E)
  BY <1>6, InOrder DEF ToSet
<1>8. Members(ev, s[hd[g]])
  BY <1>2, <1>3, <1>4, <1>5 DEF Members
<1> QED
  BY <1>1, <1>2, <1>7, <1>8

\* The key of a recording is that of its head.
LEMMA KeyOfGroup ==
  ASSUME NEW group, NEW h, Members(group.evidence, h)
  PROVE  CanonicalizeGroup(group).canonicalId = DedupeKey(h)
<1>1. PICK ev : ev = group.evidence
  OBVIOUS
<1>2. /\ ev \in Seq(Evidences) /\ 1 \in DOMAIN ev /\ ev[1] = h /\ h \in Evidences
      /\ \A k \in DOMAIN ev : ev[k] \in Evidences
  BY <1>1 DEF Members
<1>3. DOMAIN ev = 1..Len(ev) /\ Len(ev) \in Nat
  BY <1>2, LenProperties
<1> DEFINE mbid == FirstIn(ev, "mbid")
           acoustId == FirstIn(ev, "acoustId")
           isrcs == UNION {ev[i].isrcs : i \in DOMAIN ev}
<1>4. CanonicalizeGroup(group).canonicalId = CanonicalId(h, mbid, isrcs, acoustId)
  BY <1>1, <1>2 DEF CanonicalizeGroup
<1>5. CASE h \in Identifying
  <2> DEFINE having == {i \in DOMAIN ev : ev[i]["mbid"] # NoId}
  <2>1. h.mbid # NoId
    BY <1>5, EvidenceFields DEF Ids
  <2>2. 1 \in having /\ having \in SUBSET Nat /\ \A i \in having : 1 <= i
    BY <1>2, <1>3, <2>1
  <2>3. mbid = IF having = {} THEN NoId ELSE ev[Min(having)]["mbid"]
    BY DEF FirstIn
  <2> HIDE DEF having
  <2>4. Min(having) = 1
    <3>1. having # {}
      BY <2>2
    <3>2. Min(having) \in having /\ Min(having) <= 1
      BY <2>2, <3>1, LeastIs
    <3>3. Min(having) \in Nat /\ 1 <= Min(having)
      BY <2>2, <3>2
    <3> QED
      BY <3>2, <3>3
  <2>5. mbid = h.mbid
    BY <1>2, <2>2, <2>3, <2>4
  <2> HIDE DEF mbid, isrcs, acoustId
  <2> QED
    BY <1>4, <2>1, <2>5 DEF CanonicalId, DedupeKey
<1>6. CASE h \in Supplementing
  <2>1. \A k \in DOMAIN ev : ev[k] \in Supplementing
    BY <1>1, <1>6 DEF Members
  <2>2. \A k \in DOMAIN ev : ev[k].mbid = NoId /\ ev[k].isrcs = {}
    BY <2>1, EvidenceFields
  <2>3. mbid = NoId
    BY <2>2 DEF FirstIn
  <2>4. isrcs = {}
    BY <2>2
  <2>5. ~h.verified /\ h.mbid = NoId
    BY <1>6, EvidenceFields
  <2> HIDE DEF mbid, isrcs, acoustId
  <2> QED
    BY <1>4, <2>3, <2>4, <2>5 DEF CanonicalId, DedupeKey
<1> QED
  BY <1>2, <1>5, <1>6 DEF Evidences

\* The results of a recording are apart from those of no other.
LEMMA MembersAreApart ==
  ASSUME NEW ev, NEW h, Members(ev, h)
  PROVE  LET joined == {ev[1]} \cup {v \in ToSet(ev) : v.mbid = NoId}
         IN  /\ \A v, w \in ToSet(ev) : NoId \notin {v.mbid, w.mbid} => v.mbid = w.mbid
             /\ \A v, w \in joined :
                  v.title.versions = w.title.versions /\ v.duration - w.duration \in -Apart .. Apart
<1> DEFINE joined == {ev[1]} \cup {v \in ToSet(ev) : v.mbid = NoId}
<1>1. /\ 1 \in DOMAIN ev /\ ev[1] = h /\ h \in Evidences
      /\ \A v \in ToSet(ev) : v \in Evidences /\ (v = h \/ Joins(h, v))
      /\ h \in Supplementing => \A v \in ToSet(ev) : v \in Supplementing
  BY DEF Members, ToSet
<1>2. \A v \in Evidences : v.mbid # NoId => v \in Identifying
  BY EvidenceFields DEF Evidences
<1>3. \A v \in Identifying : v.mbid # NoId
  BY EvidenceFields DEF Ids
<1>4. ASSUME NEW v \in ToSet(ev), NEW w \in ToSet(ev), NoId \notin {v.mbid, w.mbid}
      PROVE  v.mbid = w.mbid
  <2>1. v \in Identifying /\ w \in Identifying
    BY <1>1, <1>2, <1>4
  <2>2. h \in Identifying
    <3>1. \A x \in Supplementing : x.mbid = NoId
      BY EvidenceFields
    <3> QED
      BY <1>1, <1>4, <3>1 DEF Evidences
  <2>3. \A x \in Identifying : Joins(h, x) => x.mbid = h.mbid
    BY <2>2, MatchIs DEF Evidences
  <2> QED
    BY <1>1, <2>1, <2>3
<1>5. ASSUME NEW v \in joined
      PROVE  /\ v.title.versions = h.title.versions /\ v.duration \in Int /\ h.duration \in Int
             /\ h.duration - v.duration \in -3 .. 3
  <2>1. v \in Evidences /\ v.duration \in Int /\ h.duration \in Int
    <3>1. v \in Evidences
      BY <1>1
    <3>2. \A x \in Evidences : x.duration \in Int
      BY EvidenceFields DEF Evidences
    <3> QED
      BY <1>1, <3>1, <3>2
  <2>2. CASE v = h
    BY <2>1, <2>2
  <2>3. CASE v # h
    <3>1. v.mbid = NoId /\ Joins(h, v)
      BY <1>1, <2>3
    <3>2. v \notin Identifying
      BY <1>3, <3>1
    <3>3. MatchRecordings(h, v) = MatchTexts(h, v)
      BY <1>1, <2>1, <3>2, MatchIs
    <3>4. ~MatchTexts(h, v).blocked /\ MatchTexts(h, v).confidence >= Merges
      BY <3>1, <3>3 DEF Joins
    <3>5. h.title.versions = v.title.versions /\ h.duration - v.duration \in -3 .. 3
      BY <1>1, <2>1, <3>4, TextsMatch
    <3> QED
      BY <2>1, <3>5
  <2> QED
    BY <2>2, <2>3
<1>6. ASSUME NEW v \in joined, NEW w \in joined
      PROVE  v.title.versions = w.title.versions /\ v.duration - w.duration \in -Apart .. Apart
  <2>1. /\ v.title.versions = h.title.versions /\ v.duration \in Int /\ h.duration \in Int
        /\ h.duration - v.duration \in -3 .. 3
    BY <1>5
  <2>2. /\ w.title.versions = h.title.versions /\ w.duration \in Int
        /\ h.duration - w.duration \in -3 .. 3
    BY <1>5
  <2>3. PICK x, y, z \in Int : x = v.duration /\ y = w.duration /\ z = h.duration
    BY <2>1, <2>2
  <2>4. z - x \in -3 .. 3 /\ z - y \in -3 .. 3
    BY <2>1, <2>2, <2>3
  <2>5. x - y \in -6 .. 6
    BY <2>3, <2>4
  <2> QED
    BY <2>1, <2>2, <2>3, <2>5 DEF Apart
<1> QED
  BY <1>4, <1>6

-----------------------------------------------------------------------------
(* The recordings partition the results *)

\* No two results are the same track of iTunes.
Singular(E) ==
  \A i, j \in DOMAIN E : i # j /\ E[i] \in Supplementing /\ E[j] \in Supplementing =>
    E[i].id # E[j].id

\* Two results with one key: one recording for MusicBrainz, one track for iTunes.
LEMMA KeysAre ==
  /\ \A v \in Identifying : DedupeKey(v) = <<"mbid", v.mbid>>
  /\ \A v \in Supplementing : DedupeKey(v) = <<"itunes", v.id>>
  /\ \A v, w \in Evidences : DedupeKey(v) = DedupeKey(w) =>
       \/ v \in Identifying /\ w \in Identifying /\ v.mbid = w.mbid
       \/ v \in Supplementing /\ w \in Supplementing /\ v.id = w.id
<1>1. \A v \in Identifying : DedupeKey(v) = <<"mbid", v.mbid>>
  <2>1. \A v \in Identifying : v.mbid # NoId
    BY EvidenceFields DEF Ids
  <2> QED
    BY <2>1 DEF DedupeKey
<1>2. \A v \in Supplementing : DedupeKey(v) = <<"itunes", v.id>>
  <2>1. \A v \in Supplementing : v.mbid = NoId /\ v.provider = "itunes"
    BY EvidenceFields
  <2> QED
    BY <2>1 DEF DedupeKey, SourceKey
<1>3. \A a, b : <<"mbid", a>> # <<"itunes", b>>
  OBVIOUS
<1>4. ASSUME NEW v \in Evidences, NEW w \in Evidences, DedupeKey(v) = DedupeKey(w)
      PROVE  \/ v \in Identifying /\ w \in Identifying /\ v.mbid = w.mbid
             \/ v \in Supplementing /\ w \in Supplementing /\ v.id = w.id
  <2>1. \A a, b, c, d : <<a, b>> = <<c, d>> => b = d
    OBVIOUS
  <2>2. CASE v \in Identifying /\ w \in Identifying
    BY <1>1, <1>4, <2>1, <2>2
  <2>3. CASE v \in Supplementing /\ w \in Supplementing
    BY <1>2, <1>4, <2>1, <2>3
  <2>4. CASE v \in Identifying /\ w \in Supplementing
    BY <1>1, <1>2, <1>3, <1>4, <2>4
  <2>5. CASE v \in Supplementing /\ w \in Identifying
    BY <1>1, <1>2, <1>3, <1>4, <2>5
  <2> QED
    BY <2>2, <2>3, <2>4, <2>5 DEF Evidences
<1> QED
  BY <1>1, <1>2, <1>4

\* Tracks at different places are different.
LEMMA SingularSorted ==
  ASSUME NEW E \in Seq(Evidences), Singular(E), NEW s, NEW at, Ordered(E, s, at),
         NEW p \in 1..Len(s), NEW q \in 1..Len(s), p # q,
         s[p] \in Supplementing, s[q] \in Supplementing
  PROVE  s[p].id # s[q].id
<1>1. PICK less : less = ByEvidence(E)
  OBVIOUS
<1>2. WeakOrder(E, less) /\ Sorts(E, less, s, at)
  BY <1>1, EvidenceOrder DEF Ordered
<1>3. \A k \in DOMAIN s : at[k] \in DOMAIN E /\ s[k] = E[at[k]]
  BY <1>2, SortHas
<1>4. \A k, l \in DOMAIN s : k # l => at[k] # at[l]
  BY <1>2, SortHas
<1>5. p \in DOMAIN s /\ q \in DOMAIN s
  BY InOrder
<1> QED
  BY <1>3, <1>4, <1>5 DEF Singular

\* The heads of two groups have different keys.
LEMMA HeadsDiffer ==
  ASSUME NEW E \in Seq(Evidences), Singular(E), NEW s, NEW at, Ordered(E, s, at),
         NEW groups, NEW m, NEW hd, Grouped(s, Len(s), groups, m, hd),
         NEW g \in 1..m, NEW h \in 1..m, g # h
  PROVE  DedupeKey(s[hd[g]]) # DedupeKey(s[hd[h]])
<1>1. SUFFICES ASSUME NEW x \in 1..m, NEW y \in 1..m, x < y
               PROVE  DedupeKey(s[hd[x]]) # DedupeKey(s[hd[y]])
  <2>1. m \in Nat
    BY DEF Grouped
  <2>2. g < h \/ h < g
    BY <2>1
  <2> QED
    BY <1>1, <2>2
<1>2. PICK p, q : p = hd[x] /\ q = hd[y]
  OBVIOUS
<1>3. p < q /\ ~Joins(s[p], s[q])
  BY <1>1, <1>2 DEF Grouped, Separate
<1>4. p \in 1..Len(s) /\ q \in 1..Len(s)
  BY <1>2 DEF Grouped, Begun
<1>5. s[p] \in Evidences /\ s[q] \in Evidences /\ Len(s) \in Nat
  BY <1>4, InOrder
<1>6. ~(s[p] \in Identifying /\ s[q] \in Identifying /\ s[p].mbid = s[q].mbid)
  BY <1>3, <1>5, MatchIs
<1>7. p # q
  BY <1>3, <1>4, <1>5
<1>8. ~(s[p] \in Supplementing /\ s[q] \in Supplementing /\ s[p].id = s[q].id)
  BY <1>4, <1>7, SingularSorted
<1> QED
  BY <1>2, <1>5, <1>6, <1>8, KeysAre

\* As many cells of recordings as of groups.
LEMMA CellsOfRecords ==
  ASSUME NEW m \in Nat, NEW groups, DOMAIN groups = 1..m, NEW R, NEW pos,
         Resolves(R, groups, m, pos), IsFiniteSet(Cells(groups))
  PROVE  Cardinality(Cells(R)) = Cardinality(Cells(groups))
<1>1. \A c : c \in Cells(R) <=> \E r \in 1..m : \E k \in DOMAIN R[r].evidence : c = <<r, k>>
  BY SMTT(30) DEF Cells, Resolves
<1>2. \A c : c \in Cells(groups) <=> \E g \in 1..m : \E k \in DOMAIN groups[g].evidence : c = <<g, k>>
  BY DEF Cells
<1>3. /\ \A r \in 1..m : pos[r] \in 1..m /\ R[r].evidence = groups[pos[r]].evidence
      /\ \A g \in 1..m : \E r \in 1..m : pos[r] = g
      /\ \A i, j \in 1..m : i # j => pos[i] # pos[j]
  BY DEF Resolves
<1> DEFINE A == Cells(R)
           B == Cells(groups)
           f == [c \in A |-> <<pos[c[1]], c[2]>>]
<1>4. ASSUME NEW r \in 1..m, NEW k \in DOMAIN R[r].evidence
      PROVE  <<r, k>> \in A /\ f[<<r, k>>] = <<pos[r], k>> /\ f[<<r, k>>] \in B
  <2>1. <<r, k>> \in A
    BY <1>1
  <2>2. f[<<r, k>>] = <<pos[r], k>>
    BY <2>1
  <2>3. pos[r] \in 1..m /\ k \in DOMAIN groups[pos[r]].evidence
    BY <1>3
  <2> HIDE DEF f
  <2> QED
    BY <1>2, <2>1, <2>2, <2>3
<1>5. f \in [A -> B]
  <2>1. ASSUME NEW c \in A PROVE f[c] \in B
    <3>1. PICK r \in 1..m : \E k \in DOMAIN R[r].evidence : c = <<r, k>>
      BY <1>1
    <3>2. PICK k \in DOMAIN R[r].evidence : c = <<r, k>>
      BY <3>1
    <3> HIDE DEF f, A, B
    <3> QED
      BY <1>4, <3>2
  <2>2. f = [c \in A |-> f[c]]
    OBVIOUS
  <2> HIDE DEF f, A, B
  <2> QED
    BY <2>1, <2>2
<1> HIDE DEF f
<1>6. \A c, d \in A : c # d => f[c] # f[d]
  <2> SUFFICES ASSUME NEW c \in A, NEW d \in A, c # d PROVE f[c] # f[d]
    OBVIOUS
  <2>1. PICK r \in 1..m : \E k \in DOMAIN R[r].evidence : c = <<r, k>>
    BY <1>1
  <2>2. PICK k \in DOMAIN R[r].evidence : c = <<r, k>>
    BY <2>1
  <2>3. PICK q \in 1..m : \E l \in DOMAIN R[q].evidence : d = <<q, l>>
    BY <1>1
  <2>4. PICK l \in DOMAIN R[q].evidence : d = <<q, l>>
    BY <2>3
  <2>5. f[c] = <<pos[r], k>> /\ f[d] = <<pos[q], l>>
    BY <1>4, <2>2, <2>4
  <2>6. r # q \/ k # l
    BY <2>2, <2>4
  <2>7. pos[r] # pos[q] \/ k # l
    BY <1>3, <2>6
  <2> QED
    BY <2>5, <2>7
<1>7. \A b \in B : \E c \in A : f[c] = b
  <2> SUFFICES ASSUME NEW b \in B PROVE \E c \in A : f[c] = b
    OBVIOUS
  <2>1. PICK g \in 1..m : \E k \in DOMAIN groups[g].evidence : b = <<g, k>>
    BY <1>2
  <2>2. PICK k \in DOMAIN groups[g].evidence : b = <<g, k>>
    BY <2>1
  <2>3. PICK r \in 1..m : pos[r] = g
    BY <1>3
  <2>4. k \in DOMAIN R[r].evidence
    BY <1>3, <2>3
  <2> QED
    BY <1>4, <2>2, <2>3, <2>4
<1>8. f \in Bijection(A, B)
  <2> HIDE DEF A, B
  <2> QED
    BY <1>5, <1>6, <1>7 DEF Bijection, Injection, Surjection, IsInjective
<1>9. IsFiniteSet(B)
  OBVIOUS
<1>10. Cardinality(A) = Cardinality(B)
  <2> HIDE DEF A, B
  <2> QED
    BY <1>8, <1>9, FS_Bijection, Fun_ExistsBijSymmetric DEF ExistsBijection
<1> QED
  BY <1>10

\* R lists the recordings that m groups with these heads become.
Headed(E, s, at, groups, m, hd, R, pos) ==
  /\ Ordered(E, s, at) /\ Grouped(s, Len(s), groups, m, hd) /\ Resolves(R, groups, m, pos)

LEMMA RecordIs ==
  ASSUME NEW E \in Seq(Evidences), NEW s, NEW at, NEW groups, NEW m, NEW hd, NEW R, NEW pos,
         Headed(E, s, at, groups, m, hd, R, pos), NEW i \in DOMAIN R
  PROVE  /\ pos[i] \in 1..m /\ hd[pos[i]] \in 1..Len(s)
         /\ Members(R[i].evidence, s[hd[pos[i]]])
         /\ ToSet(R[i].evidence) \subseteq ToSet(E)
         /\ R[i].evidence = groups[pos[i]].evidence
         /\ R[i].canonicalId = DedupeKey(s[hd[pos[i]]])
<1>1. PICK g : g = pos[i]
  OBVIOUS
<1>2. /\ g \in 1..m /\ R[i].evidence = groups[g].evidence
      /\ R[i].canonicalId = CanonicalizeGroup(groups[g]).canonicalId
  BY <1>1 DEF Headed, Resolves
<1>3. Ordered(E, s, at) /\ Grouped(s, Len(s), groups, m, hd)
  BY DEF Headed
<1>4. /\ Members(groups[g].evidence, s[hd[g]]) /\ hd[g] \in 1..Len(s)
      /\ ToSet(groups[g].evidence) \subseteq ToSet(E)
  BY <1>2, <1>3, MembersAre
<1>5. CanonicalizeGroup(groups[g]).canonicalId = DedupeKey(s[hd[g]])
  BY <1>4, KeyOfGroup
<1> QED
  BY <1>1, <1>2, <1>4, <1>5

LEMMA RecordsApart ==
  ASSUME NEW E \in Seq(Evidences), NEW s, NEW at, NEW groups, NEW m, NEW hd, NEW R, NEW pos,
         Headed(E, s, at, groups, m, hd, R, pos)
  PROVE  RecordingsAreApart(R)
<1> SUFFICES ASSUME NEW r \in ToSet(R)
             PROVE  LET joined == {r.evidence[1]} \cup {v \in ToSet(r.evidence) : v.mbid = NoId}
                    IN  /\ \A v, w \in ToSet(r.evidence) : NoId \notin {v.mbid, w.mbid} => v.mbid = w.mbid
                        /\ \A v, w \in joined :
                             v.title.versions = w.title.versions /\ v.duration - w.duration \in -Apart .. Apart
  BY DEF RecordingsAreApart
<1>1. PICK i \in DOMAIN R : R[i] = r
  BY DEF ToSet
<1>2. PICK ev, h : ev = r.evidence /\ h = s[hd[pos[i]]]
  OBVIOUS
<1>3. Members(ev, h)
  BY <1>1, <1>2, RecordIs
<1>4. LET joined == {ev[1]} \cup {v \in ToSet(ev) : v.mbid = NoId}
      IN  /\ \A v, w \in ToSet(ev) : NoId \notin {v.mbid, w.mbid} => v.mbid = w.mbid
          /\ \A v, w \in joined :
               v.title.versions = w.title.versions /\ v.duration - w.duration \in -Apart .. Apart
  BY <1>3, MembersAreApart
<1> QED
  BY <1>2, <1>4, Zenon

LEMMA RecordsPartitioned ==
  ASSUME NEW E \in Seq(Evidences), NEW s, NEW at, NEW groups, NEW m, NEW hd, NEW R, NEW pos,
         Headed(E, s, at, groups, m, hd, R, pos)
  PROVE  RecordsPartition(R, E)
<1>1. /\ Ordered(E, s, at) /\ Grouped(s, Len(s), groups, m, hd) /\ Resolves(R, groups, m, pos)
      /\ m \in Nat /\ DOMAIN groups = 1..m /\ DOMAIN R = 1..m
  BY DEF Headed, Grouped, Begun, Listed, Resolves
<1>2. UNION {ToSet(r.evidence) : r \in ToSet(R)} = ToSet(E)
  <2>1. ASSUME NEW r \in ToSet(R), NEW v \in ToSet(r.evidence) PROVE v \in ToSet(E)
    <3>1. PICK i \in DOMAIN R : R[i] = r
      BY DEF ToSet
    <3>2. ToSet(r.evidence) \subseteq ToSet(E)
      BY <3>1, RecordIs
    <3> QED
      BY <2>1, <3>2
  <2>2. ASSUME NEW v \in ToSet(E) PROVE \E r \in ToSet(R) : v \in ToSet(r.evidence)
    <3>0. ToSet(s) = ToSet(E) /\ DOMAIN s = 1..Len(s)
      BY <1>1, InOrder
    <3>1. PICK q \in 1..Len(s) : s[q] = v
      BY <2>2, <3>0 DEF ToSet
    <3>2. PICK g \in 1..m : \E k \in DOMAIN groups[g].evidence : groups[g].evidence[k] = v
      BY <1>1, <3>1 DEF Grouped, Held
    <3>3. PICK i \in DOMAIN R : pos[i] = g
      BY <1>1 DEF Resolves
    <3>4. R[i].evidence = groups[g].evidence
      BY <3>3, RecordIs
    <3>5. v \in ToSet(R[i].evidence) /\ R[i] \in ToSet(R)
      BY <3>2, <3>4 DEF ToSet
    <3> QED
      BY <3>5
  <2> QED
    BY <2>1, <2>2
<1>3. Cardinality(UNION {{r} \X DOMAIN R[r].evidence : r \in DOMAIN R}) = Len(E)
  <2>1. IsFiniteSet(Cells(groups)) /\ Cardinality(Cells(groups)) = Len(s)
    BY <1>1 DEF Grouped, Counted
  <2>2. Cardinality(Cells(R)) = Len(s)
    BY <1>1, <2>1, CellsOfRecords
  <2>3. Len(s) = Len(E)
    BY <1>1, InOrder
  <2> QED
    BY <2>2, <2>3 DEF Cells
<1> QED
  BY <1>2, <1>3 DEF RecordsPartition

\* They have different ids if no track is listed twice.
LEMMA RecordsDiffer ==
  ASSUME NEW E \in Seq(Evidences), Singular(E),
         NEW s, NEW at, NEW groups, NEW m, NEW hd, NEW R, NEW pos,
         Headed(E, s, at, groups, m, hd, R, pos), NEW i \in DOMAIN R, NEW j \in DOMAIN R, i # j
  PROVE  R[i].canonicalId # R[j].canonicalId
<1>1. Ordered(E, s, at) /\ Grouped(s, Len(s), groups, m, hd) /\ Resolves(R, groups, m, pos)
  BY DEF Headed
<1>2. PICK g, h : g = pos[i] /\ h = pos[j]
  OBVIOUS
<1>3. g \in 1..m /\ h \in 1..m /\ g # h
  BY <1>1, <1>2 DEF Resolves
<1>4. DedupeKey(s[hd[g]]) # DedupeKey(s[hd[h]])
  BY <1>1, <1>3, HeadsDiffer
<1> QED
  BY <1>2, <1>4, RecordIs

-----------------------------------------------------------------------------
(* The order of the results makes no difference *)

\* H are the heads that some order of the results T has: of one recording one, the
\* first by the comparison; of the tracks those that join no head before them.
Settles(T, H) ==
  /\ H \subseteq T
  /\ \A h, k \in H : h \in Identifying /\ k \in Identifying /\ h.mbid = k.mbid => h = k
  /\ \A v \in T : v \in Identifying =>
       \E h \in H : h \in Identifying /\ h.mbid = v.mbid /\ ~CompareEvidence(v, h)
  /\ \A h, v \in H : v \in Supplementing /\ CompareEvidence(h, v) => ~Joins(h, v)
  /\ \A v \in T : v \in Supplementing /\ v \notin H =>
       \E h \in H : CompareEvidence(h, v) /\ Joins(h, v)

HeadsOf(s, m, hd) == {s[hd[g]] : g \in 1..m}

\* What comes before a track comes before it by the comparison.
LEMMA BeforeTrack ==
  ASSUME NEW E \in Seq(Evidences), Singular(E), NEW s, NEW at, Ordered(E, s, at),
         NEW p \in 1..Len(s), NEW q \in 1..Len(s), s[q] \in Supplementing
  PROVE  /\ p < q => CompareEvidence(s[p], s[q])
         /\ CompareEvidence(s[p], s[q]) => p < q
<1>1. /\ s[p] \in Evidences /\ s[q] \in Evidences /\ Len(s) \in Nat
      /\ p < q => ~CompareEvidence(s[q], s[p])
      /\ q < p => ~CompareEvidence(s[p], s[q])
  BY InOrder
<1>2. PICK a, b \in Int : a = Priority(s[p].provider) /\ b = Priority(s[q].provider)
  BY <1>1, PriorityIs
<1>3. b = 2 /\ a <= 2 /\ (a = 2 => s[p] \in Supplementing)
  BY <1>1, <1>2, PriorityIs DEF Evidences
<1>4. PICK x, y \in Int : x = s[p].score /\ y = s[q].score
  BY <1>1, PriorityIs
<1>5. PICK i, j \in Int : i = s[p].id /\ j = s[q].id
  BY <1>1, PriorityIs
<1>6. p # q /\ a = 2 => i # j
  BY <1>3, <1>5, SingularSorted
<1>7. /\ CompareEvidence(s[p], s[q]) <=> (a < b \/ (a = b /\ (x > y \/ (x = y /\ i < j))))
      /\ CompareEvidence(s[q], s[p]) <=> (b < a \/ (b = a /\ (y > x \/ (y = x /\ j < i))))
  BY <1>2, <1>4, <1>5 DEF CompareEvidence
<1>8. p < q => CompareEvidence(s[p], s[q])
  <2>1. p < q => p # q
    BY <1>1
  <2> QED
    BY <1>1, <1>3, <1>6, <1>7, <2>1
<1>9. CompareEvidence(s[p], s[q]) => p < q
  <2>1. p = q => x = y /\ i = j /\ a = b
    BY <1>2, <1>4, <1>5
  <2>2. CompareEvidence(s[p], s[q]) => p # q
    BY <1>7, <2>1
  <2>3. p < q \/ q < p \/ p = q
    BY <1>1
  <2> QED
    BY <1>1, <2>2, <2>3
<1> QED
  BY <1>8, <1>9

LEMMA SettledHeads ==
  ASSUME NEW E \in Seq(Evidences), Singular(E), NEW s, NEW at, Ordered(E, s, at),
         NEW groups, NEW m, NEW hd, Grouped(s, Len(s), groups, m, hd)
  PROVE  Settles(ToSet(E), HeadsOf(s, m, hd))
<1> DEFINE T == ToSet(E)
           H == HeadsOf(s, m, hd)
<1>1. /\ m \in Nat /\ \A g \in 1..m : hd[g] \in 1..Len(s)
      /\ \A g, h \in 1..m : g < h => hd[g] < hd[h] /\ ~Joins(s[hd[g]], s[hd[h]])
      /\ \A i \in 1..Len(s) : \E g \in 1..m : hd[g] = i \/ (hd[g] < i /\ Joins(s[hd[g]], s[i]))
  BY DEF Grouped, Begun, Separate, Held
<1>2. /\ Len(s) \in Nat /\ DOMAIN s = 1..Len(s) /\ ToSet(s) = T
      /\ \A p \in 1..Len(s) : s[p] \in Evidences
      /\ \A p, q \in 1..Len(s) : p < q => ~CompareEvidence(s[q], s[p])
  BY InOrder
<1>3. /\ \A h \in H : \E g \in 1..m : h = s[hd[g]]
      /\ \A g \in 1..m : s[hd[g]] \in H
  BY DEF HeadsOf
<1>4. /\ \A v \in T : \E i \in 1..Len(s) : v = s[i]
      /\ \A i \in 1..Len(s) : s[i] \in T
  BY <1>2 DEF ToSet
<1>5. \A v, w \in Evidences : v \in Identifying /\ w \in Identifying => (Joins(v, w) <=> v.mbid = w.mbid)
  BY MatchIs
<1>6. \A v \in Evidences : ~CompareEvidence(v, v)
  BY PriorityIs DEF CompareEvidence
<1> HIDE DEF T, H
<1>7. H \subseteq T
  BY <1>1, <1>3, <1>4
<1>8. ASSUME NEW h \in H, NEW k \in H, h \in Identifying, k \in Identifying, h.mbid = k.mbid
      PROVE  h = k
  <2>1. PICK x \in 1..m : h = s[hd[x]]
    BY <1>3
  <2>2. PICK y \in 1..m : k = s[hd[y]]
    BY <1>3
  <2>3. x < y => h.mbid # k.mbid
    BY <1>1, <1>2, <1>5, <1>8, <2>1, <2>2
  <2>4. y < x => h.mbid # k.mbid
    BY <1>1, <1>2, <1>5, <1>8, <2>1, <2>2
  <2>5. x = y
    BY <1>1, <1>8, <2>3, <2>4
  <2> QED
    BY <2>1, <2>2, <2>5
<1>9. ASSUME NEW v \in T, v \in Identifying
      PROVE  \E h \in H : h \in Identifying /\ h.mbid = v.mbid /\ ~CompareEvidence(v, h)
  <2>1. PICK i \in 1..Len(s) : v = s[i]
    BY <1>4
  <2>2. PICK g \in 1..m : hd[g] = i \/ (hd[g] < i /\ Joins(s[hd[g]], s[i]))
    BY <1>1
  <2>3. CASE hd[g] = i
    BY <1>2, <1>3, <1>6, <1>9, <2>1, <2>3
  <2>4. CASE hd[g] < i /\ Joins(s[hd[g]], s[i])
    <3>1. PICK p \in 1..Len(s) : p = hd[g]
      BY <1>1
    <3>2. p < i /\ Joins(s[p], s[i])
      BY <2>4, <3>1
    <3>3. s[p] \notin Supplementing
      <4>1. \A e \in Supplementing : e \notin Identifying
        BY EvidenceFields
      <4> QED
        BY <1>9, <2>1, <3>2, <4>1, HeadComesFirst
    <3>4. s[p] \in Identifying /\ s[p] \in Evidences /\ s[i] \in Evidences
      BY <1>2, <3>3 DEF Evidences
    <3>5. s[p].mbid = v.mbid
      BY <1>5, <1>9, <2>1, <3>2, <3>4
    <3>6. ~CompareEvidence(v, s[p])
      BY <1>2, <2>1, <3>2
    <3> QED
      BY <1>3, <3>1, <3>4, <3>5, <3>6
  <2> QED
    BY <2>2, <2>3, <2>4
<1>10. ASSUME NEW h \in H, NEW v \in H, v \in Supplementing, CompareEvidence(h, v)
       PROVE  ~Joins(h, v)
  <2>1. PICK x \in 1..m : h = s[hd[x]]
    BY <1>3
  <2>2. PICK y \in 1..m : v = s[hd[y]]
    BY <1>3
  <2>3. hd[x] < hd[y]
    BY <1>1, <1>10, <2>1, <2>2, BeforeTrack
  <2>4. x < y
    <3>1. hd[x] \in Nat /\ hd[y] \in Nat /\ x \in Nat /\ y \in Nat
      BY <1>1, <1>2
    <3>2. y < x => hd[y] < hd[x]
      BY <1>1
    <3>3. x # y
      BY <2>3, <3>1
    <3> QED
      BY <2>3, <3>1, <3>2, <3>3
  <2> QED
    BY <1>1, <2>1, <2>2, <2>4
<1>11. ASSUME NEW v \in T, v \in Supplementing, v \notin H
       PROVE  \E h \in H : CompareEvidence(h, v) /\ Joins(h, v)
  <2>1. PICK i \in 1..Len(s) : v = s[i]
    BY <1>4
  <2>2. PICK g \in 1..m : hd[g] = i \/ (hd[g] < i /\ Joins(s[hd[g]], s[i]))
    BY <1>1
  <2>3. hd[g] # i
    BY <1>3, <1>11, <2>1
  <2>4. PICK p \in 1..Len(s) : p = hd[g]
    BY <1>1
  <2>5. p < i /\ Joins(s[p], s[i])
    BY <2>2, <2>3, <2>4
  <2>6. CompareEvidence(s[p], s[i])
    BY <1>11, <2>1, <2>5, BeforeTrack
  <2> QED
    BY <1>3, <2>1, <2>4, <2>5, <2>6
<1> QED
  BY <1>7, <1>8, <1>9, <1>10, <1>11 DEF Settles, T, H

\* Results that a provider names alike have the same texts.
Catalogued(T) ==
  \A v, w \in T :
    /\ v \in Identifying /\ w \in Identifying
    /\ v.provider = w.provider /\ v.id = w.id /\ v.mbid = w.mbid
    => v.title = w.title /\ v.artist = w.artist /\ v.duration = w.duration

\* Of two results of a recording that both come first, each joins what the other joins.
LEMMA SameTexts ==
  ASSUME NEW T \in SUBSET Evidences, Catalogued(T), NEW v \in T, NEW w \in T,
         v \in Identifying, w \in Identifying, v.mbid = w.mbid,
         ~CompareEvidence(v, w), ~CompareEvidence(w, v), NEW e \in Supplementing
  PROVE  Joins(v, e) <=> Joins(w, e)
<1>1. v.provider \in {"musicbrainz", "acoustid"} /\ w.provider \in {"musicbrainz", "acoustid"}
  BY EvidenceFields
<1>2. PICK a, b \in Int : a = Priority(v.provider) /\ b = Priority(w.provider)
  BY PriorityIs
<1>3. PICK x, y \in Int : x = v.score /\ y = w.score
  BY PriorityIs
<1>4. PICK i, j \in Int : i = v.id /\ j = w.id
  BY PriorityIs
<1>5. /\ ~(a < b \/ (a = b /\ (x > y \/ (x = y /\ i < j))))
      /\ ~(b < a \/ (b = a /\ (y > x \/ (y = x /\ j < i))))
  BY <1>2, <1>3, <1>4 DEF CompareEvidence
<1>6. a = b
  BY <1>5
<1>7. x = y
  BY <1>5, <1>6
<1>8. i = j
  BY <1>5, <1>6, <1>7
<1>9. v.provider = w.provider
  BY <1>1, <1>2, <1>6 DEF Priority
<1>10. v.title = w.title /\ v.artist = w.artist /\ v.duration = w.duration
  BY <1>4, <1>8, <1>9 DEF Catalogued
<1>11. MatchTexts(v, e) = MatchTexts(w, e)
  BY <1>10 DEF MatchTexts
<1>12. e \notin Identifying /\ e \in Evidences
  BY EvidenceFields DEF Evidences
<1>13. MatchRecordings(v, e) = MatchTexts(v, e) /\ MatchRecordings(w, e) = MatchTexts(w, e)
  BY <1>12, MatchIs
<1> QED
  BY <1>11, <1>13 DEF Joins

\* A track that begins a group in one order does so in another, if those before it do.
LEMMA SameTrack ==
  ASSUME NEW T \in SUBSET Evidences, Catalogued(T), NEW H, NEW K, Settles(T, H), Settles(T, K),
         NEW v \in T, v \in Supplementing, v \in H,
         \A w \in T : w \in Supplementing /\ CompareEvidence(w, v) => (w \in H <=> w \in K)
  PROVE  v \in K
<1> SUFFICES ASSUME v \notin K PROVE FALSE
  OBVIOUS
<1>1. PICK k \in K : CompareEvidence(k, v) /\ Joins(k, v)
  BY DEF Settles
<1>2. k \in T /\ k \in Evidences
  BY DEF Settles
<1>3. CASE k \in Supplementing
  <2>1. k \in H
    BY <1>1, <1>2, <1>3
  <2> QED
    BY <1>1, <2>1 DEF Settles
<1>4. CASE k \in Identifying
  <2>1. PICK h \in H : h \in Identifying /\ h.mbid = k.mbid /\ ~CompareEvidence(k, h)
    BY <1>2, <1>4 DEF Settles
  <2>2. h \in T
    BY DEF Settles
  <2>3. PICK l \in K : l \in Identifying /\ l.mbid = h.mbid /\ ~CompareEvidence(h, l)
    BY <2>1, <2>2 DEF Settles
  <2>4. l = k
    BY <1>4, <2>1, <2>3 DEF Settles
  <2>5. Joins(h, v)
    BY <1>1, <1>2, <1>4, <2>1, <2>2, <2>3, <2>4, SameTexts
  <2>6. CompareEvidence(h, v)
    <3>1. Priority(h.provider) < 2 /\ Priority(v.provider) = 2
      BY <2>1, PriorityIs
    <3> QED
      BY <3>1 DEF CompareEvidence
  <2> QED
    BY <2>5, <2>6 DEF Settles
<1> QED
  BY <1>2, <1>3, <1>4 DEF Evidences

\* The keys of the heads do not depend on the order of the results.
LEMMA SameKeys ==
  ASSUME NEW E \in Seq(Evidences), Singular(E), Catalogued(ToSet(E)),
         NEW H, NEW K, Settles(ToSet(E), H), Settles(ToSet(E), K)
  PROVE  {DedupeKey(h) : h \in H} \subseteq {DedupeKey(k) : k \in K}
<1>1. PICK s, at : Ordered(E, s, at)
  BY EvidenceOrder, SortOf DEF Ordered
<1>2. PICK T : T = ToSet(E)
  OBVIOUS
<1>3. /\ Len(s) \in Nat /\ DOMAIN s = 1..Len(s) /\ ToSet(s) = T
      /\ \A p \in 1..Len(s) : s[p] \in Evidences
  BY <1>1, <1>2, InOrder
<1>4. /\ \A v \in T : \E i \in 1..Len(s) : v = s[i]
      /\ \A i \in 1..Len(s) : s[i] \in T
  BY <1>3 DEF ToSet
<1>5. T \in SUBSET Evidences
  BY <1>3, <1>4
<1>6. Settles(T, H) /\ Settles(T, K) /\ Catalogued(T)
  BY <1>2
<1> DEFINE bad == {q \in 1..Len(s) : s[q] \in Supplementing /\ ~(s[q] \in H <=> s[q] \in K)}
<1>7. bad = {}
  <2> SUFFICES ASSUME bad # {} PROVE FALSE
    OBVIOUS
  <2>1. bad \in SUBSET Nat
    OBVIOUS
  <2>2. PICK q \in bad : \A p \in bad : q <= p
    <3> HIDE DEF bad
    <3> QED
      BY <2>1, LeastOf
  <2>3. q \in 1..Len(s) /\ s[q] \in Supplementing /\ ~(s[q] \in H <=> s[q] \in K)
    OBVIOUS
  <2>4. ASSUME NEW w \in T, w \in Supplementing, CompareEvidence(w, s[q])
        PROVE  w \in H <=> w \in K
    <3>1. PICK p \in 1..Len(s) : w = s[p]
      BY <1>4
    <3>2. p < q
      BY <1>1, <2>3, <2>4, <3>1, BeforeTrack
    <3>3. p \notin bad
      BY <1>3, <2>2, <2>3, <3>2
    <3> QED
      BY <2>4, <3>1, <3>3
  <2> HIDE DEF bad
  <2>5. PICK v : v = s[q]
    OBVIOUS
  <2>6. v \in T /\ v \in Supplementing /\ ~(v \in H <=> v \in K)
    BY <1>4, <2>3, <2>5
  <2>7. \A w \in T : w \in Supplementing /\ CompareEvidence(w, v) => (w \in H <=> w \in K)
    BY <2>4, <2>5
  <2>8. \A w \in T : w \in Supplementing /\ CompareEvidence(w, v) => (w \in K <=> w \in H)
    BY <2>7
  <2>9. v \in H => v \in K
    BY <1>5, <1>6, <2>6, <2>7, SameTrack
  <2>10. v \in K => v \in H
    BY <1>5, <1>6, <2>6, <2>8, SameTrack
  <2> QED
    BY <2>6, <2>9, <2>10
<1>8. ASSUME NEW h \in H PROVE \E k \in K : DedupeKey(h) = DedupeKey(k)
  <2>1. h \in T /\ h \in Evidences
    BY <1>5, <1>6 DEF Settles
  <2>2. CASE h \in Supplementing
    <3>1. PICK q \in 1..Len(s) : h = s[q]
      BY <1>4, <2>1
    <3>2. h \in K
      BY <1>7, <2>2, <3>1
    <3> QED
      BY <3>2
  <2>3. CASE h \in Identifying
    <3>1. PICK k \in K : k \in Identifying /\ k.mbid = h.mbid
      BY <1>6, <2>1, <2>3 DEF Settles
    <3> QED
      BY <2>3, <3>1, KeysAre
  <2> QED
    BY <2>1, <2>2, <2>3 DEF Evidences
<1> QED
  BY <1>8

LEMMA KeysOfRecords ==
  ASSUME NEW E \in Seq(Evidences), NEW s, NEW at, NEW groups, NEW m, NEW hd, NEW R, NEW pos,
         Headed(E, s, at, groups, m, hd, R, pos)
  PROVE  CanonicalIds(R) = {DedupeKey(h) : h \in HeadsOf(s, m, hd)}
<1>1. /\ DOMAIN R = 1..m /\ \A i \in 1..m : pos[i] \in 1..m
      /\ \A g \in 1..m : \E i \in 1..m : pos[i] = g
  BY DEF Headed, Resolves
<1>2. ASSUME NEW i \in 1..m PROVE R[i].canonicalId = DedupeKey(s[hd[pos[i]]])
  <2>1. i \in DOMAIN R
    BY <1>1
  <2> QED
    BY <2>1, RecordIs
<1>3. ASSUME NEW x \in CanonicalIds(R) PROVE \E h \in HeadsOf(s, m, hd) : x = DedupeKey(h)
  <2>1. PICK i \in 1..m : x = R[i].canonicalId
    BY <1>1 DEF CanonicalIds, ToSet
  <2>2. s[hd[pos[i]]] \in HeadsOf(s, m, hd)
    BY <1>1 DEF HeadsOf
  <2> QED
    BY <1>2, <2>1, <2>2
<1>4. ASSUME NEW h \in HeadsOf(s, m, hd) PROVE DedupeKey(h) \in CanonicalIds(R)
  <2>1. PICK g \in 1..m : h = s[hd[g]]
    BY DEF HeadsOf
  <2>2. PICK i \in 1..m : pos[i] = g
    BY <1>1
  <2>3. R[i].canonicalId \in CanonicalIds(R)
    BY <1>1 DEF CanonicalIds, ToSet
  <2> QED
    BY <1>2, <2>1, <2>2, <2>3
<1> QED
  BY <1>3, <1>4

-----------------------------------------------------------------------------
(* The recordings of an answer *)

\* What the property supposes of the results is what the lemmas do.
LEMMA SupposedIs ==
  ASSUME NEW E \in Seq(Evidences)
  PROVE  /\ TracksAreListedOnce(E) => Singular(E)
         /\ ProvidersAgree(E) => Catalogued(ToSet(E))
<1>1. ASSUME TracksAreListedOnce(E) PROVE Singular(E)
  <2>1. \A v \in Supplementing : v.provider = "itunes"
    BY EvidenceFields
  <2> QED
    BY <1>1, <2>1 DEF TracksAreListedOnce, Singular
<1>2. ASSUME ProvidersAgree(E) PROVE Catalogued(ToSet(E))
  <2>1. \A v \in Identifying : v.mbid # NoId
    BY EvidenceFields DEF Ids
  <2> QED
    BY <1>2, <2>1 DEF ProvidersAgree, Catalogued
<1> QED
  BY <1>1, <1>2

\* The same results in reverse.
LEMMA ReverseIs ==
  ASSUME NEW E \in Seq(Evidences)
  PROVE  /\ Reverse(E) \in Seq(Evidences) /\ ToSet(Reverse(E)) = ToSet(E)
         /\ Singular(E) => Singular(Reverse(E))
<1> DEFINE n == Len(E)
           F == Reverse(E)
<1>1. n \in Nat /\ DOMAIN E = 1..n /\ \A i \in 1..n : E[i] \in Evidences
  BY LenProperties, ElementOfSeq
<1>2. DOMAIN F = 1..n /\ \A i \in 1..n : F[i] = E[(n - i) + 1]
  BY DEF Reverse
<1>3. F = [i \in 1..n |-> F[i]]
  BY DEF Reverse
<1> HIDE DEF n, F
<1>4. \A i \in 1..n : (n - i) + 1 \in 1..n
  BY <1>1
<1>5. \A i, j \in 1..n : i # j => (n - i) + 1 # (n - j) + 1
  BY <1>1
<1>6. F \in Seq(Evidences)
  BY <1>1, <1>2, <1>3, <1>4
<1>7. ToSet(F) = ToSet(E)
  <2>1. ASSUME NEW v \in ToSet(F) PROVE v \in ToSet(E)
    BY <1>1, <1>2, <1>4 DEF ToSet
  <2>2. ASSUME NEW v \in ToSet(E) PROVE v \in ToSet(F)
    <3>1. PICK i \in 1..n : v = E[i]
      BY <1>1 DEF ToSet
    <3>2. PICK j : j = (n - i) + 1
      OBVIOUS
    <3>3. j \in 1..n /\ (n - j) + 1 = i
      BY <1>1, <3>2
    <3> QED
      BY <1>2, <3>1, <3>3 DEF ToSet
  <2> QED
    BY <2>1, <2>2
<1>8. Singular(E) => Singular(F)
  BY <1>1, <1>2, <1>4, <1>5 DEF Singular
<1> QED
  BY <1>6, <1>7, <1>8 DEF F

\* Whichever way round results are listed that no provider contradicts itself in,
\* the recordings have the same ids.
LEMMA ReversedAlike ==
  ASSUME NEW E \in Seq(Evidences), Singular(E), Catalogued(ToSet(E))
  PROVE  CanonicalIds(ResolveCanonicalRecordings(Reverse(E)))
           = CanonicalIds(ResolveCanonicalRecordings(E))
<1>1. PICK F, R, Q : /\ F = Reverse(E)
                     /\ R = ResolveCanonicalRecordings(E) /\ Q = ResolveCanonicalRecordings(F)
  OBVIOUS
<1>2. F \in Seq(Evidences) /\ ToSet(F) = ToSet(E) /\ Singular(F)
  BY <1>1, ReverseIs
<1>3. PICK s, at, groups, m, hd, pos : Headed(E, s, at, groups, m, hd, R, pos)
  BY <1>1, ResolvedIs DEF Headed
<1>4. PICK s2, at2, groups2, m2, hd2, pos2 : Headed(F, s2, at2, groups2, m2, hd2, Q, pos2)
  BY <1>1, <1>2, ResolvedIs DEF Headed
<1>5. PICK H, K : H = HeadsOf(s, m, hd) /\ K = HeadsOf(s2, m2, hd2)
  OBVIOUS
<1>6. Settles(ToSet(E), H)
  BY <1>3, <1>5, SettledHeads DEF Headed
<1>7. Settles(ToSet(F), K)
  BY <1>2, <1>4, <1>5, SettledHeads DEF Headed
<1>8. {DedupeKey(h) : h \in H} = {DedupeKey(k) : k \in K}
  <2>1. Settles(ToSet(E), K)
    BY <1>2, <1>7
  <2> QED
    BY <1>6, <2>1, SameKeys
<1>9. CanonicalIds(R) = {DedupeKey(h) : h \in H}
  BY <1>3, <1>5, KeysOfRecords
<1>10. CanonicalIds(Q) = {DedupeKey(k) : k \in K}
  BY <1>2, <1>4, <1>5, KeysOfRecords
<1> QED
  BY <1>1, <1>8, <1>9, <1>10

LEMMA RecordsInv == Inv => RecordingsAreResolved
<1> SUFFICES ASSUME Inv, NEW E \in {Evidence}, NEW R \in {ResolveCanonicalRecordings(E)}
             PROVE  /\ RecordingsAreApart(R)
                    /\ RecordsPartition(R, E)
                    /\ TracksAreListedOnce(E) =>
                         /\ \A i, j \in DOMAIN R : i # j => R[i].canonicalId # R[j].canonicalId
                         /\ ProvidersAgree(E) =>
                              CanonicalIds(ResolveCanonicalRecordings(Reverse(E))) = CanonicalIds(R)
  BY Zenon DEF RecordingsAreResolved
<1>1. E \in Seq(Evidences)
  BY EvidenceIs DEF Inv
<1>2. R = ResolveCanonicalRecordings(E)
  OBVIOUS
<1>3. PICK s, at, groups, m, hd, pos : Headed(E, s, at, groups, m, hd, R, pos)
  BY <1>1, <1>2, ResolvedIs DEF Headed
<1>4. RecordingsAreApart(R) /\ RecordsPartition(R, E)
  BY <1>1, <1>3, RecordsApart, RecordsPartitioned
<1>5. ASSUME TracksAreListedOnce(E)
      PROVE  \A i, j \in DOMAIN R : i # j => R[i].canonicalId # R[j].canonicalId
  BY <1>1, <1>3, <1>5, SupposedIs, RecordsDiffer
<1>6. ASSUME TracksAreListedOnce(E), ProvidersAgree(E)
      PROVE  CanonicalIds(ResolveCanonicalRecordings(Reverse(E))) = CanonicalIds(R)
  BY <1>1, <1>2, <1>6, SupposedIs, ReversedAlike
<1> QED
  BY <1>4, <1>5, <1>6

\* What several providers say becomes recordings that are apart and hold every result
\* once, whatever the providers say; they have different ids if iTunes lists no track
\* twice, and the same whichever way round the results are listed if besides no
\* provider contradicts itself.
THEOREM EvidenceIsResolved == Spec => []RecordingsAreResolved
BY SearchIsSettled, RecordsInv, PTL
=============================================================================
