----------------------------- MODULE DataLemmas -----------------------------
(***************************************************************************)
(* Lemmas about data that the proofs of several components need.           *)
(*                                                                         *)
(* The library's induction theorems take a predicate as a parameter; here  *)
(* an induction is a set of numbers without a least element.               *)
(***************************************************************************)
EXTENDS Places, Sums, FiniteSetTheorems, WellFoundedInduction, TLAPS

(* Every set of natural numbers that has an element has a least one.        *)
LEMMA LeastNumber ==
  ASSUME NEW T \in SUBSET Nat, T # {}
  PROVE  \E x \in T : \A y \in T : x <= y
<1> DEFINE R == {ss \in Nat \X Nat : ss[1] < ss[2]}
<1>1. IsWellFoundedOn(R, Nat)
  BY NatLessThanWellFounded DEF OpToRel
<1> HIDE DEF R
<1>2. PICK x \in T : \A y \in T : ~(<<y, x>> \in R)
  BY <1>1, WFMin
<1>3. \A y \in T : ~(y < x)
  BY <1>2 DEF R
<1> QED
  BY <1>3

(* A set that has 0, and with a number below m the next one, has all of     *)
(* them up to m.                                                            *)
LEMMA UpToInduction ==
  ASSUME NEW m \in Nat, NEW S, 0 \in S, \A k \in 0..(m - 1) : k \in S => k + 1 \in S
  PROVE  \A k \in 0..m : k \in S
<1> SUFFICES ASSUME NEW j \in 0..m, j \notin S PROVE FALSE
  OBVIOUS
<1> DEFINE T == {k \in 0..m : k \notin S}
<1>1. PICK x \in T : \A y \in T : x <= y
  <2>1. T \in SUBSET Nat /\ T # {}
    OBVIOUS
  <2> HIDE DEF T
  <2> QED
    BY <2>1, LeastNumber
<1>2. x # 0 /\ x - 1 \in 0..(m - 1)
  BY <1>1
<1>3. x - 1 \in S
  BY <1>1, <1>2
<1> QED
  BY <1>1, <1>2, <1>3
-----------------------------------------------------------------------------
(* AtPlaces *)

LEMMA PlacesAreCounted ==
  ASSUME NEW n \in Nat, NEW P \in SUBSET (1..n)
  PROVE  /\ IsFiniteSet(P) /\ Cardinality(P) \in 0..n
         /\ \A k \in Int : /\ IsFiniteSet({i \in P : i <= k})
                           /\ Rank(k, P) \in 0..Cardinality(P)
<1>1. IsFiniteSet(1..n) /\ Cardinality(1..n) = n
  BY FS_Interval
<1>2. IsFiniteSet(P) /\ Cardinality(P) <= n
  BY <1>1, FS_Subset
<1>3. Cardinality(P) \in Nat
  BY <1>2, FS_CardinalityType
<1>4. ASSUME NEW k \in Int
      PROVE  IsFiniteSet({i \in P : i <= k}) /\ Rank(k, P) \in 0..Cardinality(P)
  <2>1. {i \in P : i <= k} \in SUBSET P
    OBVIOUS
  <2>2. IsFiniteSet({i \in P : i <= k}) /\ Cardinality({i \in P : i <= k}) <= Cardinality(P)
    BY <1>2, <2>1, FS_Subset
  <2>3. Cardinality({i \in P : i <= k}) \in Nat
    BY <2>2, FS_CardinalityType
  <2> QED
    BY <1>3, <2>2, <2>3 DEF Rank
<1> QED
  BY <1>2, <1>3, <1>4

(* Every number up to the size of a set of places is some place's rank.     *)
LEMMA EveryRankIsTaken ==
  ASSUME NEW n \in Nat, NEW P \in SUBSET (1..n)
  PROVE  \A r \in 1..Cardinality(P) : \E k \in P : Rank(k, P) = r
<1> DEFINE S == {m \in 0..n : \A Q \in SUBSET (1..m) :
                   \A r \in 1..Cardinality(Q) : \E k \in Q : Rank(k, Q) = r}
<1>1. 0 \in S
  <2> SUFFICES ASSUME NEW Q \in SUBSET (1..0) PROVE Cardinality(Q) = 0
    OBVIOUS
  <2>1. Q = {}
    OBVIOUS
  <2> QED
    BY <2>1, FS_EmptySet
<1>2. ASSUME NEW m \in 0..(n - 1), m \in S PROVE m + 1 \in S
  <2> SUFFICES ASSUME NEW Q \in SUBSET (1..(m + 1)), NEW r \in 1..Cardinality(Q)
               PROVE  \E k \in Q : Rank(k, Q) = r
    OBVIOUS
  <2> DEFINE B == Q \ {m + 1}
  <2>1. B \in SUBSET (1..m) /\ m \in Nat /\ m + 1 \in Nat
    OBVIOUS
  <2>2. CASE m + 1 \notin Q
    BY <1>2, <2>1, <2>2
  <2>3. CASE m + 1 \in Q
    <3>1. /\ IsFiniteSet(B) /\ Cardinality(B) \in Nat
          /\ Cardinality(Q) = Cardinality(B) + 1
      <4>1. IsFiniteSet(B) /\ Cardinality(B) \in 0..m
        BY <2>1, PlacesAreCounted
      <4>2. Q = B \cup {m + 1} /\ m + 1 \notin B
        BY <2>3
      <4>3. Cardinality(B \cup {m + 1}) = Cardinality(B) + 1
        BY <4>1, <4>2, FS_AddElement
      <4> QED
        BY <4>1, <4>2, <4>3
    <3>2. CASE r = Cardinality(Q)
      <4>1. \A i \in Q : i <= m + 1
        BY <2>1
      <4>2. {i \in Q : i <= m + 1} = Q
        BY <4>1
      <4>3. Rank(m + 1, Q) = r
        BY <3>2, <4>2 DEF Rank
      <4> QED
        BY <2>3, <4>3
    <3>3. CASE r # Cardinality(Q)
      <4>1. r \in 1..Cardinality(B)
        BY <3>1, <3>3
      <4>2. PICK k \in B : Rank(k, B) = r
        BY <1>2, <2>1, <4>1
      <4>3. {i \in Q : i <= k} = {i \in B : i <= k}
        BY <2>1
      <4> QED
        BY <4>2, <4>3 DEF Rank
    <3> QED
      BY <3>2, <3>3
  <2> QED
    BY <2>2, <2>3
<1> HIDE DEF S
<1>3. n \in S
  BY <1>1, <1>2, UpToInduction
<1> QED
  BY <1>3 DEF S

LEMMA RanksGrow ==
  ASSUME NEW n \in Nat, NEW P \in SUBSET (1..n), NEW j \in P, NEW k \in P, j < k
  PROVE  Rank(j, P) < Rank(k, P)
<1> DEFINE A == {i \in P : i <= j}
           B == {i \in P : i <= k}
<1>0. /\ j \in Int /\ k \in Int /\ \A i \in P : i \in Int
  OBVIOUS
<1>1. IsFiniteSet(A) /\ IsFiniteSet(B)
  BY <1>0, PlacesAreCounted
<1>5. Rank(j, P) = Cardinality(A) /\ Rank(k, P) = Cardinality(B)
  BY DEF Rank
<1>6. Cardinality(A) \in Nat /\ Cardinality(B) \in Nat
  BY <1>1, FS_CardinalityType
<1>2. A \cup {k} \in SUBSET B /\ k \notin A
  <2>1. \A i \in A : i \in P /\ i <= k
    BY <1>0
  <2>2. k \in B /\ k \notin A
    BY <1>0
  <2> QED
    BY <2>1, <2>2
<1>3. Cardinality(A \cup {k}) = Cardinality(A) + 1 /\ IsFiniteSet(A \cup {k})
  BY <1>1, <1>2, FS_AddElement
<1>4. Cardinality(A \cup {k}) <= Cardinality(B)
  BY <1>1, <1>2, FS_Subset
<1> QED
  BY <1>3, <1>4, <1>5, <1>6

(* The place of a rank is the only one. *)
LEMMA NthPlace ==
  ASSUME NEW n \in Nat, NEW P \in SUBSET (1..n), NEW r \in 1..Cardinality(P)
  PROVE  /\ Nth(r, P) \in P
         /\ Rank(Nth(r, P), P) = r
         /\ \A k \in P : Rank(k, P) = r => k = Nth(r, P)
<1>1. \E k \in P : Rank(k, P) = r
  BY EveryRankIsTaken
<1>2. Nth(r, P) \in P /\ Rank(Nth(r, P), P) = r
  BY <1>1 DEF Nth
<1>3. ASSUME NEW j \in P, NEW k \in P, Rank(j, P) = Rank(k, P), j < k PROVE FALSE
  <2>1. Rank(j, P) < Rank(k, P)
    BY <1>3, RanksGrow
  <2>2. j \in Int /\ Cardinality(P) \in Int
    BY PlacesAreCounted
  <2>3. Rank(j, P) \in 0..Cardinality(P)
    BY <2>2, PlacesAreCounted
  <2> QED
    BY <1>3, <2>1, <2>2, <2>3
<1>4. \A j, k \in P : j = k \/ j < k \/ k < j
  OBVIOUS
<1> QED
  BY <1>2, <1>3, <1>4

LEMMA AtNoPlace == ASSUME NEW seq PROVE AtPlaces(seq, {}) = <<>>
<1>1. Cardinality({}) = 0
  BY FS_EmptySet
<1> QED
  BY <1>1 DEF AtPlaces

(* What is taken at places is of the sequence, and in its order. *)
LEMMA AtPlacesType ==
  ASSUME NEW n \in Nat, NEW P \in SUBSET (1..n), NEW S, NEW seq, \A k \in P : seq[k] \in S
  PROVE  /\ AtPlaces(seq, P) \in Seq(S) /\ Len(AtPlaces(seq, P)) = Cardinality(P)
         /\ \A r \in 1..Cardinality(P) : AtPlaces(seq, P)[r] = seq[Nth(r, P)]
<1>1. Cardinality(P) \in Nat
  BY PlacesAreCounted
<1>2. \A r \in 1..Cardinality(P) : Nth(r, P) \in P
  BY NthPlace
<1>3. \A r \in 1..Cardinality(P) : seq[Nth(r, P)] \in S
  BY <1>2
<1> QED
  BY <1>1, <1>3 DEF AtPlaces

(* One place further on, one element more, at the end.                      *)
LEMMA AtOneMorePlace ==
  ASSUME NEW n \in Nat, NEW P \in SUBSET (1..n), NEW S, NEW seq,
         \A k \in P \cup {n + 1} : seq[k] \in S
  PROVE  AtPlaces(seq, P \cup {n + 1}) = Append(AtPlaces(seq, P), seq[n + 1])
<1> DEFINE Q == P \cup {n + 1}
           c == Cardinality(P)
<1>1. /\ c \in Nat /\ IsFiniteSet(P) /\ n + 1 \notin P
      /\ n + 1 \in Nat /\ Q \in SUBSET (1..(n + 1))
  BY PlacesAreCounted
<1>2. Cardinality(Q) = c + 1
  BY <1>1, FS_AddElement
<1>3. \A k \in P : {i \in Q : i <= k} = {i \in P : i <= k}
  OBVIOUS
<1>4. \A k \in P : Rank(k, Q) = Rank(k, P)
  BY <1>3 DEF Rank
<1>5. {i \in Q : i <= n + 1} = Q
  <2>1. \A i \in Q : i <= n + 1
    BY <1>1
  <2> QED
    BY <2>1
<1>6. Rank(n + 1, Q) = c + 1
  BY <1>2, <1>5 DEF Rank
<1> HIDE DEF Q, c
<1>7. Nth(c + 1, Q) = n + 1
  <2>1. c + 1 \in 1..Cardinality(Q) /\ n + 1 \in Q
    BY <1>1, <1>2 DEF Q
  <2> QED
    BY <1>1, <1>6, <2>1, NthPlace
<1>8. ASSUME NEW r \in 1..c PROVE Nth(r, Q) = Nth(r, P)
  <2>1. Nth(r, P) \in P /\ Rank(Nth(r, P), P) = r
    BY NthPlace DEF c
  <2>2. Nth(r, P) \in Q /\ Rank(Nth(r, P), Q) = r
    BY <1>4, <2>1 DEF Q
  <2>3. r \in 1..Cardinality(Q)
    BY <1>1, <1>2
  <2> QED
    BY <1>1, <2>2, <2>3, NthPlace
<1>9. AtPlaces(seq, P) \in Seq(S) /\ Len(AtPlaces(seq, P)) = c
      /\ \A r \in 1..c : AtPlaces(seq, P)[r] = seq[Nth(r, P)]
  BY AtPlacesType DEF c
<1> DEFINE m == n + 1
<1>m. m \in Nat /\ Q \in SUBSET (1..m) /\ \A k \in Q : seq[k] \in S
  BY <1>1 DEF Q
<1> HIDE DEF m
<1>10. /\ AtPlaces(seq, Q) \in Seq(S) /\ Len(AtPlaces(seq, Q)) = Cardinality(Q)
       /\ \A r \in 1..Cardinality(Q) : AtPlaces(seq, Q)[r] = seq[Nth(r, Q)]
  <2>1. Cardinality(Q) \in Nat
    BY <1>m, PlacesAreCounted
  <2>2. \A r \in 1..Cardinality(Q) : Nth(r, Q) \in Q
    BY <1>m, NthPlace
  <2>3. \A r \in 1..Cardinality(Q) : seq[Nth(r, Q)] \in S
    BY <1>m, <2>2
  <2> QED
    BY <2>1, <2>3 DEF AtPlaces
<1> DEFINE a == AtPlaces(seq, P)  b == AtPlaces(seq, Q)  e == seq[n + 1]
<1>11. /\ e \in S /\ a \in Seq(S) /\ b \in Seq(S) /\ Len(a) = c /\ Len(b) = c + 1
       /\ \A r \in 1..c : a[r] = seq[Nth(r, P)]
       /\ \A r \in 1..(c + 1) : b[r] = seq[Nth(r, Q)]
       /\ b[c + 1] = e
  <2>1. c + 1 \in 1..(c + 1)
    BY <1>1
  <2> QED
    BY <1>2, <1>7, <1>9, <1>10, <2>1
<1> HIDE DEF a, b, e
<1>12. /\ Append(a, e) \in Seq(S) /\ Len(Append(a, e)) = c + 1
       /\ \A r \in 1..c : Append(a, e)[r] = a[r]
       /\ Append(a, e)[c + 1] = e
  BY <1>1, <1>11
<1>13. \A r \in 1..(c + 1) : b[r] = Append(a, e)[r]
  <2>1. \A r \in 1..c : r \in 1..(c + 1) /\ b[r] = a[r]
    BY <1>1, <1>8, <1>11
  <2>2. \A r \in 1..(c + 1) : r = c + 1 \/ r \in 1..c
    BY <1>1
  <2> QED
    BY <1>11, <1>12, <2>1, <2>2
<1>14. b = Append(a, e)
  BY <1>1, <1>11, <1>12, <1>13
<1> QED
  BY <1>14 DEF a, b, e, Q
-----------------------------------------------------------------------------
(* Sums of numbers that are not negative. *)
LEMMA SumsAreSums ==
  ASSUME NEW m \in Nat, NEW s \in [1..m -> Nat]
  PROVE  /\ Sums(s, m) \in [0..m -> Nat]
         /\ Sums(s, m)[0] = 0
         /\ \A n \in 1..m : Sums(s, m)[n] = Sums(s, m)[n - 1] + s[n]
<1> DEFINE SumTo(f, k) == /\ f \in [0..k -> Nat] /\ f[0] = 0
                          /\ \A n \in 1..k : f[n] = f[n - 1] + s[n]
           S == {k \in 0..m : \E f : SumTo(f, k)}
           Step(f) == [n \in 0..m |-> IF n = 0 THEN 0 ELSE f[n - 1] + s[n]]
<1>1. 0 \in S
  <2> DEFINE f == [n \in 0..0 |-> 0]
  <2>1. SumTo(f, 0)
    OBVIOUS
  <2> HIDE DEF f, SumTo
  <2>2. \E h : SumTo(h, 0)
    BY <2>1
  <2> QED
    BY <2>2
<1>2. ASSUME NEW k \in 0..(m - 1), k \in S PROVE k + 1 \in S
  <2>1. PICK f : SumTo(f, k)
    BY <1>2
  <2>2. s[k + 1] \in Nat /\ f[k] \in Nat
    BY <2>1
  <2> DEFINE g == [n \in 0..(k + 1) |-> IF n = k + 1 THEN f[k] + s[k + 1] ELSE f[n]]
  <2>3. g \in [0..(k + 1) -> Nat] /\ g[0] = 0
    BY <2>1, <2>2
  <2>4. ASSUME NEW n \in 1..(k + 1) PROVE g[n] = g[n - 1] + s[n]
    <3>1. CASE n = k + 1
      BY <3>1, <2>2
    <3>2. CASE n # k + 1
      <4>1. n \in 1..k /\ n - 1 \in 0..k /\ n - 1 # k + 1 /\ n \in 0..(k + 1)
        BY <3>2
      <4> QED
        BY <2>1, <4>1, <3>2
    <3> QED
      BY <3>1, <3>2
  <2>5. SumTo(g, k + 1)
    BY <2>3, <2>4
  <2> HIDE DEF g, SumTo
  <2>6. \E h : SumTo(h, k + 1)
    BY <2>5
  <2> QED
    BY <2>6
<1> HIDE DEF S
<1>3. \A k \in 0..m : k \in S
  BY <1>1, <1>2, UpToInduction
<1>4. \E f : SumTo(f, m)
  <2>1. m \in 0..m
    OBVIOUS
  <2> HIDE DEF SumTo
  <2> QED
    BY <1>3, <2>1 DEF S
<1>5. PICK f : f = Step(f)
  <2>1. PICK f : SumTo(f, m)
    BY <1>4
  <2>2. \A n \in 0..m : f[n] = IF n = 0 THEN 0 ELSE f[n - 1] + s[n]
    BY <2>1
  <2>3. f = Step(f)
    BY <2>1, <2>2
  <2> HIDE DEF Step
  <2> QED
    BY <2>3
<1>6. Sums(s, m) = CHOOSE g : g = Step(g)
  BY DEF Sums
<1> HIDE DEF Step
<1>7. Sums(s, m) = Step(Sums(s, m))
  BY <1>5, <1>6
<1> DEFINE sum == Sums(s, m)
<1>8. /\ DOMAIN sum = 0..m
      /\ \A n \in 0..m : sum[n] = IF n = 0 THEN 0 ELSE sum[n - 1] + s[n]
  BY <1>7 DEF Step
<1> HIDE DEF sum
<1> DEFINE T == {n \in 0..m : sum[n] \in Nat}
<1>9. 0 \in T
  BY <1>8
<1>10. ASSUME NEW n \in 0..(m - 1), n \in T PROVE n + 1 \in T
  <2>1. n + 1 \in 1..m /\ (n + 1) - 1 = n /\ n + 1 # 0 /\ n + 1 \in 0..m
    OBVIOUS
  <2>2. sum[n + 1] = sum[n] + s[n + 1]
    BY <1>8, <2>1
  <2> QED
    BY <1>10, <2>1, <2>2
<1> HIDE DEF T
<1>11. \A n \in 0..m : n \in T
  BY <1>9, <1>10, UpToInduction
<1>12. \A n \in 0..m : sum[n] \in Nat
  BY <1>11 DEF T
<1>13. sum = [n \in 0..m |-> sum[n]]
  BY <1>7, <1>8 DEF Step, sum
<1>14. sum \in [0..m -> Nat]
  BY <1>12, <1>13
<1>15. sum[0] = 0 /\ \A n \in 1..m : sum[n] = sum[n - 1] + s[n]
  BY <1>8
<1> QED
  BY <1>14, <1>15 DEF sum

(* Of positive numbers, the sums grow. *)
LEMMA SumsGrow ==
  ASSUME NEW m \in Nat, NEW s \in [1..m -> Nat \ {0}], NEW i \in 0..m, NEW j \in 0..m, i < j
  PROVE  Sums(s, m)[i] < Sums(s, m)[j]
<1> DEFINE sum == Sums(s, m)
           S == {n \in 0..m : i < n => sum[i] < sum[n]}
<1>1. /\ sum \in [0..m -> Nat]
      /\ \A n \in 1..m : sum[n] = sum[n - 1] + s[n]
  BY SumsAreSums
<1> HIDE DEF sum
<1>2. 0 \in S
  OBVIOUS
<1>3. ASSUME NEW n \in 0..(m - 1), n \in S PROVE n + 1 \in S
  <2>1. n + 1 \in 1..m /\ n \in 0..m /\ (n + 1) - 1 = n
    OBVIOUS
  <2>2. sum[n + 1] = sum[n] + s[n + 1] /\ s[n + 1] \in Nat \ {0} /\ sum[n] \in Nat
    BY <1>1, <2>1
  <2>3. sum[n] < sum[n + 1] /\ sum[i] \in Nat
    BY <1>1, <2>2
  <2>4. i < n + 1 => sum[i] < sum[n + 1]
    <3>1. CASE i = n
      BY <2>3, <3>1
    <3>2. CASE i < n
      BY <1>3, <2>2, <2>3, <3>2
    <3> QED
      BY <3>1, <3>2
  <2> QED
    BY <2>1, <2>4
<1> HIDE DEF S
<1>4. \A n \in 0..m : n \in S
  BY <1>2, <1>3, UpToInduction
<1> QED
  BY <1>4 DEF S, sum

(* What is added to one of the numbers is added to their sum. *)
LEMMA SumWithMore ==
  ASSUME NEW m \in Nat, NEW s \in [1..m -> Nat], NEW t \in [1..m -> Nat], NEW i \in 1..m,
         NEW d \in Int, t[i] = s[i] + d, \A n \in 1..m : n # i => t[n] = s[n]
  PROVE  Sums(t, m)[m] = Sums(s, m)[m] + d
<1> DEFINE a == Sums(s, m)
           b == Sums(t, m)
           S == {n \in 0..m : b[n] = a[n] + IF i <= n THEN d ELSE 0}
<1>1. /\ a \in [0..m -> Nat] /\ a[0] = 0 /\ \A n \in 1..m : a[n] = a[n - 1] + s[n]
      /\ b \in [0..m -> Nat] /\ b[0] = 0 /\ \A n \in 1..m : b[n] = b[n - 1] + t[n]
  BY SumsAreSums
<1> HIDE DEF a, b
<1>2. 0 \in S
  BY <1>1
<1>3. ASSUME NEW n \in 0..(m - 1), n \in S PROVE n + 1 \in S
  <2>1. n + 1 \in 1..m /\ n \in 0..m /\ (n + 1) - 1 = n
    OBVIOUS
  <2>2. /\ a[n + 1] = a[n] + s[n + 1] /\ b[n + 1] = b[n] + t[n + 1]
        /\ a[n] \in Nat /\ b[n] \in Nat /\ s[n + 1] \in Nat /\ t[n + 1] \in Nat
    BY <1>1, <2>1
  <2>3. b[n + 1] = a[n + 1] + IF i <= n + 1 THEN d ELSE 0
    <3>1. CASE i = n + 1
      BY <1>3, <2>2, <3>1
    <3>2. CASE i # n + 1
      <4>1. t[n + 1] = s[n + 1] /\ (i <= n <=> i <= n + 1)
        BY <2>1, <3>2
      <4> QED
        BY <1>3, <2>2, <4>1
    <3> QED
      BY <3>1, <3>2
  <2> QED
    BY <2>1, <2>3
<1> HIDE DEF S
<1>4. \A n \in 0..m : n \in S
  BY <1>2, <1>3, UpToInduction
<1> QED
  BY <1>4 DEF S, a, b
-----------------------------------------------------------------------------
(* Remainders *)
LEMMA RemainderIsCongruent ==
  ASSUME NEW x \in Int, NEW w \in Nat \ {0}
  PROVE  x % w \in 0..(w - 1) /\ \E k \in Int : x % w = x + k * w
<1>1. x % w \in 0..(w - 1) /\ x \div w \in Int /\ x = (x \div w) * w + (x % w)
  OBVIOUS
<1>2. (x % w) = x + (0 - (x \div w)) * w /\ 0 - (x \div w) \in Int
  BY <1>1
<1>3. \E k \in Int : x % w = x + k * w
  BY <1>2
<1> QED
  BY <1>1, <1>3

LEMMA CongruentHaveOneRemainder ==
  ASSUME NEW x \in Int, NEW y \in Int, NEW k \in Int, NEW w \in Nat \ {0}, x = y + k * w
  PROVE  x % w = y % w
<1> DEFINE r == x % w
           s == y % w
<1>1. /\ r \in 0..(w - 1) /\ \E m \in Int : r = x + m * w
      /\ s \in 0..(w - 1) /\ \E m \in Int : s = y + m * w
  BY RemainderIsCongruent
<1>2. PICK m \in Int, n \in Int : r = x + m * w /\ s = y + n * w
  BY <1>1
<1> HIDE DEF r, s
<1> DEFINE d == k + m - n
<1>3. d \in Int /\ r = s + d * w
  BY <1>1, <1>2
<1> HIDE DEF d
<1>4. d = 0
  <2>1. CASE d >= 1
    <3>1. (d - 1) * w >= 0
      BY <2>1, <1>3
    <3>2. d * w = (d - 1) * w + w
      BY <1>3
    <3> QED
      BY <1>1, <1>3, <3>1, <3>2
  <2>2. CASE d <= -1
    <3>1. (0 - 1 - d) * w >= 0
      BY <2>2, <1>3
    <3>2. d * w = 0 - (0 - 1 - d) * w - w
      BY <1>3
    <3> QED
      BY <1>1, <1>3, <3>1, <3>2
  <2> QED
    BY <2>1, <2>2, <1>3
<1> QED
  BY <1>1, <1>3, <1>4 DEF r, s

LEMMA DivisionIsUnique ==
  ASSUME NEW d \in Nat \ {0}, NEW k \in Int, NEW m \in 0..(d - 1), NEW x \in Int, x = k * d + m
  PROVE  x % d = m /\ x \div d = k
<1>1. /\ x % d \in 0..(d - 1) /\ x \div d \in Int /\ x = (x \div d) * d + (x % d)
  OBVIOUS
<1> DEFINE r == x % d
           j == x \div d
<1>2. r \in 0..(d - 1) /\ j \in Int /\ x = j * d + r
  BY <1>1
<1> HIDE DEF r, j
<1> DEFINE e == k - j
<1>3. e \in Int /\ r = m + e * d
  BY <1>2
<1> HIDE DEF e
<1>4. e = 0
  <2>1. CASE e >= 1
    <3>1. (e - 1) * d >= 0
      BY <2>1, <1>3
    <3>2. e * d = (e - 1) * d + d
      BY <1>3
    <3> QED
      BY <1>2, <1>3, <3>1, <3>2
  <2>2. CASE e <= -1
    <3>1. (0 - 1 - e) * d >= 0
      BY <2>2, <1>3
    <3>2. e * d = 0 - (0 - 1 - e) * d - d
      BY <1>3
    <3> QED
      BY <1>2, <1>3, <3>1, <3>2
  <2> QED
    BY <2>1, <2>2, <1>3
<1>5. k = j
  BY <1>2, <1>4 DEF e
<1>6. r = m
  BY <1>2, <1>3, <1>4
<1> QED
  BY <1>5, <1>6 DEF r, j
-----------------------------------------------------------------------------
(* Ranks *)
(* An equation that gives the value at each place from the values at places *)
(* of lower rank has a solution.                                            *)
Ranked(D, r, m) == m \in Nat /\ r \in [D -> 0..m]

LowerDecide(G, D, S, r) ==
  /\ G \in [D -> [[D -> S] -> S]]
  /\ \A k \in D : \A f, g \in [D -> S] :
       (\A j \in D : r[j] < r[k] => f[j] = g[j]) => G[k][f] = G[k][g]

Solves(f, G, D) == \A k \in D : f[k] = G[k][f]

LEMMA SolutionByRank ==
  \A D, S, m, r, G, f0 :
    Ranked(D, r, m) /\ f0 \in [D -> S] /\ LowerDecide(G, D, S, r)
      => \E f \in [D -> S] : Solves(f, G, D)
<1> SUFFICES ASSUME NEW D, NEW S, NEW m, NEW r, NEW G, NEW f0 \in [D -> S],
                    Ranked(D, r, m), LowerDecide(G, D, S, r)
             PROVE  \E f \in [D -> S] : Solves(f, G, D)
  OBVIOUS
<1>r. m \in Nat /\ r \in [D -> 0..m]
  BY DEF Ranked
<1>0. /\ G \in [D -> [[D -> S] -> S]]
      /\ \A k \in D : \A f, g \in [D -> S] :
           (\A j \in D : r[j] < r[k] => f[j] = g[j]) => G[k][f] = G[k][g]
  BY DEF LowerDecide
<1> DEFINE Upto(f, n) == \A k \in D : r[k] < n => f[k] = G[k][f]
           T == {n \in 0..(m + 1) : \E f \in [D -> S] : Upto(f, n)}
<1>1. 0 \in T
  <2>1. Upto(f0, 0)
    BY <1>r
  <2> HIDE DEF Upto
  <2> QED
    BY <1>r, <2>1
<1>2. ASSUME NEW n \in 0..((m + 1) - 1), n \in T PROVE n + 1 \in T
  <2>1. PICK f \in [D -> S] : Upto(f, n)
    BY <1>2
  <2> DEFINE g == [k \in D |-> IF r[k] = n THEN G[k][f] ELSE f[k]]
  <2>2. g \in [D -> S] /\ \A k \in D : g[k] = IF r[k] = n THEN G[k][f] ELSE f[k]
    BY <1>0
  <2> HIDE DEF g
  <2>3. ASSUME NEW k \in D, r[k] < n + 1 PROVE g[k] = G[k][g]
    <3>1. ASSUME NEW j \in D, r[j] < r[k] PROVE f[j] = g[j]
      <4>1. r[j] \in Int /\ r[k] \in Int /\ n \in Int
        BY <1>r
      <4>2. r[j] # n
        BY <2>3, <3>1, <4>1
      <4> QED
        BY <2>2, <4>2
    <3>2. G[k][f] = G[k][g]
      BY <1>0, <2>2, <3>1
    <3>3. g[k] = G[k][f]
      <4>1. r[k] \in Int /\ n \in Int
        BY <1>r
      <4>2. r[k] = n \/ r[k] < n
        <5>1. \A a, b \in Int : a < b + 1 => a = b \/ a < b
          OBVIOUS
        <5> QED
          BY <2>3, <4>1, <5>1
      <4> QED
        BY <2>1, <2>2, <4>2
    <3> QED
      BY <3>2, <3>3
  <2>4. Upto(g, n + 1)
    BY <2>3
  <2> HIDE DEF Upto
  <2>5. n + 1 \in 0..(m + 1)
    BY <1>r
  <2> QED
    BY <2>2, <2>4, <2>5
<1>3. \A n \in 0..(m + 1) : n \in T
  <2> DEFINE p == m + 1
  <2> HIDE DEF T
  <2>1. p \in Nat /\ \A n \in 0..(p - 1) : n \in T => n + 1 \in T
    BY <1>r, <1>2
  <2> HIDE DEF p
  <2>2. \A n \in 0..p : n \in T
    BY <1>1, <2>1, UpToInduction
  <2> QED
    BY <2>2 DEF p
<1>4. PICK f \in [D -> S] : Upto(f, m + 1)
  <2>1. m + 1 \in T
    <3> HIDE DEF T
    <3> QED
      BY <1>r, <1>3
  <2> HIDE DEF Upto
  <2> QED
    BY <2>1
<1>5. \A k \in D : r[k] < m + 1
  BY <1>r
<1> QED
  BY <1>4, <1>5 DEF Solves

LEMMA LeastByRank ==
  ASSUME NEW D, NEW m \in Nat, NEW r \in [D -> 0..m], NEW B \in SUBSET D, B # {}
  PROVE  \E k \in B : \A j \in B : r[k] <= r[j]
<1> DEFINE T == {r[k] : k \in B}
<1>1. T \in SUBSET Nat /\ T # {}
  OBVIOUS
<1>2. \E x \in T : \A y \in T : x <= y
  <2> HIDE DEF T
  <2> QED
    BY <1>1, LeastNumber
<1> QED
  BY <1>2

(* Backwards from n: what holds of a number if it holds of all above it.    *)
LEMMA DownwardInduction ==
  ASSUME NEW n \in Nat, NEW S, \A k \in 0..n : (\A j \in 0..n : j > k => j \in S) => k \in S
  PROVE  \A k \in 0..n : k \in S
<1> DEFINE D == 0..n
           rank == [k \in D |-> n - k]
           B == {k \in D : k \notin S}
<1> SUFFICES ASSUME B # {} PROVE FALSE
  OBVIOUS
<1>1. rank \in [D -> 0..n] /\ B \in SUBSET D /\ \A k \in D : rank[k] = n - k
  OBVIOUS
<1>2. PICK k \in B : \A j \in B : rank[k] <= rank[j]
  <2> HIDE DEF rank, B, D
  <2> QED
    BY <1>1, LeastByRank
<1>3. ASSUME NEW j \in 0..n, j > k PROVE j \in S
  <2> SUFFICES ASSUME j \notin S PROVE FALSE
    OBVIOUS
  <2>1. j \in B /\ rank[k] <= rank[j] /\ rank[k] = n - k /\ rank[j] = n - j
    BY <1>1, <1>2
  <2> QED
    BY <1>3, <2>1
<1> QED
  BY <1>2, <1>3
-----------------------------------------------------------------------------
(* Sequences *)
LEMMA SameSequence ==
  \A C : \A a, b \in Seq(C) :
    Len(a) = Len(b) /\ (\A k \in 1..Len(b) : a[k] = b[k]) => a = b
  OBVIOUS

LEMMA LengthsAdd ==
  \A C : \A a, b \in Seq(C) : a \o b \in Seq(C) /\ Len(a \o b) = Len(a) + Len(b)
  OBVIOUS
=============================================================================
