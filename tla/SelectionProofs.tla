-------------------------- MODULE SelectionProofs --------------------------
(***************************************************************************)
(* Lemmas about Select: how it follows a queue, which grows at its end and   *)
(* is consumed at its head.                                                  *)
(***************************************************************************)
EXTENDS Selection, SequenceTheorems, FunctionTheorems, FiniteSetTheorems, WellFoundedInduction, TLAPS

(* Every set of natural numbers has a least element, which is all the        *)
(* induction that is needed here.                                            *)
LEMMA LessThanWellFounded ==
  \E R : IsWellFoundedOn(R, Nat) /\ \A x, y \in Nat : x < y => <<x, y>> \in R
<1> DEFINE R == OpToRel(<, Nat)
<1>1. IsWellFoundedOn(R, Nat)
  BY NatLessThanWellFounded, Zenon
<1>2. \A x, y \in Nat : x < y => <<x, y>> \in R
  BY Zenon DEF OpToRel
<1> QED BY <1>1, <1>2, Zenon

LEMMA LeastNumber ==
  ASSUME NEW T, T \subseteq Nat, T # {}
  PROVE  \E x \in T : \A y \in T : x <= y
<1>1. PICK R : IsWellFoundedOn(R, Nat) /\ \A x, y \in Nat : x < y => <<x, y>> \in R
  BY LessThanWellFounded, Zenon
<1>2. IsWellFoundedOn(R, Nat)
  BY <1>1
<1>3. \E x \in T : \A y \in T : ~ (<<y, x>> \in R)
  BY <1>2, WFMin
<1>4. \A x, y \in T : x < y => <<x, y>> \in R
  BY <1>1
<1>5. \E x \in T : \A y \in T : ~(y < x)
  BY <1>3, <1>4, Zenon
<1>6. \A x, y \in T : ~(y < x) => x <= y
  BY SMT
<1> QED BY <1>5, <1>6, Zenon

-----------------------------------------------------------------------------
(* Ranks in a finite set of places                                           *)

LEMMA PlacesFinite ==
  ASSUME NEW n \in Nat, NEW S, S \subseteq 1..n
  PROVE  IsFiniteSet(S)
<1>1. IsFiniteSet(1..n)
  BY FS_Interval
<1>2. S \in SUBSET (1..n)
  OBVIOUS
<1> QED BY <1>1, <1>2, FS_Subset

LEMMA UpToFinite ==
  ASSUME NEW S, IsFiniteSet(S), NEW i
  PROVE  IsFiniteSet(UpTo(S, i)) /\ Cardinality(UpTo(S, i)) \in Nat
                                 /\ Cardinality(UpTo(S, i)) <= Cardinality(S)
<1>1. UpTo(S, i) \in SUBSET S
  BY DEF UpTo
<1> QED BY <1>1, FS_Subset, FS_CardinalityType

(* No two elements have the same rank.                                       *)
LEMMA RankUnique ==
  ASSUME NEW S, IsFiniteSet(S), S \subseteq Nat, NEW i \in S, NEW j \in S,
         Cardinality(UpTo(S, i)) = Cardinality(UpTo(S, j))
  PROVE  i = j
<1>1. ASSUME NEW x \in S, NEW y \in S, Cardinality(UpTo(S, x)) = Cardinality(UpTo(S, y)), x < y
      PROVE  FALSE
  <2>0. \A z \in S : z \in Int /\ (z <= x => z <= y)
    BY <1>1
  <2>1. UpTo(S, x) \in SUBSET UpTo(S, y)
    BY <2>0 DEF UpTo
  <2>2. UpTo(S, x) = UpTo(S, y)
    BY <1>1, <2>1, UpToFinite, FS_Subset
  <2>3. y \in UpTo(S, y) /\ y \notin UpTo(S, x)
    BY <1>1 DEF UpTo
  <2> QED BY <2>2, <2>3
<1>2. i \in Nat /\ j \in Nat
  OBVIOUS
<1>3. i < j \/ j < i \/ i = j
  BY <1>2
<1> QED BY <1>1, <1>3

(* Every rank up to the size of the set is taken.                            *)
LEMMA RankExists ==
  ASSUME NEW n \in Nat, NEW S, S \subseteq 1..n, NEW k \in 1..Cardinality(S)
  PROVE  \E i \in S : Cardinality(UpTo(S, i)) = k
<1>1. IsFiniteSet(S)
  BY PlacesFinite
<1> DEFINE T == {i \in 0..n : k <= Cardinality(UpTo(S, i))}
<1>0. \A j \in S : j \in Int /\ 1 <= j /\ j <= n
  OBVIOUS
<1>2. UpTo(S, n) = S /\ UpTo(S, 0) = {}
  <2>1. \A j \in S : ~(j <= 0)
    BY <1>0
  <2> QED BY <1>0, <2>1 DEF UpTo
<1>3. n \in T /\ T \subseteq Nat
  BY <1>2
<1>4. PICK m \in T : \A y \in T : m <= y
  BY <1>3, LeastNumber
<1>5. m \in 1..n /\ k <= Cardinality(UpTo(S, m))
  BY <1>2, <1>4, FS_EmptySet
<1>6. m - 1 \notin T
  BY <1>4, <1>5
<1>7. Cardinality(UpTo(S, m - 1)) < k
  <2>1. m - 1 \in 0..n
    BY <1>5
  <2>2. Cardinality(UpTo(S, m - 1)) \in Nat
    BY <1>1, UpToFinite
  <2> QED BY <1>6, <2>1, <2>2
<1> HIDE DEF T
<1>8. UpTo(S, m) = IF m \in S THEN UpTo(S, m - 1) \cup {m} ELSE UpTo(S, m - 1)
  <2>1. \A j \in S : j <= m <=> j <= m - 1 \/ j = m
    BY <1>0, <1>5
  <2> QED BY <2>1 DEF UpTo
<1>9. m \in S
  BY <1>1, <1>5, <1>7, <1>8, UpToFinite
<1>10. Cardinality(UpTo(S, m)) = Cardinality(UpTo(S, m - 1)) + 1
  <2>1. m \notin UpTo(S, m - 1)
    BY <1>5 DEF UpTo
  <2> QED BY <1>1, <1>8, <1>9, <2>1, UpToFinite, FS_AddElement
<1> QED
  <2>1. Cardinality(UpTo(S, m)) = k
    BY <1>1, <1>5, <1>7, <1>10, UpToFinite
  <2> QED BY <1>9, <2>1

(* So Ranked finds the one element of a rank.                                *)
LEMMA RankedIs ==
  ASSUME NEW n \in Nat, NEW S, S \subseteq 1..n, NEW i \in S,
         NEW k, Cardinality(UpTo(S, i)) = k
  PROVE  Ranked(S, k) = i
<1>1. IsFiniteSet(S)
  BY PlacesFinite
<1>2. Ranked(S, k) \in S /\ Cardinality(UpTo(S, Ranked(S, k))) = k
  BY DEF Ranked
<1>3. S \subseteq Nat
  OBVIOUS
<1> QED BY <1>1, <1>2, <1>3, RankUnique

LEMMA RankedFound ==
  ASSUME NEW n \in Nat, NEW S, S \subseteq 1..n, NEW k \in 1..Cardinality(S)
  PROVE  Ranked(S, k) \in S /\ Cardinality(UpTo(S, Ranked(S, k))) = k
BY RankExists DEF Ranked
-----------------------------------------------------------------------------
(* Sequences                                                                 *)

LEMMA FunctionIsSeq ==
  ASSUME NEW S, NEW n \in Nat, NEW f \in [1..n -> S]
  PROVE  f \in Seq(S) /\ Len(f) = n
<1>1. f \in Seq(S)
  BY SeqDef
<1>2. Len(f) \in Nat /\ 1..n = 1..Len(f)
  BY <1>1, LenProperties
<1>3. Len(f) = n
  <2>1. \A m \in Nat : 1..n = 1..m => n = m
    <3> SUFFICES ASSUME NEW m \in Nat, 1..n = 1..m PROVE n = m
      OBVIOUS
    <3>1. (n = 0 \/ n \in 1..m) /\ (m = 0 \/ m \in 1..n)
      <4>1. (n = 0 \/ n \in 1..n) /\ (m = 0 \/ m \in 1..m)
        OBVIOUS
      <4> QED BY <4>1
    <3>2. ~(n = 0 /\ m > 0) /\ ~(m = 0 /\ n > 0)
      <4>1. 1 \in 1..m <=> 1 \in 1..n
        OBVIOUS
      <4> QED BY <4>1
    <3> QED BY <3>1, <3>2
  <2> QED BY <1>2, <2>1
<1> QED BY <1>1, <1>3

LEMMA AtPlaces ==
  ASSUME NEW S, NEW s \in Seq(S), NEW T
  PROVE  /\ At(s, T) \subseteq 1..Len(s) /\ Len(s) \in Nat
         /\ IsFiniteSet(At(s, T)) /\ Cardinality(At(s, T)) \in 0..Len(s)
<1>1. At(s, T) \subseteq 1..Len(s) /\ Len(s) \in Nat
  BY LenProperties DEF At
<1>2. IsFiniteSet(At(s, T))
  BY <1>1, PlacesFinite
<1>3. IsFiniteSet(1..Len(s)) /\ Cardinality(1..Len(s)) = Len(s)
  <2>1. \A l \in Nat : IsFiniteSet(1..l) /\ Cardinality(1..l) = l
    <3> SUFFICES ASSUME NEW l \in Nat PROVE IsFiniteSet(1..l) /\ Cardinality(1..l) = l
      OBVIOUS
    <3>1. IsFiniteSet(1..l) /\ Cardinality(1..l) = IF 1 > l THEN 0 ELSE l - 1 + 1
      BY FS_Interval
    <3> QED BY <3>1
  <2> QED BY <1>1, <2>1
<1>4. Cardinality(At(s, T)) \in Nat /\ Cardinality(At(s, T)) <= Len(s)
  <2>1. At(s, T) \in SUBSET (1..Len(s))
    BY <1>1
  <2> QED BY <1>2, <1>3, <2>1, FS_Subset, FS_CardinalityType
<1> QED BY <1>1, <1>2, <1>4

(* What is selected is of the set, and no more than there was.               *)
LEMMA SelectTyped ==
  ASSUME NEW S, NEW s \in Seq(S), NEW T
  PROVE  /\ Select(s, T) \in Seq(S \cap T)
         /\ Len(Select(s, T)) = Cardinality(At(s, T)) /\ Len(Select(s, T)) \in 0..Len(s)
<1> DEFINE n == Cardinality(At(s, T))
<1>1. n \in Nat /\ n \in 0..Len(s)
  BY AtPlaces
<1>2. ASSUME NEW k \in 1..n PROVE s[Ranked(At(s, T), k)] \in S \cap T
  <2>1. Ranked(At(s, T), k) \in At(s, T)
    BY AtPlaces, RankedFound
  <2>2. Ranked(At(s, T), k) \in 1..Len(s) /\ s[Ranked(At(s, T), k)] \in T
    BY <2>1, AtPlaces DEF At
  <2> QED BY <2>2, ElementOfSeq
<1>3. Select(s, T) \in [1..n -> S \cap T]
  BY <1>2 DEF Select
<1> HIDE DEF n
<1>4. Select(s, T) \in Seq(S \cap T) /\ Len(Select(s, T)) = n
  BY <1>1, <1>3, FunctionIsSeq
<1> QED BY <1>1, <1>4 DEF n

LEMMA SelectEmpty ==
  ASSUME NEW T
  PROVE  Select(<<>>, T) = <<>>
<1>1. <<>> \in Seq(T) /\ Len(<<>>) = 0
  BY EmptySeq
<1>2. Select(<<>>, T) \in Seq(T \cap T) /\ Len(Select(<<>>, T)) \in 0..0
  BY <1>1, SelectTyped
<1>3. Len(Select(<<>>, T)) = 0 /\ Select(<<>>, T) \in Seq(T)
  BY <1>2
<1> QED BY <1>3, EmptySeq
(* A new element at the end is selected last.                                *)
LEMMA SelectAppend ==
  ASSUME NEW S, NEW s \in Seq(S), NEW e \in S, NEW T
  PROVE  Select(Append(s, e), T) = IF e \in T THEN Append(Select(s, T), e) ELSE Select(s, T)
<1> DEFINE t == Append(s, e)
           n == Len(s)
           A == At(s, T)
           B == At(t, T)
<1>1. /\ n \in Nat /\ t \in Seq(S) /\ Len(t) = n + 1
      /\ \A i \in 1..n : t[i] = s[i]
      /\ t[n + 1] = e
  BY AppendProperties, LenProperties
<1>2. A \subseteq 1..n /\ IsFiniteSet(A) /\ Cardinality(A) \in Nat
  BY AtPlaces
<1>3. B \subseteq 1..n + 1 /\ IsFiniteSet(B) /\ Cardinality(B) \in Nat
  <2> HIDE DEF t, n
  <2>1. B \subseteq 1..Len(t) /\ IsFiniteSet(B) /\ Cardinality(B) \in 0..Len(t)
    BY <1>1, AtPlaces
  <2> QED BY <1>1, <2>1
<1>4. DOMAIN s = 1..n /\ DOMAIN t = 1..n + 1
  BY <1>1, LenProperties
<1> HIDE DEF t, n
<1>5. B = IF e \in T THEN A \cup {n + 1} ELSE A
  <2>1. \A i : i \in B <=> i \in 1..n + 1 /\ t[i] \in T
    BY <1>4 DEF At
  <2>2. \A i : i \in A <=> i \in 1..n /\ s[i] \in T
    BY <1>4 DEF At
  <2>3. \A i : i \in 1..n + 1 <=> i \in 1..n \/ i = n + 1
    BY <1>1
  <2>4. n + 1 \notin 1..n
    BY <1>1
  <2> HIDE DEF A, B
  <2>5. \A i : i \in B <=> i \in A \/ (i = n + 1 /\ e \in T)
    BY <1>1, <2>1, <2>2, <2>3, <2>4
  <2> QED BY <2>5
<1> HIDE DEF A, B
<1>6. ASSUME NEW k \in 1..Cardinality(A)
      PROVE  Ranked(B, k) = Ranked(A, k) /\ t[Ranked(B, k)] = s[Ranked(A, k)]
  <2> DEFINE i == Ranked(A, k)
  <2>1. i \in A /\ Cardinality(UpTo(A, i)) = k
    BY <1>1, <1>2, RankedFound
  <2> HIDE DEF i
  <2>2. i \in B /\ i \in 1..n
    BY <1>2, <1>5, <2>1
  <2>3. UpTo(B, i) = UpTo(A, i)
    <3>1. ~(n + 1 <= i)
      BY <1>1, <2>2
    <3> QED BY <1>5, <3>1 DEF UpTo
  <2>4. n + 1 \in Nat /\ Cardinality(UpTo(B, i)) = k
    BY <1>1, <2>1, <2>3
  <2>5. Ranked(B, k) = i
    BY <1>3, <2>2, <2>4, RankedIs
  <2> QED BY <1>1, <2>2, <2>5 DEF i
<1>7. /\ Select(s, T) \in Seq(S \cap T) /\ Len(Select(s, T)) = Cardinality(A)
      /\ Select(t, T) \in Seq(S \cap T) /\ Len(Select(t, T)) = Cardinality(B)
  BY <1>1, SelectTyped DEF A, B
<1>8. /\ \A k \in 1..Cardinality(A) : Select(s, T)[k] = s[Ranked(A, k)]
      /\ \A k \in 1..Cardinality(B) : Select(t, T)[k] = t[Ranked(B, k)]
  BY DEF Select, A, B
<1>9. CASE e \notin T
  <2>1. A = B
    BY <1>5, <1>9
  <2>2. \A k \in 1..Len(Select(t, T)) : Select(t, T)[k] = Select(s, T)[k]
    BY <1>6, <1>7, <1>8, <2>1
  <2>3. Select(t, T) = Select(s, T)
    BY <1>7, <2>1, <2>2, SeqEqual
  <2> QED BY <1>9, <2>3 DEF t
<1>10. CASE e \in T
  <2>1. B = A \cup {n + 1} /\ n + 1 \notin A
    BY <1>1, <1>2, <1>5, <1>10
  <2>2. Cardinality(B) = Cardinality(A) + 1
    BY <1>2, <2>1, FS_AddElement
  <2> DEFINE m == Cardinality(A)
             r == Append(Select(s, T), e)
  <2>3. e \in S \cap T
    BY <1>10
  <2>4. /\ r \in Seq(S \cap T) /\ Len(r) = m + 1
        /\ \A k \in 1..m : r[k] = Select(s, T)[k]
        /\ r[m + 1] = e
    BY <1>7, <2>3, AppendProperties
  <2>5. Select(t, T)[m + 1] = e
    <3>1. UpTo(B, n + 1) = B
      <4>1. \A i \in B : i <= n + 1
        BY <1>1, <1>3
      <4> QED BY <4>1 DEF UpTo
    <3>2. n + 1 \in Nat /\ n + 1 \in B
      BY <1>1, <2>1
    <3>5. Cardinality(UpTo(B, n + 1)) = m + 1
      BY <2>2, <3>1, Zenon
    <3>3. Ranked(B, m + 1) = n + 1
      BY <1>3, <3>2, <3>5, RankedIs
    <3>4. m + 1 \in 1..Cardinality(B)
      BY <1>2, <2>2
    <3> QED BY <1>1, <1>8, <3>3, <3>4
  <2> HIDE DEF r
  <2>6. \A k \in 1..m : Select(t, T)[k] = r[k]
    <3> SUFFICES ASSUME NEW k \in 1..m PROVE Select(t, T)[k] = r[k]
      OBVIOUS
    <3>1. k \in 1..Cardinality(B)
      BY <1>2, <2>2
    <3> QED BY <1>6, <1>8, <2>4, <3>1
  <2> HIDE DEF m
  <2>7. Len(Select(t, T)) = m + 1 /\ m \in Nat
    BY <1>2, <1>7, <2>2 DEF m
  <2>8. \A k \in 1..m + 1 : Select(t, T)[k] = r[k]
    <3>1. \A k \in 1..m + 1 : k \in 1..m \/ k = m + 1
      BY <2>7
    <3> QED BY <2>4, <2>5, <2>6, <3>1
  <2>9. Select(t, T) = r
    BY <1>7, <2>4, <2>7, <2>8, SeqEqual
  <2> QED BY <1>10, <2>9 DEF t, r
<1> QED BY <1>9, <1>10
(* Places moved by one are as many.                                          *)
LEMMA ShiftSize ==
  ASSUME NEW n \in Nat, NEW X, X \subseteq 1..n
  PROVE  LET Y == {x + 1 : x \in X}
         IN  IsFiniteSet(Y) /\ Cardinality(Y) = Cardinality(X) /\ 1 \notin Y
<1> DEFINE Y == {x + 1 : x \in X}
           f == [x \in X |-> x + 1]
<1>1. IsFiniteSet(X)
  BY PlacesFinite
<1>2. \A x \in X : x \in Int /\ 1 <= x
  OBVIOUS
<1>3. f \in Bijection(X, Y)
  <2>1. f \in [X -> Y]
    OBVIOUS
  <2>2. \A x, y \in X : f[x] = f[y] => x = y
    BY <1>2
  <2>3. \A y \in Y : \E x \in X : f[x] = y
    OBVIOUS
  <2> QED BY <2>1, <2>2, <2>3 DEF Bijection, Injection, Surjection, IsInjective
<1>4. ExistsBijection(X, Y)
  BY <1>3 DEF ExistsBijection
<1>5. 1 \notin Y
  BY <1>2
<1> QED BY <1>1, <1>4, <1>5, FS_Bijection

(* The head is selected first.                                               *)
LEMMA SelectTail ==
  ASSUME NEW S, NEW s \in Seq(S), s # <<>>, NEW T
  PROVE  Select(s, T) = IF Head(s) \in T THEN <<Head(s)>> \o Select(Tail(s), T)
                                         ELSE Select(Tail(s), T)
<1> DEFINE t == Tail(s)
           n == Len(t)
           A == At(s, T)
           B == At(t, T)
           d == IF Head(s) \in T THEN 1 ELSE 0
           Shift(X) == {x + 1 : x \in X}
<1>1. t \in Seq(S) /\ Len(t) = Len(s) - 1 /\ \A i \in 1..Len(t) : t[i] = s[i + 1]
  BY HeadTailProperties
<1>2. Len(t) \in Nat /\ DOMAIN t = 1..Len(t) /\ Len(s) \in Nat /\ DOMAIN s = 1..Len(s)
  BY <1>1, LenProperties
<1>3. Head(s) = s[1] /\ Head(s) \in S
  BY HeadTailProperties
<1> HIDE DEF t
<1>4. B \subseteq 1..n /\ IsFiniteSet(B) /\ Cardinality(B) \in Nat
  BY <1>1, <1>2, AtPlaces
<1>5. A \subseteq 1..n + 1 /\ IsFiniteSet(A) /\ Cardinality(A) \in Nat
  <2>1. A \subseteq 1..Len(s) /\ IsFiniteSet(A) /\ Cardinality(A) \in 0..Len(s)
    BY AtPlaces
  <2>2. n + 1 = Len(s)
    BY <1>1, <1>2
  <2> QED BY <1>2, <2>1, <2>2
<1>6. n \in Nat /\ DOMAIN t = 1..n /\ DOMAIN s = 1..n + 1 /\ \A i \in 1..n : t[i] = s[i + 1]
  <2>1. n + 1 = Len(s)
    BY <1>1, <1>2
  <2> QED BY <1>1, <1>2, <2>1
<1> HIDE DEF n
<1>7. \A i : i \in A <=> (i = 1 /\ Head(s) \in T) \/ (i \in 2..n + 1 /\ i - 1 \in B)
  <2>1. \A i : i \in A <=> i \in 1..n + 1 /\ s[i] \in T
    BY <1>6 DEF At
  <2>2. \A i : i \in B <=> i \in 1..n /\ t[i] \in T
    BY <1>6 DEF At
  <2>3. \A i : i \in 1..n + 1 <=> i = 1 \/ i \in 2..n + 1
    BY <1>6
  <2>4. \A i \in 2..n + 1 : i - 1 \in 1..n /\ t[i - 1] = s[i]
    <3>1. \A i \in 2..n + 1 : i - 1 \in 1..n /\ (i - 1) + 1 = i
      BY <1>6
    <3> QED BY <1>6, <3>1
  <2>5. \A i \in 2..n + 1 : i # 1
    BY <1>6
  <2> HIDE DEF A, B
  <2> QED BY <1>3, <2>1, <2>2, <2>3, <2>4, <2>5
<1> HIDE DEF A, B
<1>8. ASSUME NEW i \in 0..n + 1
      PROVE  Cardinality(UpTo(A, i + 1)) = Cardinality(UpTo(B, i)) + d
  <2> DEFINE X == UpTo(B, i)
  <2>1. X \subseteq 1..n /\ IsFiniteSet(X) /\ Cardinality(X) \in Nat
    BY <1>4, UpToFinite DEF UpTo
  <2>2. IsFiniteSet(Shift(X)) /\ Cardinality(Shift(X)) = Cardinality(X) /\ 1 \notin Shift(X)
    BY <1>6, <2>1, ShiftSize
  <2>3. \A x : x \in Shift(X) <=> x \in 2..n + 1 /\ x - 1 \in B /\ x - 1 <= i
    <3>1. \A x : x \in Shift(X) => x \in 2..n + 1 /\ x - 1 \in B /\ x - 1 <= i
      <4> SUFFICES ASSUME NEW y \in X PROVE y + 1 \in 2..n + 1 /\ (y + 1) - 1 \in B /\ (y + 1) - 1 <= i
        OBVIOUS
      <4>1. y \in B /\ y <= i /\ y \in 1..n
        BY <2>1 DEF UpTo
      <4>2. y + 1 \in 2..n + 1 /\ (y + 1) - 1 = y
        BY <1>6, <4>1
      <4> QED BY <4>1, <4>2
    <3>2. \A x : x \in 2..n + 1 /\ x - 1 \in B /\ x - 1 <= i => x \in Shift(X)
      <4> SUFFICES ASSUME NEW x \in 2..n + 1, x - 1 \in B, x - 1 <= i PROVE \E y \in X : x = y + 1
        OBVIOUS
      <4>1. x - 1 \in X /\ x = (x - 1) + 1
        BY <1>6 DEF UpTo
      <4> QED BY <4>1
    <3> QED BY <3>1, <3>2
  <2> HIDE DEF X, Shift
  <2>4. \A x : x \in UpTo(A, i + 1) <=> x \in Shift(X) \/ (x = 1 /\ Head(s) \in T)
    <3>1. \A x \in 2..n + 1 : x - 1 <= i <=> x <= i + 1
      BY <1>6
    <3>2. 1 <= i + 1
      OBVIOUS
    <3>3. \A x : x \in UpTo(A, i + 1) <=> x \in A /\ x <= i + 1
      BY DEF UpTo
    <3> QED BY <1>7, <2>3, <3>1, <3>2, <3>3
  <2>5. CASE Head(s) \in T
    <3>1. UpTo(A, i + 1) = Shift(X) \cup {1}
      BY <2>4, <2>5
    <3> QED BY <2>1, <2>2, <2>5, <3>1, FS_AddElement DEF X
  <2>6. CASE Head(s) \notin T
    <3>1. UpTo(A, i + 1) = Shift(X)
      BY <2>4, <2>6
    <3> QED BY <2>1, <2>2, <2>6, <3>1 DEF X
  <2> QED BY <2>5, <2>6
<1>9. Cardinality(A) = Cardinality(B) + d
  <2>1. n \in 0..n + 1
    BY <1>6
  <2>2. UpTo(A, n + 1) = A /\ UpTo(B, n) = B
    <3>1. \A x \in A : x <= n + 1
      BY <1>5, <1>6
    <3>2. \A x \in B : x <= n
      BY <1>4, <1>6
    <3> QED BY <3>1, <3>2 DEF UpTo
  <2> QED BY <1>8, <2>1, <2>2
<1>10. ASSUME NEW k \in 1..Cardinality(B)
       PROVE  s[Ranked(A, k + d)] = t[Ranked(B, k)]
  <2> DEFINE i == Ranked(B, k)
  <2>1. i \in B /\ Cardinality(UpTo(B, i)) = k
    BY <1>4, <1>6, RankedFound
  <2> HIDE DEF i
  <2>2. i \in 1..n /\ i + 1 \in 2..n + 1 /\ (i + 1) - 1 = i
    BY <1>4, <1>6, <2>1
  <2>3. i + 1 \in A
    BY <1>7, <2>1, <2>2
  <2>4. Cardinality(UpTo(A, i + 1)) = k + d
    <3>1. i \in 0..n + 1
      BY <1>6, <2>2
    <3> QED BY <1>8, <2>1, <3>1
  <2>5. n + 1 \in Nat
    BY <1>6
  <2>6. Ranked(A, k + d) = i + 1
    BY <1>5, <2>3, <2>4, <2>5, RankedIs
  <2> QED BY <1>6, <2>2, <2>6 DEF i
<1>11. /\ Select(s, T) \in Seq(S \cap T) /\ Len(Select(s, T)) = Cardinality(A)
       /\ Select(t, T) \in Seq(S \cap T) /\ Len(Select(t, T)) = Cardinality(B)
  BY <1>1, SelectTyped DEF A, B
<1>12. /\ \A k \in 1..Cardinality(A) : Select(s, T)[k] = s[Ranked(A, k)]
       /\ \A k \in 1..Cardinality(B) : Select(t, T)[k] = t[Ranked(B, k)]
  BY DEF Select, A, B
<1>13. CASE Head(s) \notin T
  <2>1. d = 0 /\ Cardinality(A) = Cardinality(B)
    BY <1>4, <1>9, <1>13
  <2>2. \A k \in 1..Cardinality(B) : k + d = k
    BY <2>1
  <2>3. \A k \in 1..Cardinality(B) : Select(s, T)[k] = Select(t, T)[k]
    BY <1>10, <1>12, <2>1, <2>2
  <2>4. Select(s, T) = Select(t, T)
    BY <1>11, <2>1, <2>3, SeqEqual
  <2> QED BY <1>13, <2>4 DEF t
<1>14. CASE Head(s) \in T
  <2> DEFINE m == Cardinality(B)
             h == Head(s)
             r == <<h>> \o Select(t, T)
  <2>1. d = 1 /\ Cardinality(A) = m + 1
    BY <1>9, <1>14
  <2>2. <<h>> \in Seq(S \cap T) /\ Len(<<h>>) = 1 /\ <<h>>[1] = h
    BY <1>3, <1>14
  <2> HIDE DEF h
  <2>3. /\ r \in Seq(S \cap T) /\ Len(r) = 1 + m
        /\ \A k \in 1..1 + m : r[k] = IF k <= 1 THEN <<h>>[k] ELSE Select(t, T)[k - 1]
    <3>1. /\ r \in Seq(S \cap T) /\ Len(r) = Len(<<h>>) + Len(Select(t, T))
          /\ \A k \in 1..Len(<<h>>) + Len(Select(t, T)) :
               r[k] = IF k <= Len(<<h>>) THEN <<h>>[k] ELSE Select(t, T)[k - Len(<<h>>)]
      BY <1>11, <2>2, ConcatProperties
    <3> QED BY <1>11, <2>2, <3>1
  <2> HIDE DEF r
  <2>4. m \in Nat
    BY <1>4
  <2> HIDE DEF m
  <2>5. Select(s, T)[1] = h
    <3>1. 1 \in A /\ UpTo(A, 1) = {1}
      <4>1. \A x \in A : x \in Int /\ 1 <= x
        BY <1>5, <1>6
      <4>2. 1 \in A
        BY <1>7, <1>14
      <4> QED BY <4>1, <4>2 DEF UpTo
    <3>2. Cardinality(UpTo(A, 1)) = 1
      BY <3>1, FS_Singleton
    <3>3. n + 1 \in Nat
      BY <1>6
    <3>4. Ranked(A, 1) = 1
      BY <1>5, <3>1, <3>2, <3>3, RankedIs
    <3>5. 1 \in 1..Cardinality(A)
      BY <2>1, <2>4
    <3> QED BY <1>3, <1>12, <3>4, <3>5 DEF h
  <2>6. ASSUME NEW k \in 2..m + 1 PROVE Select(s, T)[k] = Select(t, T)[k - 1]
    <3>1. k - 1 \in 1..m /\ (k - 1) + 1 = k /\ k \in 1..m + 1
      BY <2>4, <2>6
    <3> QED BY <1>10, <1>12, <2>1, <3>1 DEF m
  <2>7. \A k \in 1..m + 1 : Select(s, T)[k] = r[k]
    <3> SUFFICES ASSUME NEW k \in 1..m + 1 PROVE Select(s, T)[k] = r[k]
      OBVIOUS
    <3>1. CASE k = 1
      BY <2>2, <2>3, <2>4, <2>5, <3>1
    <3>2. CASE k # 1
      <4>1. k \in 2..m + 1 /\ k \in 1..1 + m /\ ~(k <= 1)
        BY <2>4, <3>2
      <4> QED BY <2>3, <2>6, <4>1
    <3> QED BY <3>1, <3>2
  <2>8. Len(Select(s, T)) = m + 1 /\ Len(r) = m + 1
    BY <1>11, <2>1, <2>3, <2>4
  <2>9. Select(s, T) = r
    BY <1>11, <2>3, <2>7, <2>8, SeqEqual
  <2> QED BY <1>14, <2>9 DEF r, h, t
<1> QED BY <1>13, <1>14
=============================================================================
