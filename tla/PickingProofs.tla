---------------------------- MODULE PickingProofs ----------------------------
(***************************************************************************)
(* What Pick keeps: every element at a picked position and no other, in    *)
(* the order they had.                                                     *)
(***************************************************************************)
EXTENDS Picking, Functions, FiniteSetTheorems, WellFoundedInduction, TLAPS

\* A set of naturals that has an element has a least one: the induction that
\* the facts below need.
LEMMA Least ==
  ASSUME NEW S \in SUBSET Nat, S # {}
  PROVE \E m \in S : \A k \in S : m <= k
<1> DEFINE Less == {p \in Nat \X Nat : p[1] < p[2]}
<1>1. IsWellFoundedOn(Less, Nat)
  BY NatLessThanWellFounded DEF OpToRel
<1>2. \E m \in S : \A k \in S : ~ (<<k, m>> \in Less)
  <2> HIDE DEF Less
  <2> QED BY <1>1, WFMin, Zenon
<1>3. PICK m \in S : \A k \in S : <<k, m>> \notin Less
  BY <1>2
<1>4. ASSUME NEW k \in S PROVE m <= k
  <2>1. k \in Nat /\ m \in Nat
    OBVIOUS
  <2>2. ~(k < m)
    BY <1>3, <2>1
  <2> QED BY <2>1, <2>2
<1> QED BY <1>4

\* Ranks count up from none to all, by one at each picked position.
LEMMA RankSteps ==
  ASSUME NEW N \in Nat, NEW P \in SUBSET 1..N
  PROVE /\ IsFiniteSet(P) /\ Cardinality(P) \in Nat
        /\ Rank(P, 0) = 0 /\ Rank(P, N) = Cardinality(P)
        /\ \A i \in 0..N : Rank(P, i) \in Nat
        /\ \A i \in 1..N : Rank(P, i) = IF i \in P THEN Rank(P, i - 1) + 1 ELSE Rank(P, i - 1)
        /\ \A i, k \in 0..N : i <= k => Rank(P, i) <= Rank(P, k)
<1>1. IsFiniteSet(1..N)
  BY FS_Interval
<1>2. IsFiniteSet(P) /\ Cardinality(P) \in Nat
  BY <1>1, FS_Subset, FS_CardinalityType
<1>0. \A j \in P : j \in Int /\ 0 < j /\ j <= N
  OBVIOUS
<1>3. \A i \in 0..N : IsFiniteSet({j \in P : j <= i}) /\ Rank(P, i) \in Nat
  BY <1>2, FS_Subset, FS_CardinalityType DEF Rank
<1>4. Rank(P, 0) = 0
  <2>1. \A j \in P : ~(j <= 0)
    BY <1>0
  <2>2. {j \in P : j <= 0} = {}
    BY <2>1
  <2> QED BY <2>2, FS_EmptySet DEF Rank
<1>5. Rank(P, N) = Cardinality(P)
  <2>1. {j \in P : j <= N} = P
    BY <1>0
  <2> QED BY <2>1 DEF Rank
<1>6. ASSUME NEW i \in 1..N
      PROVE Rank(P, i) = IF i \in P THEN Rank(P, i - 1) + 1 ELSE Rank(P, i - 1)
  <2> DEFINE A == {j \in P : j <= i - 1}
  <2>0. i \in Int /\ i - 1 \in 0..N /\ \A j \in P : j <= i <=> j <= i - 1 \/ j = i
    BY <1>0
  <2>1. IsFiniteSet(A)
    BY <1>3, <2>0
  <2>2. CASE i \in P
    <3>1. {j \in P : j <= i} = A \union {i}
      BY <2>0, <2>2
    <3>2. i \notin A
      BY <2>0
    <3> HIDE DEF A
    <3>3. Cardinality(A \union {i}) = Cardinality(A) + 1
      BY <2>1, <3>2, FS_AddElement
    <3> QED BY <2>2, <3>1, <3>3 DEF Rank, A
  <2>3. CASE i \notin P
    <3>1. {j \in P : j <= i} = A
      BY <2>0, <2>3
    <3> QED BY <2>3, <3>1 DEF Rank
  <2> QED BY <2>2, <2>3
<1>7. ASSUME NEW i \in 0..N, NEW k \in 0..N, i <= k
      PROVE Rank(P, i) <= Rank(P, k)
  <2>1. ASSUME NEW j \in P, j <= i PROVE j <= k
    BY <1>0, <1>7, <2>1
  <2>2. {j \in P : j <= i} \in SUBSET {j \in P : j <= k}
    BY <2>1
  <2> QED BY <2>2, <1>3, FS_Subset DEF Rank
<1> QED BY <1>2, <1>3, <1>4, <1>5, <1>6, <1>7

\* The n-th position picked, as a function.
LEMMA PickOrder ==
  ASSUME NEW T, NEW s \in Seq(T), NEW P \in SUBSET DOMAIN s
  PROVE /\ Cardinality(P) \in Nat
        /\ \E f \in [1..Cardinality(P) -> P] :
             /\ \A n, m \in 1..Cardinality(P) : n < m => f[n] < f[m]
             /\ \A i \in P : \E n \in 1..Cardinality(P) : f[n] = i
             /\ Pick(s, P) = [n \in 1..Cardinality(P) |-> s[f[n]]]
<1> DEFINE N == Len(s)
           C == Cardinality(P)
<1>0. N \in Nat /\ P \in SUBSET 1..N
  OBVIOUS
<1> HIDE DEF N
<1>1. /\ C \in Nat /\ Rank(P, 0) = 0 /\ Rank(P, N) = C
      /\ \A i \in 0..N : Rank(P, i) \in Nat
      /\ \A i \in 1..N : Rank(P, i) = IF i \in P THEN Rank(P, i - 1) + 1 ELSE Rank(P, i - 1)
      /\ \A i, k \in 0..N : i <= k => Rank(P, i) <= Rank(P, k)
  BY <1>0, RankSteps
<1> HIDE DEF C
<1>2. ASSUME NEW n \in 1..C PROVE \E i \in P : Rank(P, i) = n
  <2> DEFINE S == {i \in 0..N : Rank(P, i) >= n}
  <2>1. S \in SUBSET Nat /\ N \in S
    BY <1>0, <1>1
  <2>2. PICK m \in S : \A k \in S : m <= k
    <3> HIDE DEF S
    <3> QED BY <2>1, Least
  <2>3. m \in 1..N
    BY <1>0, <1>1
  <2>4. m - 1 \in 0..N /\ Rank(P, m - 1) < n
    BY <1>0, <1>1, <2>2, <2>3
  <2>5. Rank(P, m) = n /\ m \in P
    BY <1>1, <2>3, <2>4
  <2> QED BY <2>5
<1>3. ASSUME NEW i \in P, NEW k \in P, i < k PROVE Rank(P, i) < Rank(P, k)
  <2>1. i \in 1..N /\ k \in 1..N /\ k - 1 \in 0..N /\ i <= k - 1 /\ i \in 0..N
    BY <1>0, <1>3
  <2>2. Rank(P, k) = Rank(P, k - 1) + 1 /\ Rank(P, i) <= Rank(P, k - 1)
    BY <1>1, <2>1
  <2>3. Rank(P, i) \in Nat /\ Rank(P, k - 1) \in Nat
    BY <1>1, <2>1
  <2> QED BY <2>2, <2>3
<1> DEFINE f == [n \in 1..C |-> CHOOSE i \in P : Rank(P, i) = n]
<1>4. f \in [1..C -> P] /\ \A n \in 1..C : Rank(P, f[n]) = n
  BY <1>2
<1>5. ASSUME NEW n \in 1..C, NEW m \in 1..C, n < m PROVE f[n] < f[m]
  <2> HIDE DEF f
  <2>1. f[n] \in P /\ f[m] \in P /\ Rank(P, f[n]) = n /\ Rank(P, f[m]) = m
    BY <1>4
  <2>2. f[n] \in Nat /\ f[m] \in Nat
    BY <2>1, <1>0
  <2>3. n \in Nat /\ m \in Nat
    BY <1>1
  <2>4. CASE f[m] < f[n]
    BY <1>3, <1>5, <2>1, <2>3, <2>4
  <2>5. CASE f[m] = f[n]
    BY <1>5, <2>1, <2>3, <2>5
  <2> QED BY <2>2, <2>4, <2>5
<1>6. ASSUME NEW i \in P PROVE \E n \in 1..C : f[n] = i
  <2> DEFINE n == Rank(P, i)
  <2>1. i \in 1..N /\ i \in 0..N /\ i - 1 \in 0..N /\ N \in 0..N /\ i <= N
    BY <1>0
  <2>2. n \in Nat /\ n = Rank(P, i - 1) + 1 /\ Rank(P, i - 1) \in Nat /\ n <= C
    BY <1>1, <2>1
  <2>3. n \in 1..C
    BY <1>1, <2>2
  <2> HIDE DEF f
  <2>4. f[n] \in P /\ Rank(P, f[n]) = n
    BY <1>4, <2>3
  <2>5. f[n] \in Nat /\ i \in Nat /\ n \in Nat
    BY <2>4, <1>0, <2>2
  <2>6. ~(f[n] < i) /\ ~(i < f[n])
    BY <1>3, <2>4, <2>5
  <2>7. f[n] = i
    BY <2>5, <2>6
  <2> QED BY <2>3, <2>7
<1>7. Pick(s, P) = [n \in 1..C |-> s[f[n]]]
  BY DEF Pick, C
<1> HIDE DEF f
<1> QED BY <1>1, <1>4, <1>5, <1>6, <1>7 DEF C

\* Pick keeps the type, every element of a picked position and no other.
LEMMA PickHolds ==
  ASSUME NEW T, NEW s \in Seq(T), NEW P \in SUBSET DOMAIN s
  PROVE /\ Pick(s, P) \in Seq(T)
        /\ \A n \in DOMAIN Pick(s, P) : \E i \in P : Pick(s, P)[n] = s[i]
        /\ \A i \in P : \E n \in DOMAIN Pick(s, P) : Pick(s, P)[n] = s[i]
<1> DEFINE C == Cardinality(P)
<1>1. C \in Nat
  BY PickOrder
<1>2. PICK f \in [1..C -> P] :
             /\ \A n, m \in 1..C : n < m => f[n] < f[m]
             /\ \A i \in P : \E n \in 1..C : f[n] = i
             /\ Pick(s, P) = [n \in 1..C |-> s[f[n]]]
  BY PickOrder
<1> HIDE DEF C
<1>3. \A n \in 1..C : s[f[n]] \in T
  BY <1>2
<1> QED BY <1>1, <1>2, <1>3

-----------------------------------------------------------------------------
(* The elements of a list, and their order.                                 *)

\* Pick does not change the order.
LEMMA PickKeepsOrder ==
  ASSUME NEW T, NEW s \in Seq(T), NEW P \in SUBSET DOMAIN s, NEW R,
         \A i, j \in DOMAIN s : i < j => <<s[i], s[j]>> \in R
  PROVE  \A n, m \in DOMAIN Pick(s, P) : n < m => <<Pick(s, P)[n], Pick(s, P)[m]>> \in R
<1> DEFINE C == Cardinality(P)
<1>1. C \in Nat
  BY PickOrder
<1>2. PICK f \in [1..C -> P] :
             /\ \A n, m \in 1..C : n < m => f[n] < f[m]
             /\ \A i \in P : \E n \in 1..C : f[n] = i
             /\ Pick(s, P) = [n \in 1..C |-> s[f[n]]]
  BY PickOrder
<1> HIDE DEF C
<1>3. DOMAIN Pick(s, P) = 1..C /\ \A n \in 1..C : Pick(s, P)[n] = s[f[n]] /\ f[n] \in DOMAIN s
  BY <1>2
<1> QED  BY <1>2, <1>3

\* What is left has the elements at the picked positions.
LEMMA PickRange ==
  ASSUME NEW T, NEW s \in Seq(T), NEW P \in SUBSET DOMAIN s
  PROVE  Range(Pick(s, P)) = {s[i] : i \in P}
<1>1. /\ \A n \in DOMAIN Pick(s, P) : \E i \in P : Pick(s, P)[n] = s[i]
      /\ \A i \in P : \E n \in DOMAIN Pick(s, P) : Pick(s, P)[n] = s[i]
  BY PickHolds
<1> DEFINE q == Pick(s, P)
<1>2. Range(q) = {q[n] : n \in DOMAIN q}
  BY DEF Range
<1> HIDE DEF q
<1>3. ASSUME NEW e \in Range(q) PROVE e \in {s[i] : i \in P}
  <2>1. PICK n \in DOMAIN q : e = q[n]
    BY <1>2
  <2> QED  BY <1>1, <2>1 DEF q
<1>4. ASSUME NEW i \in P PROVE s[i] \in Range(q)
  BY <1>1, <1>2 DEF q
<1> QED  BY <1>3, <1>4 DEF q

\* What is left of a list without its head.
LEMMA TailRange ==
  ASSUME NEW T, NEW s \in Seq(T), s # <<>>
  PROVE  /\ Tail(s) \in Seq(T) /\ Head(s) \in T /\ Head(s) \in Range(s)
         /\ Range(s) = Range(Tail(s)) \cup {Head(s)}
<1>1. /\ Len(s) \in Nat \ {0} /\ Tail(s) \in Seq(T) /\ Head(s) = s[1] /\ s[1] \in T
      /\ DOMAIN s = 1..Len(s) /\ DOMAIN Tail(s) = 1..(Len(s) - 1)
      /\ \A i \in 1..(Len(s) - 1) : Tail(s)[i] = s[i + 1]
  OBVIOUS
<1>2. Range(s) \subseteq Range(Tail(s)) \cup {Head(s)}
  <2>1. ASSUME NEW i \in 1..Len(s), i # 1
        PROVE  i - 1 \in 1..(Len(s) - 1) /\ Tail(s)[i - 1] = s[i]
    BY <1>1, <2>1
  <2>2. ASSUME NEW e \in Range(s), e # Head(s) PROVE e \in Range(Tail(s))
    <3>1. PICK i \in 1..Len(s) : e = s[i]
      BY <1>1 DEF Range
    <3>2. i # 1
      BY <1>1, <2>2, <3>1
    <3> QED  BY <1>1, <2>1, <3>1, <3>2 DEF Range
  <2> QED  BY <2>2
<1>3. Range(Tail(s)) \cup {Head(s)} \subseteq Range(s)
  <2>1. ASSUME NEW i \in 1..(Len(s) - 1) PROVE i + 1 \in 1..Len(s) /\ Tail(s)[i] = s[i + 1]
    BY <1>1
  <2> QED  BY <1>1, <2>1 DEF Range
<1> QED  BY <1>1, <1>2, <1>3 DEF Range
=============================================================================
