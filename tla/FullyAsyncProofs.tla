-------------------------- MODULE FullyAsyncProofs --------------------------
(***************************************************************************)
(* Prompt groups are neither lost nor repeated, and what is generated      *)
(* ahead stays within the window, the budget and the buffer: for all sizes *)
(* of batches, groups, budgets and windows.  The inductive invariant IInv  *)
(* of FullyAsync says why.                                                 *)
(*                                                                         *)
(* The second half is about the training loop of TrainAsync, whose rollout *)
(* steps are those of FullyAsync: with checkpoints, crashes and resumes no *)
(* group is lost or learnt twice, and no batch is staler than its window.  *)
(* Its inductive invariant is TrainIInv.  The lemmas on rollout steps      *)
(* (Sound(old) is kept) serve both.                                        *)
(***************************************************************************)
EXTENDS TrainAsync, SequenceTheorems, FiniteSetTheorems, TLAPS

(***************************************************************************)
(* Lemmas about the operators.                                             *)
(***************************************************************************)

\* The smaller of two numbers.
LEMMA MinOfTwo ==
    ASSUME NEW a \in Nat, NEW b \in Nat
    PROVE  Min({a, b}) \in Nat /\ Min({a, b}) = IF a <= b THEN a ELSE b
<1> DEFINE m == IF a <= b THEN a ELSE b
<1>1. m \in {a, b} /\ \A y \in {a, b} : m <= y
  OBVIOUS
<1>2. \A x \in {a, b} : (\A y \in {a, b} : x <= y) => x = m
  OBVIOUS
<1>3. Min({a, b}) = CHOOSE x \in {a, b} : \A y \in {a, b} : x <= y
  BY DEF Min
<1> HIDE DEF m
<1>4. Min({a, b}) = m
  BY <1>1, <1>2, <1>3
<1> QED
  BY <1>4 DEF m

\* The groups of g samples that fit into a samples.
LEMMA Quotient ==
    ASSUME NEW a \in Nat, NEW g \in Nat \ {0}
    PROVE  a \div g \in Nat /\ (a \div g) * g <= a /\ a < (a \div g) * g + g
<1>1. a \div g \in Int /\ a = g * (a \div g) + (a % g) /\ a % g \in 0..(g - 1)
  OBVIOUS
<1> DEFINE q == a \div g
<1>2. q >= 0
  <2>1. SUFFICES ASSUME q < 0 PROVE FALSE
    BY <1>1
  <2>2. g * q <= -g
    BY <1>1, <2>1
  <2> QED
    BY <1>1, <2>2
<1> QED
  BY <1>1, <1>2

\* A sequence holds no more members than it is long.
LEMMA RangeIsSmall ==
    ASSUME NEW S, NEW s \in Seq(S)
    PROVE  Len(s) \in Nat /\ Range(s) \in SUBSET S /\ IsFiniteSet(Range(s)) /\ Cardinality(Range(s)) <= Len(s)
<1>1. Len(s) \in Nat /\ DOMAIN s = 1..Len(s) /\ \A i \in 1..Len(s) : s[i] \in S
  BY LenProperties, ElementOfSeq
<1>2. IsFiniteSet(1..Len(s)) /\ Cardinality(1..Len(s)) = Len(s)
  <2>1. 1 \in Int /\ Len(s) \in Int
    BY <1>1
  <2>2. Len(s) >= 0 /\ Len(s) - 1 + 1 = Len(s) /\ (1 > Len(s) => Len(s) = 0)
    BY <1>1
  <2> QED
    BY <2>1, <2>2, FS_Interval
<1>3. s \in Surjection(1..Len(s), Range(s))
  BY <1>1, SeqDef DEF Surjection, Range
<1>4. Range(s) \in SUBSET S
  BY <1>1 DEF Range
<1> QED
  BY <1>1, <1>2, <1>3, <1>4, FS_Surjection

\* The same of the groups in a list of tasks or entries; as many as it is long only if
\* none occurs twice.
LEMMA GroupsAreFew ==
    ASSUME NEW S, NEW s \in Seq(S)
    PROVE  /\ Len(s) \in Nat /\ IsFiniteSet(GroupsOf(s)) /\ Cardinality(GroupsOf(s)) \in Nat
           /\ Cardinality(GroupsOf(s)) <= Len(s)
           /\ Cardinality(GroupsOf(s)) = Len(s) => \A i, j \in DOMAIN s : s[i].g = s[j].g => i = j
<1> DEFINE f == [i \in 1..Len(s) |-> s[i].g]
           G == GroupsOf(s)
<1>1. Len(s) \in Nat /\ DOMAIN s = 1..Len(s)
  BY LenProperties
<1>2. IsFiniteSet(1..Len(s)) /\ Cardinality(1..Len(s)) = Len(s)
  <2>1. 1 \in Int /\ Len(s) \in Int
    BY <1>1
  <2>2. Len(s) >= 0 /\ Len(s) - 1 + 1 = Len(s) /\ (1 > Len(s) => Len(s) = 0)
    BY <1>1
  <2> QED
    BY <2>1, <2>2, FS_Interval
<1>3. f \in Surjection(1..Len(s), G)
  BY <1>1 DEF Surjection, GroupsOf
<1>4. IsFiniteSet(G) /\ Cardinality(G) <= Len(s) /\ (Cardinality(G) = Len(s) => f \in Injection(1..Len(s), G))
  <2> HIDE DEF f, G
  <2> QED
    BY <1>2, <1>3, FS_Surjection
<1>5. f \in Injection(1..Len(s), G) => \A i, j \in DOMAIN s : s[i].g = s[j].g => i = j
  BY <1>1 DEF Injection, IsInjective
<1>6. Cardinality(G) \in Nat
  BY <1>4, FS_CardinalityType
<1> QED
  BY <1>1, <1>4, <1>5, <1>6

\* Every position of a set is the k-th for one k, and not before the k-th of all.
LEMMA NthIs ==
    ASSUME NEW n \in Nat, NEW K \in SUBSET (1..n)
    PROVE  /\ IsFiniteSet(K) /\ Cardinality(K) \in 0..n
           /\ \A k \in 1..Cardinality(K) : Nth(K, k) \in K /\ k <= Nth(K, k)
           /\ \A i \in K : \E k \in 1..Cardinality(K) : Nth(K, k) = i
           /\ \A k, l \in 1..Cardinality(K) : Nth(K, k) = Nth(K, l) => k = l
<1> DEFINE B(i) == {j \in K : j <= i}
           r == [i \in K |-> Cardinality(B(i))]
           N == 1..Cardinality(K)
<1>1. IsFiniteSet(1..n) /\ Cardinality(1..n) = n
  BY FS_Interval
<1>2. IsFiniteSet(K) /\ Cardinality(K) \in Nat /\ Cardinality(K) <= n
  BY <1>1, FS_Subset, FS_CardinalityType
<1>3. \A i \in K : /\ IsFiniteSet(B(i)) /\ Cardinality(B(i)) \in Nat /\ Cardinality(B(i)) <= Cardinality(K)
                   /\ Cardinality(B(i)) <= i /\ Cardinality(B(i)) >= 1
  <2>0. \A i \in K : B(i) \in SUBSET K /\ B(i) \in SUBSET (1..i) /\ i \in B(i) /\ i \in Nat
    <3> SUFFICES ASSUME NEW i \in K
                 PROVE  B(i) \in SUBSET K /\ B(i) \in SUBSET (1..i) /\ i \in B(i) /\ i \in Nat
      OBVIOUS
    <3>1. i \in Nat /\ i >= 1 /\ \A j \in K : j \in Nat /\ j >= 1
      OBVIOUS
    <3>2. (\A j \in B(i) : j \in K /\ j <= i) /\ (\A j \in K : j <= i => j \in B(i))
      OBVIOUS
    <3> HIDE DEF B
    <3>3. ASSUME NEW j \in B(i) PROVE j \in K /\ j \in 1..i
      <4>1. j \in K /\ j <= i
        BY <3>2
      <4>2. j \in Nat /\ j >= 1
        BY <3>1, <4>1
      <4> QED
        BY <3>1, <4>1, <4>2
    <3> QED
      BY <3>1, <3>2, <3>3
  <2> HIDE DEF B
  <2> SUFFICES ASSUME NEW i \in K
               PROVE  /\ IsFiniteSet(B(i)) /\ Cardinality(B(i)) \in Nat /\ Cardinality(B(i)) <= Cardinality(K)
                      /\ Cardinality(B(i)) <= i /\ Cardinality(B(i)) >= 1
    OBVIOUS
  <2>1. B(i) \in SUBSET K /\ B(i) \in SUBSET (1..i) /\ i \in B(i) /\ i \in Nat
    BY <2>0
  <2>2. IsFiniteSet(1..i) /\ Cardinality(1..i) = i
    BY <2>1, FS_Interval
  <2>3. IsFiniteSet(B(i)) /\ Cardinality(B(i)) \in Nat /\ Cardinality(B(i)) <= Cardinality(K)
    BY <1>2, <2>1, FS_Subset, FS_CardinalityType
  <2>4. Cardinality(B(i)) <= i
    BY <2>1, <2>2, FS_Subset
  <2>5. Cardinality(B(i)) # 0
    BY <2>1, <2>3, FS_EmptySet
  <2> QED
    BY <2>3, <2>4, <2>5
<1>4. \A i, j \in K : i < j => r[i] # r[j]
  <2>0. \A i \in K : r[i] = Cardinality(B(i))
    OBVIOUS
  <2> HIDE DEF r
  <2> SUFFICES ASSUME NEW i \in K, NEW j \in K, i < j PROVE Cardinality(B(i)) # Cardinality(B(j))
    BY <2>0
  <2>1. B(i) \in SUBSET B(j) /\ j \in B(j) /\ j \notin B(i)
    <3>1. i \in Nat /\ j \in Nat /\ \A k \in K : k \in Nat
      OBVIOUS
    <3>2. /\ \A k \in B(i) : k \in K /\ k <= i
          /\ \A k \in B(j) : k \in K /\ k <= j
          /\ \A k \in K : k <= j => k \in B(j)
      OBVIOUS
    <3> HIDE DEF B
    <3>3. ASSUME NEW k \in B(i) PROVE k \in B(j)
      <4>1. k \in K /\ k <= i
        BY <3>2
      <4>2. k \in Nat /\ k <= j
        BY <3>1, <4>1
      <4> QED
        BY <3>2, <4>1, <4>2
    <3> QED
      BY <3>1, <3>2, <3>3
  <2>2. IsFiniteSet(B(j))
    BY <1>3
  <2> HIDE DEF B
  <2> QED
    BY <2>1, <2>2, FS_Subset
<1>5. r \in Injection(K, N)
  <2>1. \A i \in K : r[i] \in N
    <3> SUFFICES ASSUME NEW i \in K PROVE Cardinality(B(i)) \in N
      OBVIOUS
    <3> HIDE DEF B
    <3> QED
      BY <1>2, <1>3
  <2>2. r \in [K -> N]
    <3>1. \A i \in K : Cardinality(B(i)) \in N
      BY <2>1
    <3> HIDE DEF B, N
    <3> QED
      BY <3>1
  <2>3. \A i, j \in K : r[i] = r[j] => i = j
    <3>1. \A i, j \in K : i < j \/ j < i \/ i = j
      OBVIOUS
    <3> HIDE DEF r
    <3> QED
      BY <1>4, <3>1
  <2> HIDE DEF r, N
  <2> QED
    BY <2>2, <2>3 DEF Injection, IsInjective
<1>6. r \in Surjection(K, N)
  <2>1. IsFiniteSet(N) /\ Cardinality(N) = Cardinality(K)
    BY <1>2, FS_Interval
  <2> HIDE DEF r, N
  <2> QED
    BY <1>5, <2>1, FS_Injection
<1>7. \A k \in N : \E i \in K : Cardinality(B(i)) = k
  <2>1. \A k \in N : \E i \in K : r[i] = k
    <3> HIDE DEF r, N
    <3> QED
      BY <1>6 DEF Surjection
  <2> QED
    BY <2>1
<1>8. \A k \in N : Nth(K, k) \in K /\ Cardinality(B(Nth(K, k))) = k
  BY <1>7 DEF Nth
<1>9. \A k \in N : k <= Nth(K, k)
  <2> HIDE DEF B, N
  <2> QED
    BY <1>3, <1>8
<1>10. \A i \in K : \E k \in N : Nth(K, k) = i
  <2> SUFFICES ASSUME NEW i \in K PROVE Cardinality(B(i)) \in N /\ Nth(K, Cardinality(B(i))) = i
    OBVIOUS
  <2>1. r[i] \in N /\ r[i] = Cardinality(B(i))
    <3>1. r[i] = Cardinality(B(i))
      OBVIOUS
    <3> HIDE DEF r, N, B
    <3> QED
      BY <1>5, <3>1 DEF Injection
  <2>2. r[Nth(K, r[i])] = r[i] /\ Nth(K, r[i]) \in K
    BY <2>1, <1>8
  <2>3. \A j \in K : r[j] = r[i] => j = i
    <3> HIDE DEF r, N
    <3> QED
      BY <1>5 DEF Injection, IsInjective
  <2> QED
    BY <2>1, <2>2, <2>3
<1>11. Cardinality(K) \in 0..n
  BY <1>2
<1>12. \A k, l \in N : Nth(K, k) = Nth(K, l) => k = l
  <2> HIDE DEF B, N
  <2> QED
    BY <1>8
<1> HIDE DEF B, r
<1> QED
  BY <1>2, <1>8, <1>9, <1>10, <1>11, <1>12

\* The groups in a list are those of its entries.
LEMMA GroupsOfRange ==
    ASSUME NEW s
    PROVE  GroupsOf(s) = {x.g : x \in Range(s)}
BY DEF GroupsOf, Range

\* The entries of a sequence at a set of positions.
LEMMA SelectedIs ==
    ASSUME NEW S, NEW s \in Seq(S), NEW K \in SUBSET DOMAIN s
    PROVE  /\ Selected(s, K) \in Seq(S) /\ IsFiniteSet(K)
           /\ Len(Selected(s, K)) = Cardinality(K) /\ Cardinality(K) \in 0..Len(s)
           /\ Range(Selected(s, K)) = {s[i] : i \in K}
           /\ \A k \in 1..Cardinality(K) :
                 Nth(K, k) \in DOMAIN s /\ k <= Nth(K, k) /\ Selected(s, K)[k] = s[Nth(K, k)]
<1> DEFINE c == Cardinality(K)
           t == Selected(s, K)
<1>1. Len(s) \in Nat /\ DOMAIN s = 1..Len(s) /\ \A i \in 1..Len(s) : s[i] \in S
  BY LenProperties, ElementOfSeq
<1>2. /\ IsFiniteSet(K) /\ c \in 0..Len(s)
      /\ \A k \in 1..c : Nth(K, k) \in K /\ k <= Nth(K, k)
      /\ \A i \in K : \E k \in 1..c : Nth(K, k) = i
  BY <1>1, NthIs
<1>3. t = [k \in 1..c |-> s[Nth(K, k)]]
  BY DEF Selected
<1> HIDE DEF c, t
<1>4. c \in Nat /\ \A k \in 1..c : s[Nth(K, k)] \in S
  BY <1>1, <1>2
<1>5. t \in Seq(S) /\ Len(t) = c /\ DOMAIN t = 1..c
  BY <1>3, <1>4
<1>6. Range(t) = {s[i] : i \in K}
  <2>1. Range(t) = {s[Nth(K, k)] : k \in 1..c}
    BY <1>3 DEF Range
  <2> QED
    BY <1>2, <2>1
<1>7. \A k \in 1..c : t[k] = s[Nth(K, k)]
  BY <1>3
<1>8. \A k \in 1..c : Nth(K, k) \in DOMAIN s /\ k <= Nth(K, k)
  BY <1>2
<1> QED
  BY <1>2, <1>5, <1>6, <1>7, <1>8 DEF c, t

\* A sequence is split by a set of positions into the entries there and the others.
LEMMA SelectedSplit ==
    ASSUME NEW S, NEW s \in Seq(S), NEW K \in SUBSET DOMAIN s
    PROVE  /\ Range(s) = Range(Selected(s, K)) \cup Range(Selected(s, DOMAIN s \ K))
           /\ Len(s) = Len(Selected(s, K)) + Len(Selected(s, DOMAIN s \ K))
           /\ Cardinality(DOMAIN s \ K) = Len(s) - Cardinality(K)
<1> DEFINE D == DOMAIN s
           L == D \ K
<1>1. Len(s) \in Nat /\ D = 1..Len(s)
  BY LenProperties
<1>2. IsFiniteSet(D) /\ Cardinality(D) = Len(s)
  <2>1. 1 \in Int /\ Len(s) \in Int
    BY <1>1
  <2>2. Len(s) >= 0 /\ Len(s) - 1 + 1 = Len(s) /\ (1 > Len(s) => Len(s) = 0)
    BY <1>1
  <2> QED
    BY <1>1, <2>1, <2>2, FS_Interval
<1>3. /\ Len(Selected(s, K)) = Cardinality(K) /\ Cardinality(K) \in Nat
      /\ Range(Selected(s, K)) = {s[i] : i \in K}
  BY SelectedIs, <1>1
<1>4. L \in SUBSET DOMAIN s
  OBVIOUS
<1>5. Len(Selected(s, L)) = Cardinality(L) /\ Range(Selected(s, L)) = {s[i] : i \in L}
  <2> HIDE DEF L
  <2> QED
    BY SelectedIs, <1>4
<1>6. Cardinality(L) = Len(s) - Cardinality(K)
  <2>1. D \cap K = K
    OBVIOUS
  <2> HIDE DEF D
  <2>2. Cardinality(D \ K) = Cardinality(D) - Cardinality(D \cap K)
    BY <1>2, FS_Difference
  <2> QED
    BY <1>2, <2>1, <2>2
<1>7. Range(s) = {s[i] : i \in K} \cup {s[i] : i \in L}
  BY DEF Range
<1>8. Len(s) = Cardinality(K) + Cardinality(L)
  <2> HIDE DEF L
  <2> QED
    BY <1>1, <1>3, <1>6
<1> QED
  BY <1>3, <1>5, <1>6, <1>7, <1>8

\* The first entries of a sequence and the others.
LEMMA SplitAt ==
    ASSUME NEW S, NEW s \in Seq(S), NEW k \in 0..Len(s)
    PROVE  /\ SubSeq(s, 1, k) \in Seq(S) /\ Len(SubSeq(s, 1, k)) = k
           /\ SubSeq(s, k + 1, Len(s)) \in Seq(S) /\ Len(SubSeq(s, k + 1, Len(s))) = Len(s) - k
           /\ \A i \in 1..(Len(s) - k) : SubSeq(s, k + 1, Len(s))[i] = s[k + i]
           /\ Range(s) = Range(SubSeq(s, 1, k)) \cup Range(SubSeq(s, k + 1, Len(s)))
<1> DEFINE n == Len(s)
           m == k + 1
           a == SubSeq(s, 1, k)
           b == SubSeq(s, m, n)
<1>1. n \in Nat /\ n \in Int /\ k \in Nat /\ k \in Int /\ k <= n /\ DOMAIN s = 1..n /\ \A i \in 1..n : s[i] \in S
  BY LenProperties, ElementOfSeq
<1> HIDE DEF n
<1>2. /\ m \in Int /\ 1 \in Int /\ n - m + 1 = n - k /\ k - 1 + 1 = k
      /\ (m <= n \/ n - k = 0) /\ (1 <= k \/ k = 0) /\ n - k \in Nat
  BY <1>1
<1>3. \A i \in 1..(n - k) : m + i - 1 = k + i /\ k + i \in 1..n
  BY <1>1
<1>4. (\A i \in m..n : s[i] \in S) /\ (\A i \in 1..k : s[i] \in S)
  BY <1>1
<1>5. a \in Seq(S) /\ Len(a) = k /\ \A i \in 1..k : a[i] = s[i]
  <2>1. a \in Seq(S) /\ Len(a) = (IF 1 <= k THEN k - 1 + 1 ELSE 0) /\ \A i \in 1..(k - 1 + 1) : a[i] = s[1 + i - 1]
    BY <1>1, <1>2, <1>4, SubSeqProperties
  <2>2. \A i \in 1..k : 1 + i - 1 = i
    BY <1>1
  <2> HIDE DEF a
  <2> QED
    BY <1>2, <2>1, <2>2
<1>6. b \in Seq(S) /\ Len(b) = n - k /\ \A i \in 1..(n - k) : b[i] = s[k + i]
  <2> HIDE DEF m
  <2>1. b \in Seq(S) /\ Len(b) = (IF m <= n THEN n - m + 1 ELSE 0) /\ \A i \in 1..(n - m + 1) : b[i] = s[m + i - 1]
    BY <1>1, <1>2, <1>4, SubSeqProperties
  <2> HIDE DEF b
  <2> QED
    BY <1>2, <1>3, <2>1
<1> HIDE DEF a, b, m
<1>7. DOMAIN a = 1..k /\ DOMAIN b = 1..(n - k)
  BY <1>5, <1>6, LenProperties
<1>8. Range(s) \subseteq Range(a) \cup Range(b)
  <2> SUFFICES ASSUME NEW i \in 1..n PROVE s[i] \in Range(a) \cup Range(b)
    BY <1>1 DEF Range
  <2>1. CASE i <= k
    <3>1. i \in 1..k
      BY <1>1, <2>1
    <3> QED
      BY <3>1, <1>5, <1>7 DEF Range
  <2>2. CASE ~(i <= k)
    <3>1. i - k \in 1..(n - k) /\ k + (i - k) = i
      BY <1>1, <2>2
    <3> QED
      BY <3>1, <1>6, <1>7 DEF Range
  <2> QED
    BY <2>1, <2>2
<1>9. Range(a) \subseteq Range(s) /\ Range(b) \subseteq Range(s)
  <2>1. \A i \in 1..k : i \in 1..n
    BY <1>1
  <2>2. \A i \in 1..k : a[i] \in Range(s)
    BY <2>1, <1>1, <1>5 DEF Range
  <2>3. \A i \in 1..(n - k) : b[i] \in Range(s)
    BY <1>1, <1>3, <1>6 DEF Range
  <2> QED
    BY <2>2, <2>3, <1>7 DEF Range
<1> QED
  BY <1>5, <1>6, <1>8, <1>9 DEF a, b, m, n

\* A sequence after another holds what both hold.
LEMMA RangeOfConcat ==
    ASSUME NEW S, NEW s \in Seq(S), NEW t \in Seq(S)
    PROVE  /\ s \o t \in Seq(S) /\ Len(s \o t) = Len(s) + Len(t)
           /\ Range(s \o t) = Range(s) \cup Range(t)
<1> DEFINE u == s \o t
           m == Len(s)
           n == Len(t)
<1>1. u \in Seq(S) /\ Len(u) = m + n /\ \A i \in 1..(m + n) : u[i] = IF i <= m THEN s[i] ELSE t[i - m]
  BY ConcatProperties
<1> HIDE DEF u
<1>2. m \in Nat /\ n \in Nat /\ DOMAIN s = 1..m /\ DOMAIN t = 1..n /\ DOMAIN u = 1..(m + n)
  BY <1>1, LenProperties
<1> HIDE DEF m, n
<1>3. ASSUME NEW i \in 1..(m + n) PROVE u[i] \in Range(s) \cup Range(t)
  <2>1. CASE i <= m
    <3>1. i \in 1..m
      BY <1>2, <2>1
    <3> QED
      BY <1>1, <1>2, <2>1, <3>1 DEF Range
  <2>2. CASE ~(i <= m)
    <3>1. i - m \in 1..n
      BY <1>2, <2>2
    <3> QED
      BY <1>1, <1>2, <2>2, <3>1 DEF Range
  <2> QED
    BY <2>1, <2>2
<1>4. ASSUME NEW i \in 1..m PROVE s[i] \in Range(u)
  <2>1. i \in 1..(m + n) /\ i <= m
    BY <1>2
  <2> QED
    BY <1>1, <1>2, <2>1 DEF Range
<1>5. ASSUME NEW i \in 1..n PROVE t[i] \in Range(u)
  <2>1. m + i \in 1..(m + n) /\ ~(m + i <= m) /\ (m + i) - m = i
    BY <1>2
  <2> QED
    BY <1>1, <1>2, <2>1 DEF Range
<1>6. Range(u) = Range(s) \cup Range(t)
  BY <1>2, <1>3, <1>4, <1>5 DEF Range
<1> QED
  BY <1>1, <1>6 DEF u, m, n

\* One entry more.
LEMMA RangeOfAppend ==
    ASSUME NEW S, NEW s \in Seq(S), NEW x \in S
    PROVE  /\ Append(s, x) \in Seq(S) /\ Len(Append(s, x)) = Len(s) + 1
           /\ Range(Append(s, x)) = Range(s) \cup {x}
           /\ \A i \in 1..Len(s) : Append(s, x)[i] = s[i]
           /\ Append(s, x)[Len(s) + 1] = x
<1>1. <<x>> \in Seq(S) /\ Len(<<x>>) = 1 /\ Range(<<x>>) = {x}
  BY DEF Range
<1>2. Append(s, x) = s \o <<x>>
  BY AppendIsConcat
<1>3. s \o <<x>> \in Seq(S) /\ Len(s \o <<x>>) = Len(s) + Len(<<x>>) /\ Range(s \o <<x>>) = Range(s) \cup Range(<<x>>)
  <2> DEFINE t == <<x>>
  <2>1. t \in Seq(S)
    BY <1>1
  <2> HIDE DEF t
  <2>2. s \o t \in Seq(S) /\ Len(s \o t) = Len(s) + Len(t) /\ Range(s \o t) = Range(s) \cup Range(t)
    BY <2>1, RangeOfConcat
  <2> QED
    BY <2>2 DEF t
<1>4. (\A i \in 1..Len(s) : Append(s, x)[i] = s[i]) /\ Append(s, x)[Len(s) + 1] = x
  BY AppendProperties
<1> QED
  BY <1>1, <1>2, <1>3, <1>4

\* The groups of some entries, in their order.
LEMMA IdsAre ==
    ASSUME NEW s \in Seq(Entries)
    PROVE  IdsOf(s) \in Seq(Groups) /\ Len(IdsOf(s)) = Len(s) /\ Range(IdsOf(s)) = GroupsOf(s)
<1>1. Len(s) \in Nat /\ DOMAIN s = 1..Len(s) /\ \A i \in 1..Len(s) : s[i] \in Entries
  BY LenProperties, ElementOfSeq
<1>2. \A i \in 1..Len(s) : s[i].g \in Groups
  BY <1>1 DEF Entries
<1>3. IdsOf(s) = [i \in 1..Len(s) |-> s[i].g]
  BY <1>1 DEF IdsOf
<1>4. IdsOf(s) \in Seq(Groups) /\ Len(IdsOf(s)) = Len(s)
  BY <1>1, <1>2, <1>3
<1>5. Range(IdsOf(s)) = GroupsOf(s)
  BY <1>1, <1>3 DEF Range, GroupsOf
<1> QED
  BY <1>4, <1>5

(***************************************************************************)
(* Counting.                                                               *)
(***************************************************************************)

\* Two sets have together no more members than both.
LEMMA UnionIsSmall ==
    ASSUME NEW A, NEW B, IsFiniteSet(A), IsFiniteSet(B)
    PROVE  /\ IsFiniteSet(A \cup B) /\ Cardinality(A \cup B) \in Nat
           /\ Cardinality(A) \in Nat /\ Cardinality(B) \in Nat
           /\ Cardinality(A \cup B) <= Cardinality(A) + Cardinality(B)
<1>1. IsFiniteSet(A \cap B)
  <2>1. A \cap B \in SUBSET A
    OBVIOUS
  <2> QED
    BY <2>1, FS_Subset
<1>2. Cardinality(A) \in Nat /\ Cardinality(B) \in Nat /\ Cardinality(A \cap B) \in Nat
  BY <1>1, FS_CardinalityType
<1>3. IsFiniteSet(A \cup B) /\ Cardinality(A \cup B) = Cardinality(A) + Cardinality(B) - Cardinality(A \cap B)
  BY FS_Union
<1>4. Cardinality(A \cup B) \in Nat
  BY <1>3, FS_CardinalityType
<1> QED
  BY <1>2, <1>3, <1>4

\* Every draw needs a place of its own: if the first n draws have places, and there are
\* no more than n of these, no group is twice in the list of tasks, or in the batch.
LEMMA PlacesSuffice ==
    ASSUME NEW n \in Nat, NEW retry \in Seq(Groups), NEW tasks \in Seq(Tasks), NEW kept \in Seq(Entries),
           NEW batch \in Seq(Entries), NEW old \in SUBSET Groups, NEW gone \in SUBSET Groups,
           1..n = Places(retry, tasks, kept, batch, old, gone),
           Total(retry, tasks, kept, batch, old, gone) <= n
    PROVE  /\ Total(retry, tasks, kept, batch, old, gone) = n
           /\ \A i, j \in DOMAIN tasks : tasks[i].g = tasks[j].g => i = j
           /\ Cardinality(GroupsOf(batch)) = Len(batch)
<1> DEFINE P == Range(retry)
           Q == GroupsOf(tasks)
           R == GroupsOf(kept)
           T == GroupsOf(batch)
           PQ == P \cup Q
           RT == R \cup T
           OG == old \cup gone
           RO == RT \cup OG
           U == PQ \cup RO
<1>1. /\ Len(retry) \in Nat /\ IsFiniteSet(P) /\ Cardinality(P) <= Len(retry)
      /\ Len(tasks) \in Nat /\ IsFiniteSet(Q) /\ Cardinality(Q) <= Len(tasks)
      /\ Len(kept) \in Nat /\ IsFiniteSet(R) /\ Cardinality(R) <= Len(kept)
      /\ Len(batch) \in Nat /\ IsFiniteSet(T) /\ Cardinality(T) <= Len(batch)
      /\ Cardinality(Q) = Len(tasks) => \A i, j \in DOMAIN tasks : tasks[i].g = tasks[j].g => i = j
  BY RangeIsSmall, GroupsAreFew
<1>2. IsFiniteSet(old) /\ IsFiniteSet(gone)
  <2>1. IsFiniteSet(Groups)
    <3>1. 1 \in Int /\ MaxDraws \in Int
      BY SizesAssumption
    <3> QED
      BY <3>1, FS_Interval DEF Groups
  <2> QED
    BY <2>1, FS_Subset
<1>3. 1..n = U
  BY DEF Places
<1>4. Cardinality(1..n) = n
  <2>1. 1 \in Int /\ n \in Int /\ n - 1 + 1 = n /\ (1 > n => n = 0)
    OBVIOUS
  <2> QED
    BY <2>1, FS_Interval
<1>5. Total(retry, tasks, kept, batch, old, gone)
         = Len(retry) + Len(tasks) + Len(kept) + Len(batch) + Cardinality(old) + Cardinality(gone)
  BY DEF Total
<1> HIDE DEF P, Q, R, T
<1>6. /\ IsFiniteSet(PQ) /\ Cardinality(PQ) <= Cardinality(P) + Cardinality(Q)
      /\ Cardinality(P) \in Nat /\ Cardinality(Q) \in Nat /\ Cardinality(PQ) \in Nat
  BY <1>1, UnionIsSmall
<1>7. /\ IsFiniteSet(RT) /\ Cardinality(RT) <= Cardinality(R) + Cardinality(T)
      /\ Cardinality(R) \in Nat /\ Cardinality(T) \in Nat /\ Cardinality(RT) \in Nat
  BY <1>1, UnionIsSmall
<1>8. /\ IsFiniteSet(OG) /\ Cardinality(OG) <= Cardinality(old) + Cardinality(gone)
      /\ Cardinality(old) \in Nat /\ Cardinality(gone) \in Nat /\ Cardinality(OG) \in Nat
  BY <1>2, UnionIsSmall
<1> HIDE DEF PQ, RT, OG
<1>9. IsFiniteSet(RO) /\ Cardinality(RO) <= Cardinality(RT) + Cardinality(OG) /\ Cardinality(RO) \in Nat
  BY <1>7, <1>8, UnionIsSmall
<1> HIDE DEF RO
<1>10. Cardinality(U) <= Cardinality(PQ) + Cardinality(RO) /\ Cardinality(U) \in Nat
  BY <1>6, <1>9, UnionIsSmall
<1>11. Cardinality(U) = n
  BY <1>3, <1>4
<1> HIDE DEF U
<1>12. /\ Len(retry) \in Nat /\ Len(tasks) \in Nat /\ Len(kept) \in Nat /\ Len(batch) \in Nat
       /\ Cardinality(P) <= Len(retry) /\ Cardinality(Q) <= Len(tasks)
       /\ Cardinality(R) <= Len(kept) /\ Cardinality(T) <= Len(batch)
  BY <1>1
<1> DEFINE p == Cardinality(P)
           q == Cardinality(Q)
           r == Cardinality(R)
           t == Cardinality(T)
           o == Cardinality(old)
           g == Cardinality(gone)
           pq == Cardinality(PQ)
           rt == Cardinality(RT)
           og == Cardinality(OG)
           ro == Cardinality(RO)
<1>13. /\ p \in Nat /\ q \in Nat /\ r \in Nat /\ t \in Nat /\ o \in Nat /\ g \in Nat
       /\ pq \in Nat /\ rt \in Nat /\ og \in Nat /\ ro \in Nat
       /\ pq <= p + q /\ rt <= r + t /\ og <= o + g /\ ro <= rt + og /\ n <= pq + ro
  BY <1>6, <1>7, <1>8, <1>9, <1>10, <1>11
<1>14. /\ Len(retry) + Len(tasks) + Len(kept) + Len(batch) + o + g <= n
       /\ p <= Len(retry) /\ q <= Len(tasks) /\ r <= Len(kept) /\ t <= Len(batch)
  BY <1>5, <1>12
<1> HIDE DEF p, q, r, t, o, g, pq, rt, og, ro
<1>15. n <= p + q + r + t + o + g
  BY <1>13
<1>16. Len(retry) + Len(tasks) + Len(kept) + Len(batch) + o + g = n /\ q = Len(tasks) /\ t = Len(batch)
  BY <1>12, <1>13, <1>14, <1>15
<1>17. Total(retry, tasks, kept, batch, old, gone) = n
  BY <1>5, <1>16 DEF o, g
<1> QED
  BY <1>1, <1>16, <1>17 DEF q, t, T


(***************************************************************************)
(* What the invariant says of the numbers and of the running tasks.        *)
(***************************************************************************)

SoundNext(old) ==
    Core' /\ AllPlaced(drawn', retryBuffer', running', buffer', taken', old, dropped')

\* The window and the slots are numbers; a submission fills no more than the budget.
LEMMA SlotsAre ==
    ASSUME TypeOK
    PROVE  /\ Len(buffer) \in Nat /\ Len(running) \in Nat /\ Len(retryBuffer) \in Nat /\ Len(taken) \in Nat
           /\ Occupied \in Nat /\ Window \in Nat
           /\ AdmissionSlots \in Nat /\ InFlight \in Nat
           /\ WithinStaleness /\ Occupied <= Window => Occupied + AdmissionSlots = Window
           /\ ~WithinStaleness => AdmissionSlots = Budget + 1
           /\ CapacitySlots \in Nat /\ CapacitySlots <= Budget
           /\ InFlight <= Budget * GroupSize =>
                 /\ InFlight + CapacitySlots * GroupSize <= Budget * GroupSize
                 /\ Budget * GroupSize < InFlight + CapacitySlots * GroupSize + GroupSize
<1>1. Len(buffer) \in Nat /\ Len(running) \in Nat /\ Len(retryBuffer) \in Nat /\ Len(taken) \in Nat
  BY LenProperties DEF TypeOK
<1>2. Window \in Nat
  <2> DEFINE w == MaxStaleness + (IF getPending THEN 1 ELSE 0)
  <2>1. w \in Nat /\ Batch \in Nat /\ Window = w * Batch
    BY SizesAssumption DEF Window
  <2> HIDE DEF w
  <2> QED
    BY <2>1
<1>3. Occupied \in Nat
  BY <1>1 DEF Occupied
<1>4. Budget \in Nat /\ Budget > 0 /\ GroupSize \in Nat /\ GroupSize > 0
  BY SizesAssumption
<1>5. InFlight \in Nat
  BY DEF InFlight, TypeOK
<1>6. /\ AdmissionSlots \in Nat
      /\ WithinStaleness /\ Occupied <= Window => Occupied + AdmissionSlots = Window
      /\ ~WithinStaleness => AdmissionSlots = Budget + 1
  BY <1>2, <1>3, <1>4 DEF AdmissionSlots
<1> DEFINE total == Budget * GroupSize
           a == total - InFlight
           q == a \div GroupSize
<1>7. total \in Nat
  BY <1>4
<1>8. CapacitySlots = IF InFlight >= total THEN 0 ELSE q
  BY DEF CapacitySlots
<1>9. CASE InFlight >= total
  <2>1. CapacitySlots = 0 /\ 0 * GroupSize = 0
    BY <1>8, <1>9, <1>4
  <2> HIDE DEF total
  <2> QED
    BY <1>1, <1>2, <1>3, <1>4, <1>5, <1>6, <1>7, <1>9, <2>1 DEF total
<1>10. CASE ~(InFlight >= total)
  <2>1. a \in Nat /\ a <= total /\ InFlight + a = total
    <3> HIDE DEF total
    <3> QED
      BY <1>5, <1>7, <1>10
  <2>2. q \in Nat /\ q * GroupSize <= a /\ a < q * GroupSize + GroupSize
    <3> HIDE DEF a
    <3> QED
      BY <1>4, <2>1, Quotient
  <2>3. CapacitySlots = q
    BY <1>8, <1>10
  <2> HIDE DEF a, q
  <2>4. q <= Budget
    <3>1. SUFFICES ASSUME q >= Budget + 1 PROVE FALSE
      BY <1>4, <2>2
    <3>2. q * GroupSize >= (Budget + 1) * GroupSize
      BY <1>4, <2>2, <3>1
    <3>3. (Budget + 1) * GroupSize = total + GroupSize
      BY <1>4
    <3>4. q * GroupSize \in Nat
      BY <1>4, <2>2
    <3> HIDE DEF total
    <3> QED
      BY <1>4, <1>7, <2>1, <2>2, <3>2, <3>3, <3>4
  <2>5. InFlight + q * GroupSize <= total /\ total < InFlight + q * GroupSize + GroupSize
    <3>1. q * GroupSize \in Nat
      BY <1>4, <2>2
    <3> HIDE DEF total
    <3> QED
      BY <1>4, <1>5, <1>7, <2>1, <2>2, <3>1
  <2> QED
    BY <1>1, <1>2, <1>3, <1>5, <1>6, <2>2, <2>3, <2>4, <2>5
<1> QED
  BY <1>9, <1>10

\* No group has two running tasks.
LEMMA OneTaskEach ==
    ASSUME NEW old \in SUBSET Groups, Sound(old)
    PROVE  \A i, j \in DOMAIN running : running[i].g = running[j].g => i = j
<1>1. /\ 1..drawn = Places(retryBuffer, running, buffer, taken, old, dropped)
      /\ drawn = Total(retryBuffer, running, buffer, taken, old, dropped)
  BY DEF Sound, AllPlaced
<1>2. /\ drawn \in Nat /\ retryBuffer \in Seq(Groups) /\ running \in Seq(Tasks) /\ buffer \in Seq(Entries)
      /\ taken \in Seq(Entries) /\ dropped \in SUBSET Groups
  BY DEF Sound, Core, TypeOK
<1>3. Total(retryBuffer, running, buffer, taken, old, dropped) <= drawn
  BY <1>1, <1>2
<1> QED
  BY <1>1, <1>2, <1>3, PlacesSuffice

\* It is enough that every group drawn has a place and that there are not too many.
LEMMA PlacesKept ==
    ASSUME TypeOK', NEW old \in SUBSET Groups,
           1..drawn' = Places(retryBuffer', running', buffer', taken', old, dropped'),
           Total(retryBuffer', running', buffer', taken', old, dropped') <= drawn'
    PROVE  /\ AllPlaced(drawn', retryBuffer', running', buffer', taken', old, dropped')
           /\ \A i, j \in DOMAIN running' : running'[i].g = running'[j].g => i = j
<1>1. /\ drawn' \in Nat /\ retryBuffer' \in Seq(Groups) /\ running' \in Seq(Tasks) /\ buffer' \in Seq(Entries)
      /\ taken' \in Seq(Entries) /\ dropped' \in SUBSET Groups
  BY DEF TypeOK
<1>2. /\ Total(retryBuffer', running', buffer', taken', old, dropped') = drawn'
      /\ \A i, j \in DOMAIN running' : running'[i].g = running'[j].g => i = j
  <2>1. ASSUME NEW n \in Nat, NEW retry \in Seq(Groups), NEW tasks \in Seq(Tasks), NEW kept \in Seq(Entries),
               NEW batch \in Seq(Entries), NEW gone \in SUBSET Groups,
               1..n = Places(retry, tasks, kept, batch, old, gone),
               Total(retry, tasks, kept, batch, old, gone) <= n
        PROVE  /\ Total(retry, tasks, kept, batch, old, gone) = n
               /\ \A i, j \in DOMAIN tasks : tasks[i].g = tasks[j].g => i = j
    BY <2>1, PlacesSuffice
  <2> QED
    BY <1>1, <2>1
<1> QED
  BY <1>2 DEF AllPlaced

\* The invariant, said of the groups that have left the rollout side.
LEMMA IInvIsSound ==
    /\ IInv => trained \in SUBSET Groups /\ Sound(trained) /\ Core /\ TypeOK
    /\ SoundNext(trained) /\ trained' = trained /\ AdmissionWindow' /\ InTime' /\ NoMissedWakeup' => IInv'
<1>1. ASSUME IInv PROVE trained \in SUBSET Groups /\ Sound(trained) /\ Core /\ TypeOK
  BY <1>1 DEF IInv, Sound, Core, AllPlaced, Conservation, Places, Total, TypeOK
<1>2. ASSUME SoundNext(trained), trained' = trained, AdmissionWindow', InTime', NoMissedWakeup'
      PROVE  IInv'
  <2>1. AllPlaced(drawn', retryBuffer', running', buffer', taken', trained', dropped')
    BY <1>2 DEF SoundNext
  <2>2. Conservation'
    BY <2>1 DEF AllPlaced, Conservation, Places, Total
  <2>3. Core'
    BY <1>2 DEF SoundNext
  <2> QED
    BY <1>2, <2>2, <2>3 DEF IInv, Core
<1> QED
  BY <1>1, <1>2

\* A task that ended is found by its group.
LEMMA TaskIs ==
    ASSUME NEW old \in SUBSET Groups, Sound(old), NEW g \in Finished
    PROVE  /\ TaskOf(g) \in DOMAIN running /\ running[TaskOf(g)] \in Tasks
           /\ running[TaskOf(g)].g = g /\ running[TaskOf(g)].out # "generating" /\ running[TaskOf(g)].left = 0
           /\ \A j \in DOMAIN running : running[j].g = g => j = TaskOf(g)
<1>1. PICK i \in DOMAIN running : running[i].out # "generating" /\ running[i].g = g
  BY DEF Finished
<1>2. \A j \in DOMAIN running : running[j].g = g => j = i
  BY <1>1, OneTaskEach
<1>3. TaskOf(g) = i
  BY <1>1, <1>2 DEF TaskOf
<1>4. running \in Seq(Tasks) /\ running[i].left = 0
  BY <1>1 DEF Sound, Core, TypeOK, FinishedHaveNoneLeft
<1>5. running[i] \in Tasks
  BY <1>1, <1>4, LenProperties, ElementOfSeq
<1> QED
  BY <1>1, <1>2, <1>3, <1>4, <1>5

\* There are finitely many samples of running groups.
LEMMA UnfinishedIsFinite == IsFiniteSet(Unfinished) /\ Cardinality(Unfinished) \in Nat
<1> DEFINE G == 1..GroupSize
           M == Groups
<1>1. IsFiniteSet(M) /\ IsFiniteSet(G)
  <2>1. 1 \in Int /\ MaxDraws \in Int /\ GroupSize \in Int
    BY SizesAssumption
  <2> QED
    BY <2>1, FS_Interval DEF Groups
<1>2. Unfinished \in SUBSET (M \X G)
  BY DEF Unfinished
<1> HIDE DEF G, M
<1>3. IsFiniteSet(M \X G)
  BY <1>1, FS_Product
<1> QED
  BY <1>2, <1>3, FS_Subset, FS_CardinalityType

(***************************************************************************)
(* Each step keeps the invariant.                                          *)
(***************************************************************************)
places == <<drawn, retryBuffer, running, buffer, taken, trained, dropped, version>>

\* Where the groups are and how far they got stays as it is.
LEMMA QuietFrame ==
    ASSUME UNCHANGED <<places, samplesInFlight>>
    PROVE  /\ InTime => InTime'
           /\ FinishedHaveNoneLeft => FinishedHaveNoneLeft'
           /\ SampleAccounting => SampleAccounting'
           /\ BufferBound => BufferBound'
           /\ Finished' = Finished /\ Occupied' = Occupied /\ CapacitySlots' = CapacitySlots
           /\ getPending' = getPending => AdmissionSlots' = AdmissionSlots /\ Window' = Window
<1> USE DEF places
<1>1. (FinishedHaveNoneLeft => FinishedHaveNoneLeft') /\ (InTime => InTime')
  BY DEF FinishedHaveNoneLeft, InTime, NextVersion
<1>2. (SampleAccounting => SampleAccounting') /\ (BufferBound => BufferBound')
  BY DEF SampleAccounting, BufferBound, Unfinished
<1>3. Finished' = Finished /\ Occupied' = Occupied /\ CapacitySlots' = CapacitySlots
  BY DEF Finished, Occupied, CapacitySlots, InFlight
<1>4. getPending' = getPending => AdmissionSlots' = AdmissionSlots /\ Window' = Window
  BY <1>3 DEF AdmissionSlots, Window
<1> QED
  BY <1>1, <1>2, <1>3, <1>4

\* AdmissionWindow speaks of the window.
LEMMA WindowKept ==
    /\ AdmissionWindow <=> (WithinStaleness /\ worker # "dead" => Occupied <= Window)
    /\ AdmissionWindow' <=> (WithinStaleness /\ worker' # "dead" => Occupied' <= Window')
<1>1. (IF getPending THEN MaxStaleness + 1 ELSE MaxStaleness) * Batch = Window
  <2>1. (IF getPending THEN MaxStaleness + 1 ELSE MaxStaleness) = MaxStaleness + (IF getPending THEN 1 ELSE 0)
    BY SizesAssumption
  <2> QED
    BY <2>1 DEF Window
<1>2. (IF getPending' THEN MaxStaleness + 1 ELSE MaxStaleness) * Batch = Window'
  <2>1. (IF getPending' THEN MaxStaleness + 1 ELSE MaxStaleness) = MaxStaleness + (IF getPending' THEN 1 ELSE 0)
    BY SizesAssumption
  <2> QED
    BY <2>1 DEF Window
<1> QED
  BY <1>1, <1>2 DEF AdmissionWindow, Occupied

\* The worker's own steps that move no group, and the ends of worker and drain.
LEMMA ControlIs ==
    ASSUME Core,
           \/ WorkerWake \/ WorkerLoops \/ OnWorkerError \/ Dispose \/ PauseForEval \/ ResumeAfterEval
           \/ \E g \in done : PutBlocks(g) \/ WorkerDies(g)
    PROVE  /\ UNCHANGED <<places, samplesInFlight, sampleDone, admissionChanged>>
           /\ TypeOK'
           /\ getPending' = getPending \/ (getPending' = FALSE /\ worker = "dead")
           /\ worker = "dead" => worker' = "dead"
           /\ worker' \notin {"admission", "progress"} \/ worker' = worker
           /\ done' \subseteq Finished
           /\ putting' # NoGroup => putting' \in done'
<1>1. CASE WorkerWake
  <2>1. Finished \subseteq Groups
    <3>1. running \in Seq(Tasks)
      BY DEF Core, TypeOK
    <3>2. \A i \in DOMAIN running : running[i] \in Tasks
      BY <3>1, LenProperties, ElementOfSeq
    <3>3. \A i \in DOMAIN running : running[i].g \in Groups
      BY <3>2 DEF Tasks
    <3> QED
      BY <3>3 DEF Finished
  <2>2. putting # NoGroup => putting \in Finished
    BY DEF Core, WorkerPutsFinished
  <2> QED
    BY <1>1, <2>1, <2>2 DEF WorkerWake, places, Core, TypeOK
<1>2. CASE WorkerLoops
  BY <1>2 DEF WorkerLoops, places, Core, TypeOK, WorkerPutsFinished
<1>3. CASE OnWorkerError
  BY <1>3 DEF OnWorkerError, places, producer, Core, TypeOK, WorkerPutsFinished
<1>4. CASE Dispose
  BY <1>4 DEF Dispose, places, Core, TypeOK, WorkerPutsFinished
<1>5. CASE PauseForEval \/ ResumeAfterEval
  BY <1>5 DEF PauseForEval, ResumeAfterEval, places, producer, Core, TypeOK, WorkerPutsFinished
<1>6. CASE \E g \in done : PutBlocks(g)
  BY <1>6 DEF PutBlocks, places, Core, TypeOK, WorkerPutsFinished
<1>7. CASE \E g \in done : WorkerDies(g)
  BY <1>7 DEF WorkerDies, places, Core, TypeOK, WorkerPutsFinished
<1> QED
  BY <1>1, <1>2, <1>3, <1>4, <1>5, <1>6, <1>7

\* A step that only moves control moves no group: all that is Sound stays so.
LEMMA ControlSound ==
    ASSUME NEW old \in SUBSET Groups, Sound(old),
           \/ WorkerWake \/ WorkerLoops \/ OnWorkerError \/ Dispose \/ PauseForEval \/ ResumeAfterEval
           \/ \E g \in done : PutBlocks(g) \/ WorkerDies(g)
    PROVE  SoundNext(old) /\ UNCHANGED <<trained, version>>
<1>1. Core
  BY DEF Sound
<1>2. /\ UNCHANGED <<places, samplesInFlight>>
      /\ TypeOK'
      /\ getPending' = getPending \/ getPending' = FALSE
      /\ done' \subseteq Finished
      /\ putting' # NoGroup => putting' \in done'
  BY <1>1, ControlIs
<1>3. /\ FinishedHaveNoneLeft' /\ SampleAccounting' /\ BufferBound' /\ Finished' = Finished
  BY <1>1, <1>2, QuietFrame DEF Core
<1>4. WorkerPutsFinished' /\ OneBatch'
  BY <1>1, <1>2, <1>3 DEF WorkerPutsFinished, Core, OneBatch, places
<1>5. AllPlaced(drawn', retryBuffer', running', buffer', taken', old, dropped')
  BY <1>2 DEF Sound, places
<1> QED
  BY <1>2, <1>3, <1>4, <1>5 DEF SoundNext, Core, places

\* The same for the invariant.
LEMMA ControlKeeps ==
    ASSUME IInv,
           \/ WorkerWake \/ WorkerLoops \/ OnWorkerError \/ Dispose \/ PauseForEval \/ ResumeAfterEval
           \/ \E g \in done : PutBlocks(g) \/ WorkerDies(g)
    PROVE  IInv'
<1>1. /\ UNCHANGED <<places, samplesInFlight, sampleDone, admissionChanged>>
      /\ getPending' = getPending \/ (getPending' = FALSE /\ worker = "dead")
      /\ worker = "dead" => worker' = "dead"
      /\ worker' \notin {"admission", "progress"} \/ worker' = worker
  BY IInvIsSound, ControlIs
<1>2. SoundNext(trained)
  BY IInvIsSound, ControlSound
<1>3. /\ InTime' /\ Occupied' = Occupied /\ CapacitySlots' = CapacitySlots
      /\ getPending' = getPending => AdmissionSlots' = AdmissionSlots /\ Window' = Window
  BY <1>1, QuietFrame DEF IInv
<1>4. AdmissionWindow'
  BY <1>1, <1>3, WindowKept DEF IInv
<1>5. NoMissedWakeup'
  BY <1>1, <1>3 DEF NoMissedWakeup, IInv, places
<1> QED
  BY <1>1, <1>2, <1>3, <1>4, <1>5, IInvIsSound DEF places

\* A training step takes in its batch and publishes a version.
LEMMA TrainStepKeeps == ASSUME IInv, TrainStep PROVE IInv'
<1>1. /\ taken' = <<>> /\ trained' = trained \cup GroupsOf(taken) /\ version' = version + 1
      /\ version < MaxVersion /\ taken # <<>>
      /\ UNCHANGED <<drawn, retryBuffer, running, buffer, dropped, samplesInFlight, sampleDone, worker, done,
                     putting, resumed, admissionChanged, getPending>>
  BY DEF TrainStep, producer
<1>2. /\ taken \in Seq(Entries) /\ trained \in SUBSET Groups /\ version \in Versions /\ drawn \in Nat
      /\ retryBuffer \in Seq(Groups) /\ running \in Seq(Tasks) /\ buffer \in Seq(Entries)
      /\ Len(buffer) \in Nat /\ Len(running) \in Nat /\ Len(retryBuffer) \in Nat /\ Len(taken) \in Nat
  BY SlotsAre DEF IInv, TypeOK
<1>3. GroupsOf(taken) \in SUBSET Groups
  <2>1. \A i \in DOMAIN taken : taken[i] \in Entries
    BY <1>2, LenProperties, ElementOfSeq
  <2>2. \A i \in DOMAIN taken : taken[i].g \in Groups
    BY <2>1 DEF Entries
  <2> QED
    BY <2>2 DEF GroupsOf
<1>4. <<>> \in Seq(Entries) /\ Len(<<>>) = 0 /\ GroupsOf(<<>>) = {}
  BY DEF GroupsOf
<1>5. version + 1 \in Versions
  BY <1>1, <1>2, SizesAssumption DEF Versions
<1>6. TypeOK'
  BY <1>1, <1>2, <1>3, <1>4, <1>5 DEF IInv, TypeOK
<1>7. Conservation'
  <2>1. /\ IsFiniteSet(GroupsOf(taken)) /\ Cardinality(GroupsOf(taken)) <= Len(taken)
        /\ Cardinality(GroupsOf(taken)) \in Nat
    BY <1>2, GroupsAreFew
  <2>2. IsFiniteSet(trained) /\ IsFiniteSet(dropped)
    <3>1. IsFiniteSet(Groups)
      <4>1. 1 \in Int /\ MaxDraws \in Int
        BY SizesAssumption
      <4> QED
        BY <4>1, FS_Interval DEF Groups
    <3>2. trained \in SUBSET Groups /\ dropped \in SUBSET Groups
      BY DEF IInv, TypeOK
    <3> QED
      BY <3>1, <3>2, FS_Subset
  <2>3. /\ Cardinality(trained') <= Cardinality(trained) + Cardinality(GroupsOf(taken))
        /\ Cardinality(trained') \in Nat /\ Cardinality(trained) \in Nat
    BY <1>1, <2>1, <2>2, UnionIsSmall
  <2>4. Cardinality(dropped) \in Nat
    BY <2>2, FS_CardinalityType
  <2>5. 1..drawn' = Places(retryBuffer', running', buffer', taken', trained', dropped')
    <3>1. 1..drawn = Range(retryBuffer) \cup GroupsOf(running) \cup GroupsOf(buffer)
                        \cup GroupsOf(taken) \cup trained \cup dropped
      BY DEF IInv, Conservation
    <3> QED
      BY <1>1, <1>4, <3>1 DEF Places
  <2>6. Total(retryBuffer', running', buffer', taken', trained', dropped') <= drawn'
    <3>1. drawn = Len(retryBuffer) + Len(running) + Len(buffer) + Len(taken)
                    + Cardinality(trained) + Cardinality(dropped)
      BY DEF IInv, Conservation
    <3>2. Total(retryBuffer', running', buffer', taken', trained', dropped')
             = Len(retryBuffer) + Len(running) + Len(buffer) + 0 + Cardinality(trained') + Cardinality(dropped)
      BY <1>1, <1>4 DEF Total
    <3>3. drawn' = drawn
      BY <1>1
    <3> DEFINE ct == Cardinality(trained)
               cu == Cardinality(trained')
               cd == Cardinality(dropped)
               cg == Cardinality(GroupsOf(taken))
    <3>4. cu <= ct + cg /\ cg <= Len(taken) /\ ct \in Nat /\ cu \in Nat /\ cd \in Nat /\ cg \in Nat
      BY <2>1, <2>3, <2>4
    <3>5. drawn = Len(retryBuffer) + Len(running) + Len(buffer) + Len(taken) + ct + cd
      BY <3>1
    <3>6. Total(retryBuffer', running', buffer', taken', trained', dropped')
             = Len(retryBuffer) + Len(running) + Len(buffer) + 0 + cu + cd
      BY <3>2
    <3> HIDE DEF ct, cu, cd, cg
    <3>7. Len(retryBuffer) + Len(running) + Len(buffer) + 0 + cu + cd <= drawn
      BY <1>2, <3>4, <3>5
    <3> QED
      BY <3>3, <3>6, <3>7
  <2>7. AllPlaced(drawn', retryBuffer', running', buffer', taken', trained', dropped')
    <3>1. trained' \in SUBSET Groups
      BY <1>6 DEF TypeOK
    <3> QED
      BY <1>6, <2>5, <2>6, <3>1, PlacesKept
  <2> QED
    BY <2>7 DEF AllPlaced, Conservation, Places, Total
<1>8. FinishedHaveNoneLeft' /\ Finished' = Finished /\ SampleAccounting' /\ BufferBound'
  BY <1>1 DEF IInv, FinishedHaveNoneLeft, Finished, SampleAccounting, Unfinished, BufferBound
<1>9. WorkerPutsFinished' /\ OneBatch'
  BY <1>1, <1>8 DEF IInv, WorkerPutsFinished, OneBatch
<1>10. AdmissionWindow' /\ NoMissedWakeup'
  <2>1. AdmissionSlots' = AdmissionSlots /\ CapacitySlots' = CapacitySlots
    BY <1>1 DEF AdmissionSlots, CapacitySlots, InFlight, Window, Occupied
  <2> QED
    BY <1>1, <2>1 DEF IInv, AdmissionWindow, NoMissedWakeup
<1>11. InTime'
  <2>1. NextVersion' = NextVersion
    BY <1>1 DEF NextVersion
  <2> QED
    BY <1>1, <2>1 DEF IInv, InTime
<1> QED
  BY <1>6, <1>7, <1>8, <1>9, <1>10, <1>11 DEF IInv

\* Running tasks that go on or end are still the same tasks.
LEMMA TasksFrame ==
    ASSUME NEW old \in SUBSET Groups, Sound(old), TypeOK', DOMAIN running' = DOMAIN running,
           \A j \in DOMAIN running : running'[j].g = running[j].g,
           UNCHANGED <<drawn, retryBuffer, buffer, taken, dropped, getPending>>
    PROVE  /\ AllPlaced(drawn', retryBuffer', running', buffer', taken', old, dropped')
           /\ OneBatch' /\ BufferBound' /\ Len(running') = Len(running)
<1>1. Len(running') = Len(running)
  <2>1. running \in Seq(Tasks) /\ running' \in Seq(Tasks)
    BY DEF Sound, Core, TypeOK
  <2>2. /\ Len(running) \in Nat /\ DOMAIN running = 1..Len(running)
        /\ Len(running') \in Nat /\ DOMAIN running' = 1..Len(running')
    BY <2>1, LenProperties
  <2> QED
    BY <2>2
<1>2. GroupsOf(running') = GroupsOf(running)
  BY DEF GroupsOf
<1>3. AllPlaced(drawn', retryBuffer', running', buffer', taken', old, dropped')
  BY <1>1, <1>2 DEF Sound, AllPlaced, Places, Total
<1>4. OneBatch' /\ BufferBound'
  BY DEF Sound, Core, OneBatch, BufferBound
<1> QED
  BY <1>1, <1>3, <1>4

\* The window depends on how many tasks there are.
LEMMA WindowFrame ==
    ASSUME Len(running') = Len(running), UNCHANGED <<buffer, taken, version, worker, getPending>>
    PROVE  /\ AdmissionWindow => AdmissionWindow'
           /\ InTime => InTime'
           /\ AdmissionSlots' = AdmissionSlots
<1>1. (AdmissionWindow => AdmissionWindow') /\ AdmissionSlots' = AdmissionSlots
  BY DEF AdmissionWindow, AdmissionSlots, Occupied, Window
<1>2. InTime => InTime'
  BY DEF InTime, NextVersion
<1> QED
  BY <1>1, <1>2

\* A sample of a running task ends.
LEMMA SampleFinishesSound ==
    ASSUME NEW old \in SUBSET Groups, Sound(old), NEW i \in DOMAIN running, SampleFinishes(i)
    PROVE  SoundNext(old) /\ Len(running') = Len(running)
<1> DEFINE t == [running[i] EXCEPT !.left = running[i].left - 1]
<1>1. /\ running[i].out = "generating" /\ running[i].left > 0
      /\ running' = [running EXCEPT ![i] = t]
      /\ samplesInFlight' = samplesInFlight - 1 /\ sampleDone' = TRUE
      /\ UNCHANGED <<drawn, retryBuffer, buffer, taken, trained, dropped, version, worker, done, putting,
                     admissionChanged, getPending, resumed>>
  BY DEF SampleFinishes
<1>2. running \in Seq(Tasks) /\ running[i] \in Tasks /\ i \in 1..Len(running) /\ Len(running) \in Nat
  <2>1. running \in Seq(Tasks)
    BY DEF Sound, Core, TypeOK
  <2> QED
    BY <2>1, LenProperties, ElementOfSeq
<1>3. t \in Tasks /\ t.g = running[i].g /\ t.out = "generating" /\ t.left = running[i].left - 1
  <2>1. /\ running[i].g \in Groups /\ running[i].ver \in Versions /\ running[i].left \in 0..GroupSize
        /\ "generating" \in Outcomes
    BY <1>2 DEF Tasks, Outcomes
  <2>2. running[i].left - 1 \in 0..GroupSize
    BY <1>1, <2>1, SizesAssumption
  <2>3. t = [g |-> running[i].g, ver |-> running[i].ver, left |-> running[i].left - 1, out |-> "generating"]
    <3>1. running[i] = [g |-> running[i].g, ver |-> running[i].ver, left |-> running[i].left,
                        out |-> running[i].out]
      BY <1>2 DEF Tasks
    <3>2. ASSUME NEW r, NEW g, NEW ver, NEW left, NEW out, NEW x,
                 r = [g |-> g, ver |-> ver, left |-> left, out |-> out]
          PROVE  [r EXCEPT !.left = x] = [g |-> g, ver |-> ver, left |-> x, out |-> out]
      BY <3>2
    <3> QED
      BY <1>1, <3>1, <3>2
  <2> HIDE DEF t
  <2> QED
    BY <2>1, <2>2, <2>3 DEF Tasks
<1>4. /\ running' \in Seq(Tasks) /\ DOMAIN running' = DOMAIN running
      /\ \A j \in DOMAIN running : running'[j] = IF j = i THEN t ELSE running[j]
  <2> HIDE DEF t
  <2> QED
    BY <1>1, <1>2, <1>3
<1> HIDE DEF t
<1>5. \A j \in DOMAIN running : running'[j].g = running[j].g /\ running'[j].out = running[j].out
  BY <1>1, <1>3, <1>4
<1>6. \A j, k \in DOMAIN running : running[j].g = running[k].g => j = k
  BY OneTaskEach
<1> DEFINE c == <<running[i].g, running[i].left>>
<1>7. Unfinished' = Unfinished \ {c} /\ c \in Unfinished
  <2>0. /\ running[i].g \in Groups /\ running[i].left \in 1..GroupSize
        /\ \A j \in DOMAIN running : running[j].left \in Nat
    <3>1. \A j \in DOMAIN running : running[j] \in Tasks
      BY <1>2, LenProperties, ElementOfSeq
    <3> QED
      BY <1>1, <1>2, <3>1, SizesAssumption DEF Tasks
  <2>1. c \in Unfinished
    <3>1. c \in Groups \X (1..GroupSize) /\ c[1] = running[i].g /\ c[2] = running[i].left
      BY <2>0
    <3>2. c[2] <= running[i].left
      BY <2>0, <3>1
    <3> HIDE DEF c
    <3> QED
      BY <3>1, <3>2 DEF Unfinished
  <2>2. ASSUME NEW g \in Groups, NEW k \in 1..GroupSize
        PROVE  <<g, k>> \in Unfinished' <=> <<g, k>> \in Unfinished /\ <<g, k>> # c
    <3>1. /\ <<g, k>> \in Unfinished <=> \E j \in DOMAIN running : running[j].g = g /\ k <= running[j].left
          /\ <<g, k>> \in Unfinished' <=> \E j \in DOMAIN running : running'[j].g = g /\ k <= running'[j].left
      <4>1. <<g, k>> \in Groups \X (1..GroupSize) /\ <<g, k>>[1] = g /\ <<g, k>>[2] = k
        OBVIOUS
      <4> QED
        BY <4>1, <1>4 DEF Unfinished
    <3>2. <<g, k>> = c <=> g = running[i].g /\ k = running[i].left
      OBVIOUS
    <3>3. CASE g = running[i].g
      <4>1. <<g, k>> \in Unfinished <=> k <= running[i].left
        BY <3>1, <3>3, <1>6
      <4>2. <<g, k>> \in Unfinished' <=> k <= running[i].left - 1
        <5>1. \A j \in DOMAIN running : running'[j].g = g => j = i
          BY <3>3, <1>5, <1>6
        <5>2. running'[i].g = g /\ running'[i].left = running[i].left - 1
          BY <3>3, <1>3, <1>4
        <5> QED
          BY <3>1, <5>1, <5>2
      <4>3. k \in Nat /\ running[i].left \in Nat
        BY <2>0
      <4>4. k <= running[i].left - 1 <=> k <= running[i].left /\ k # running[i].left
        BY <4>3
      <4> QED
        BY <3>2, <3>3, <4>1, <4>2, <4>4
    <3>4. CASE g # running[i].g
      <4>1. \A j \in DOMAIN running : running[j].g = g => running'[j] = running[j]
        BY <3>4, <1>4
      <4>2. \A j \in DOMAIN running : running'[j].g = g => running[j].g = g
        BY <1>5
      <4>3. <<g, k>> \in Unfinished' <=> <<g, k>> \in Unfinished
        BY <3>1, <4>1, <4>2
      <4> QED
        BY <3>2, <3>4, <4>3
    <3> QED
      BY <3>3, <3>4
  <2>3. Unfinished \subseteq Groups \X (1..GroupSize) /\ Unfinished' \subseteq Groups \X (1..GroupSize)
    BY DEF Unfinished
  <2> HIDE DEF c
  <2>4. \A x \in Groups \X (1..GroupSize) : x \in Unfinished' <=> x \in Unfinished /\ x # c
    BY <2>2
  <2> QED
    BY <2>1, <2>3, <2>4
<1> HIDE DEF c
<1>8. /\ samplesInFlight' = Cardinality(Unfinished') /\ samplesInFlight' \in Nat
      /\ samplesInFlight' <= Budget * GroupSize
  <2>1. IsFiniteSet(Unfinished) /\ Cardinality(Unfinished) \in Nat
    BY UnfinishedIsFinite
  <2>2. Cardinality(Unfinished \ {c}) = Cardinality(Unfinished) - 1 /\ Cardinality(Unfinished \ {c}) \in Nat
    <3>1. IsFiniteSet(Unfinished \ {c}) /\ Cardinality(Unfinished \ {c}) = Cardinality(Unfinished) - 1
      BY <2>1, <1>7, FS_RemoveElement
    <3> QED
      BY <3>1, FS_CardinalityType
  <2>3. samplesInFlight = Cardinality(Unfinished) /\ samplesInFlight <= Budget * GroupSize /\ Budget * GroupSize \in Nat
    BY SizesAssumption DEF Sound, Core, SampleAccounting
  <2>4. samplesInFlight' = Cardinality(Unfinished \ {c}) /\ Unfinished' = Unfinished \ {c}
    BY <1>1, <1>7, <2>2, <2>3
  <2> QED
    BY <2>1, <2>2, <2>3, <2>4
<1>9. TypeOK'
  BY <1>1, <1>4, <1>8 DEF Sound, Core, TypeOK
<1>10. /\ AllPlaced(drawn', retryBuffer', running', buffer', taken', old, dropped')
       /\ OneBatch' /\ BufferBound' /\ Len(running') = Len(running)
  BY <1>1, <1>4, <1>5, <1>9, TasksFrame
<1>11. FinishedHaveNoneLeft' /\ Finished' = Finished
  <2>1. FinishedHaveNoneLeft'
    BY <1>1, <1>4, <1>5 DEF Sound, Core, FinishedHaveNoneLeft
  <2> QED
    BY <2>1, <1>4, <1>5 DEF Finished
<1>12. WorkerPutsFinished' /\ SampleAccounting'
  BY <1>1, <1>8, <1>11 DEF Sound, Core, WorkerPutsFinished, SampleAccounting
<1> QED
  BY <1>9, <1>10, <1>11, <1>12 DEF SoundNext, Core

\* The end of one sample's generation keeps the invariant.
LEMMA SampleFinishesKeeps == ASSUME IInv, NEW i \in DOMAIN running, SampleFinishes(i) PROVE IInv'
<1>1. SoundNext(trained) /\ Len(running') = Len(running)
  BY IInvIsSound, SampleFinishesSound
<1>2. /\ UNCHANGED <<buffer, taken, trained, version, worker, getPending, admissionChanged>>
      /\ sampleDone' = TRUE
  BY DEF SampleFinishes
<1>3. AdmissionWindow' /\ InTime' /\ AdmissionSlots' = AdmissionSlots
  BY <1>1, <1>2, WindowFrame DEF IInv
<1>4. NoMissedWakeup'
  BY <1>2, <1>3 DEF IInv, NoMissedWakeup
<1> QED
  BY <1>1, <1>2, <1>3, <1>4, IInvIsSound

\* A group task ends.
LEMMA GroupFinishesSound ==
    ASSUME NEW old \in SUBSET Groups, Sound(old),
           NEW i \in DOMAIN running, NEW out \in Outcomes \ {"generating"}, GroupFinishes(i, out)
    PROVE  SoundNext(old) /\ Len(running') = Len(running)
<1>1. PICK v \in running[i].ver..version : running' = [running EXCEPT ![i].out = out, ![i].ver = v]
  BY DEF GroupFinishes
<1> DEFINE t == [g |-> running[i].g, ver |-> v, left |-> running[i].left, out |-> out]
<1>2. /\ running[i].out = "generating" /\ running[i].left = 0
      /\ UNCHANGED <<drawn, retryBuffer, buffer, taken, trained, dropped, version, worker, done, putting,
                     admissionChanged, getPending, resumed, samplesInFlight, sampleDone>>
  BY DEF GroupFinishes
<1>3. running \in Seq(Tasks) /\ running[i] \in Tasks /\ i \in 1..Len(running) /\ Len(running) \in Nat
  <2>1. running \in Seq(Tasks)
    BY DEF Sound, Core, TypeOK
  <2> QED
    BY <2>1, LenProperties, ElementOfSeq
<1>4. t \in Tasks
  <2>1. /\ running[i].g \in Groups /\ running[i].ver \in Versions /\ running[i].left \in 0..GroupSize
    BY <1>3 DEF Tasks
  <2>2. version \in Versions
    BY DEF Sound, Core, TypeOK
  <2>3. v \in Versions
    BY <2>1, <2>2, SizesAssumption DEF Versions
  <2> QED
    BY <2>1, <2>3 DEF Tasks
<1>5. running' = [running EXCEPT ![i] = t]
  <2>1. running[i] = [g |-> running[i].g, ver |-> running[i].ver, left |-> running[i].left,
                      out |-> running[i].out]
    BY <1>3 DEF Tasks
  <2>2. ASSUME NEW r, NEW g, NEW ver, NEW left, NEW o, NEW x, r = [g |-> g, ver |-> ver, left |-> left, out |-> o]
        PROVE  [r EXCEPT !.out = x] = [g |-> g, ver |-> ver, left |-> left, out |-> x]
    BY <2>2
  <2>3. ASSUME NEW r, NEW g, NEW ver, NEW left, NEW o, NEW x, r = [g |-> g, ver |-> ver, left |-> left, out |-> o]
        PROVE  [r EXCEPT !.ver = x] = [g |-> g, ver |-> x, left |-> left, out |-> o]
    BY <2>3
  <2> DEFINE r == [running[i] EXCEPT !.out = out]
  <2>5. r = [g |-> running[i].g, ver |-> running[i].ver, left |-> running[i].left, out |-> out]
    BY <2>1, <2>2
  <2> HIDE DEF r
  <2>6. [r EXCEPT !.ver = v] = t
    BY <2>3, <2>5
  <2>4. running' = [running EXCEPT ![i] = [[running[i] EXCEPT !.out = out] EXCEPT !.ver = v]]
    BY <1>1, <1>3, LenProperties
  <2> QED
    BY <2>4, <2>6 DEF r
<1>6. t.g = running[i].g /\ t.left = running[i].left /\ t.out # "generating"
  OBVIOUS
<1> HIDE DEF t
<1>7. /\ running' \in Seq(Tasks) /\ DOMAIN running' = DOMAIN running
      /\ \A j \in DOMAIN running : running'[j] = IF j = i THEN t ELSE running[j]
  BY <1>3, <1>4, <1>5
<1>8. /\ \A j \in DOMAIN running : running'[j].g = running[j].g /\ running'[j].left = running[j].left
      /\ \A j \in DOMAIN running : running[j].out # "generating" => running'[j].out # "generating"
  BY <1>2, <1>6, <1>7
<1>9. TypeOK'
  BY <1>2, <1>7 DEF Sound, Core, TypeOK
<1>10. /\ AllPlaced(drawn', retryBuffer', running', buffer', taken', old, dropped')
       /\ OneBatch' /\ BufferBound' /\ Len(running') = Len(running)
  BY <1>2, <1>7, <1>8, <1>9, TasksFrame
<1>11. FinishedHaveNoneLeft' /\ Finished \subseteq Finished'
  <2>1. FinishedHaveNoneLeft'
    BY <1>2, <1>7, <1>8 DEF Sound, Core, FinishedHaveNoneLeft
  <2> QED
    BY <2>1, <1>7, <1>8 DEF Finished
<1>12. Unfinished' = Unfinished
  BY <1>7, <1>8 DEF Unfinished
<1>13. WorkerPutsFinished' /\ SampleAccounting'
  BY <1>2, <1>11, <1>12 DEF Sound, Core, WorkerPutsFinished, SampleAccounting
<1> QED
  BY <1>9, <1>10, <1>11, <1>13 DEF SoundNext, Core

\* The end of a group's generation, whatever came out of it, keeps the invariant.
LEMMA GroupFinishesKeeps ==
    ASSUME IInv, NEW i \in DOMAIN running, NEW out \in Outcomes \ {"generating"}, GroupFinishes(i, out)
    PROVE  IInv'
<1>1. SoundNext(trained) /\ Len(running') = Len(running)
  BY IInvIsSound, GroupFinishesSound
<1>2. UNCHANGED <<buffer, taken, trained, version, worker, getPending, admissionChanged, sampleDone, samplesInFlight>>
  BY DEF GroupFinishes
<1>3. AdmissionWindow' /\ InTime' /\ AdmissionSlots' = AdmissionSlots
  BY <1>1, <1>2, WindowFrame DEF IInv
<1>4. running' = <<>> <=> running = <<>>
  <2>1. running \in Seq(Tasks) /\ running' \in Seq(Tasks)
    BY <1>1 DEF IInv, SoundNext, Core, TypeOK
  <2> QED
    BY <1>1, <2>1, EmptySeq
<1>5. NoMissedWakeup'
  <2>1. CapacitySlots' = CapacitySlots
    BY <1>2, <1>4 DEF CapacitySlots, InFlight
  <2> QED
    BY <1>2, <1>3, <1>4, <2>1 DEF IInv, NoMissedWakeup
<1> QED
  BY <1>1, <1>2, <1>3, <1>5, IInvIsSound

\* A group that was put is no longer running; the other tasks are as they were.
LEMMA RetireIs ==
    ASSUME NEW old \in SUBSET Groups, Sound(old), NEW g \in done, Retire(g)
    PROVE  /\ running' \in Seq(Tasks) /\ Len(running') = Len(running) - 1
           /\ GroupsOf(running) = GroupsOf(running') \cup {g}
           /\ FinishedHaveNoneLeft' /\ done' \subseteq Finished' /\ done' = done \ {g}
           /\ Unfinished' = Unfinished
<1> DEFINE i == TaskOf(g)
           K == {j \in DOMAIN running : running[j].g # g}
<1>1. g \in Finished /\ running \in Seq(Tasks) /\ done \subseteq Finished
  BY DEF Sound, Core, WorkerPutsFinished, TypeOK
<1>2. /\ i \in DOMAIN running /\ running[i].g = g /\ running[i].out # "generating" /\ running[i].left = 0
      /\ \A j \in DOMAIN running : running[j].g = g => j = i
  BY <1>1, TaskIs
<1>3. running' = Selected(running, K) /\ done' = done \ {g}
  BY DEF Retire
<1> HIDE DEF i
<1>4. K \in SUBSET DOMAIN running /\ DOMAIN running \ K = {i}
  BY <1>2
<1>5. \A j \in DOMAIN running : j \in K <=> running[j].g # g
  OBVIOUS
<1> HIDE DEF K
<1>6. /\ Selected(running, K) \in Seq(Tasks) /\ Len(Selected(running, K)) = Cardinality(K)
      /\ Range(Selected(running, K)) = {running[j] : j \in K} /\ Cardinality(K) \in 0..Len(running)
  BY <1>1, <1>4, SelectedIs
<1>7. Cardinality({i}) = Len(running) - Cardinality(K)
  BY <1>1, <1>4, SelectedSplit
<1>8. Len(running') = Len(running) - 1
  <2>1. Cardinality({i}) = 1
    BY FS_Singleton
  <2>2. Len(running) \in Nat
    BY <1>1, LenProperties
  <2> QED
    BY <1>3, <1>6, <1>7, <2>1, <2>2
<1>9. Range(running') = {running[j] : j \in K}
  BY <1>3, <1>6
<1>10. GroupsOf(running) = GroupsOf(running') \cup {g}
  <2>1. GroupsOf(running') = {x.g : x \in Range(running')}
    BY GroupsOfRange
  <2>2. GroupsOf(running') = {running[j].g : j \in K}
    BY <2>1, <1>9
  <2>3. GroupsOf(running) = {running[j].g : j \in DOMAIN running}
    BY DEF GroupsOf
  <2>4. \A j \in DOMAIN running : j \in K \/ running[j].g = g
    BY <1>5
  <2> QED
    BY <1>2, <1>4, <2>2, <2>3, <2>4
<1>11. /\ \A j \in DOMAIN running' : \E k \in K : running'[j] = running[k]
       /\ \A k \in K : \E j \in DOMAIN running' : running'[j] = running[k]
  BY <1>9 DEF Range
<1>12. FinishedHaveNoneLeft'
  <2>1. \A k \in DOMAIN running : running[k].out # "generating" => running[k].left = 0
    BY DEF Sound, Core, FinishedHaveNoneLeft
  <2>2. \A j \in DOMAIN running' : running'[j].out # "generating" => running'[j].left = 0
    BY <1>4, <1>11, <2>1
  <2> QED
    BY <2>2 DEF FinishedHaveNoneLeft
<1>13. done' \subseteq Finished'
  <2>1. ASSUME NEW h \in done, h # g PROVE h \in Finished'
    <3>1. PICK k \in DOMAIN running : running[k].out # "generating" /\ running[k].g = h
      BY <1>1 DEF Finished
    <3>2. k \in K
      BY <2>1, <3>1, <1>5
    <3>3. PICK j \in DOMAIN running' : running'[j] = running[k]
      BY <3>2, <1>11
    <3> QED
      BY <3>1, <3>3 DEF Finished
  <2> QED
    BY <2>1, <1>3
<1>14. Unfinished' = Unfinished
  <2>1. ASSUME NEW c \in Groups \X (1..GroupSize)
        PROVE  c \in Unfinished' <=> c \in Unfinished
    <3>1. /\ c \in Unfinished <=> \E j \in DOMAIN running : running[j].g = c[1] /\ c[2] <= running[j].left
          /\ c \in Unfinished' <=> \E j \in DOMAIN running' : running'[j].g = c[1] /\ c[2] <= running'[j].left
      BY DEF Unfinished
    <3>2. ASSUME NEW j \in DOMAIN running, running[j].g = c[1], c[2] <= running[j].left
          PROVE  j \in K
      <4>1. c[2] \in 1..GroupSize
        OBVIOUS
      <4>2. ~(c[2] <= 0)
        BY <4>1, SizesAssumption
      <4>3. j # i
        BY <1>2, <3>2, <4>2
      <4> QED
        BY <1>2, <1>5, <4>3
    <3>3. c \in Unfinished => c \in Unfinished'
      <4>1. SUFFICES ASSUME c \in Unfinished PROVE c \in Unfinished'
        OBVIOUS
      <4>2. PICK j \in DOMAIN running : running[j].g = c[1] /\ c[2] <= running[j].left
        BY <3>1, <4>1
      <4>3. PICK k \in DOMAIN running' : running'[k] = running[j]
        BY <3>2, <4>2, <1>11
      <4> QED
        BY <3>1, <4>2, <4>3
    <3>4. c \in Unfinished' => c \in Unfinished
      <4>1. SUFFICES ASSUME c \in Unfinished' PROVE c \in Unfinished
        OBVIOUS
      <4>2. PICK j \in DOMAIN running' : running'[j].g = c[1] /\ c[2] <= running'[j].left
        BY <3>1, <4>1
      <4>3. PICK k \in K : running'[j] = running[k]
        BY <4>2, <1>11
      <4> QED
        BY <3>1, <4>2, <4>3, <1>4
    <3> QED
      BY <3>3, <3>4
  <2>2. Unfinished \subseteq Groups \X (1..GroupSize) /\ Unfinished' \subseteq Groups \X (1..GroupSize)
    BY DEF Unfinished
  <2> QED
    BY <2>1, <2>2
<1> QED
  BY <1>3, <1>6, <1>8, <1>10, <1>12, <1>13, <1>14

\* Groups that left the rollout side are finitely many.
LEMMA GroupsAreFinite ==
    ASSUME NEW A \in SUBSET Groups
    PROVE  IsFiniteSet(A) /\ Cardinality(A) \in Nat
<1>1. IsFiniteSet(Groups)
  <2>1. 1 \in Int /\ MaxDraws \in Int
    BY SizesAssumption
  <2> QED
    BY <2>1, FS_Interval DEF Groups
<1> QED
  BY <1>1, FS_Subset, FS_CardinalityType

\* Groups given to the unused handler are kept for another try, or dropped.
LEMMA HandledAre ==
    ASSUME TypeOK, NEW gs \in Seq(Groups), HandleUnused(gs)
    PROVE  /\ retryBuffer' \in Seq(Groups) /\ dropped' \in SUBSET Groups
           /\ Len(retryBuffer) \in Nat /\ Len(retryBuffer') \in Nat /\ Len(gs) \in Nat
           /\ Cardinality(dropped) \in Nat /\ Cardinality(dropped') \in Nat
           /\ Range(retryBuffer') \cup dropped' = Range(retryBuffer) \cup dropped \cup Range(gs)
           /\ Len(retryBuffer') + Cardinality(dropped') <= Len(retryBuffer) + Cardinality(dropped) + Len(gs)
<1>1. retryBuffer \in Seq(Groups) /\ dropped \in SUBSET Groups /\ RetryUnused \in BOOLEAN
  BY FlagsAssumption DEF TypeOK
<1>2. IsFiniteSet(dropped) /\ Cardinality(dropped) \in Nat /\ Len(retryBuffer) \in Nat /\ Len(gs) \in Nat
  BY <1>1, GroupsAreFinite, LenProperties
<1>3. CASE RetryUnused
  <2>1. retryBuffer' = retryBuffer \o gs /\ dropped' = dropped
    BY <1>3 DEF HandleUnused
  <2>2. /\ retryBuffer \o gs \in Seq(Groups) /\ Len(retryBuffer \o gs) = Len(retryBuffer) + Len(gs)
        /\ Range(retryBuffer \o gs) = Range(retryBuffer) \cup Range(gs)
    BY <1>1, RangeOfConcat
  <2>3. Range(retryBuffer') \cup dropped' = Range(retryBuffer) \cup dropped \cup Range(gs)
    BY <2>1, <2>2
  <2>4. Len(retryBuffer') = Len(retryBuffer) + Len(gs) /\ Cardinality(dropped') = Cardinality(dropped)
    BY <2>1, <2>2
  <2>5. /\ Len(retryBuffer') \in Nat
        /\ Len(retryBuffer') + Cardinality(dropped') <= Len(retryBuffer) + Cardinality(dropped) + Len(gs)
    BY <1>2, <2>4
  <2> QED
    BY <1>1, <1>2, <2>1, <2>2, <2>3, <2>4, <2>5
<1>4. CASE ~RetryUnused
  <2>1. dropped' = dropped \cup Range(gs) /\ retryBuffer' = retryBuffer
    BY <1>4 DEF HandleUnused
  <2>2. Range(gs) \in SUBSET Groups /\ IsFiniteSet(Range(gs)) /\ Cardinality(Range(gs)) <= Len(gs)
    BY RangeIsSmall
  <2>3. /\ Cardinality(dropped \cup Range(gs)) <= Cardinality(dropped) + Cardinality(Range(gs))
        /\ Cardinality(dropped \cup Range(gs)) \in Nat /\ Cardinality(Range(gs)) \in Nat
    BY <1>2, <2>2, UnionIsSmall
  <2>4. Len(retryBuffer') + Cardinality(dropped') <= Len(retryBuffer) + Cardinality(dropped) + Len(gs)
    BY <1>2, <2>1, <2>2, <2>3
  <2> QED
    BY <1>1, <1>2, <2>1, <2>2, <2>3, <2>4
<1> QED
  BY <1>1, <1>3, <1>4

\* An entry added to the buffer waits for no more batches than the window holds.
LEMMA StoredInTime ==
    ASSUME IInv, NEW e \in Entries, e.at = version, buffer' = Append(buffer, e),
           Occupied >= Len(buffer) + 1, worker # "dead", UNCHANGED <<taken, version>>
    PROVE  InTime'
<1>1. /\ buffer \in Seq(Entries) /\ Len(buffer) \in Nat /\ version \in Nat /\ Occupied \in Nat /\ Window \in Nat
  BY SlotsAre DEF IInv, TypeOK, Versions
<1>2. /\ buffer' \in Seq(Entries) /\ Len(buffer') = Len(buffer) + 1
      /\ \A i \in 1..Len(buffer) : buffer'[i] = buffer[i]
      /\ buffer'[Len(buffer) + 1] = e
  BY <1>1, RangeOfAppend
<1>3. DOMAIN buffer = 1..Len(buffer) /\ DOMAIN buffer' = 1..(Len(buffer) + 1)
  BY <1>1, <1>2, LenProperties
<1>4. NextVersion' = NextVersion
  BY DEF NextVersion
<1>5. SUFFICES ASSUME WithinStaleness, NEW i \in DOMAIN buffer'
               PROVE  (NextVersion - buffer'[i].at) * Batch + i <= (MaxStaleness + 1) * Batch
  BY <1>4 DEF InTime
<1>6. CASE i \in 1..Len(buffer)
  BY <1>2, <1>3, <1>5, <1>6 DEF IInv, InTime
<1>7. CASE i = Len(buffer) + 1
  <2>1. buffer'[i].at = version
    BY <1>2, <1>7
  <2>2. i <= Window
    BY <1>1, <1>5, <1>7, WindowKept DEF IInv
  <2>3. Batch \in Nat /\ MaxStaleness \in Nat
    BY SizesAssumption
  <2>4. CASE taken = <<>>
    <3>1. (NextVersion - version) * Batch = 0
      BY <1>1, <2>3, <2>4 DEF NextVersion
    <3>2. Window = MaxStaleness * Batch \/ Window = (MaxStaleness + 1) * Batch
      BY <2>3 DEF Window
    <3>3. MaxStaleness * Batch <= (MaxStaleness + 1) * Batch /\ MaxStaleness * Batch \in Nat
      BY <2>3
    <3>4. (MaxStaleness + 1) * Batch \in Nat
      BY <2>3
    <3>5. 0 + i <= (MaxStaleness + 1) * Batch
      BY <1>1, <1>7, <2>2, <3>2, <3>3, <3>4
    <3> QED
      BY <2>1, <3>1, <3>5
  <2>5. CASE taken # <<>>
    <3>1. (NextVersion - version) * Batch = Batch
      <4>1. NextVersion - version = 1
        BY <1>1, <2>5 DEF NextVersion
      <4> QED
        BY <2>3, <4>1
    <3>2. Window = MaxStaleness * Batch
      BY <2>3, <2>5 DEF Window, IInv, OneBatch
    <3>3. (MaxStaleness + 1) * Batch = MaxStaleness * Batch + Batch /\ MaxStaleness * Batch \in Nat
      BY <2>3
    <3>4. Batch + i <= (MaxStaleness + 1) * Batch
      BY <1>1, <1>7, <2>2, <2>3, <3>2, <3>3
    <3> QED
      BY <2>1, <3>1, <3>4
  <2> QED
    BY <2>4, <2>5
<1> QED
  BY <1>1, <1>3, <1>5, <1>6, <1>7

\* A group leaves the running tasks for one of the other places.
LEMMA MoveSound ==
    ASSUME NEW old \in SUBSET Groups, Sound(old), NEW g \in done, Retire(g),
           UNCHANGED <<drawn, samplesInFlight, sampleDone, worker, taken, trained, version, resumed, getPending>>,
           retryBuffer' \in Seq(Groups), dropped' \in SUBSET Groups, buffer' \in Seq(Entries),
           admissionChanged' \in BOOLEAN, putting' = NoGroup,
           Range(retryBuffer') \cup dropped' \cup GroupsOf(buffer')
              = Range(retryBuffer) \cup dropped \cup GroupsOf(buffer) \cup {g},
           Len(retryBuffer') + Cardinality(dropped') + Len(buffer')
              <= Len(retryBuffer) + Cardinality(dropped) + Len(buffer) + 1,
           Len(buffer') <= Capacity
    PROVE  SoundNext(old) /\ Len(running') = Len(running) - 1
<1>1. /\ running' \in Seq(Tasks) /\ Len(running') = Len(running) - 1
      /\ GroupsOf(running) = GroupsOf(running') \cup {g}
      /\ FinishedHaveNoneLeft' /\ done' \subseteq Finished' /\ done' = done \ {g}
      /\ Unfinished' = Unfinished
  BY RetireIs
<1>2. TypeOK'
  BY <1>1 DEF Sound, Core, TypeOK
<1>3. /\ Len(buffer) \in Nat /\ Len(running) \in Nat /\ Len(retryBuffer) \in Nat /\ Len(taken) \in Nat
      /\ Occupied \in Nat
  BY SlotsAre DEF Sound, Core
<1>4. /\ Len(buffer') \in Nat /\ Len(retryBuffer') \in Nat /\ Len(running') \in Nat
      /\ Cardinality(dropped) \in Nat /\ Cardinality(dropped') \in Nat /\ Cardinality(old) \in Nat
  BY <1>1, LenProperties, GroupsAreFinite DEF Sound, Core, TypeOK
<1>5. AllPlaced(drawn', retryBuffer', running', buffer', taken', old, dropped')
  <2>1. /\ 1..drawn = Range(retryBuffer) \cup GroupsOf(running) \cup GroupsOf(buffer)
                        \cup GroupsOf(taken) \cup old \cup dropped
        /\ drawn = Len(retryBuffer) + Len(running) + Len(buffer) + Len(taken)
                     + Cardinality(old) + Cardinality(dropped)
    BY DEF Sound, AllPlaced, Places, Total
  <2>2. 1..drawn' = Places(retryBuffer', running', buffer', taken', old, dropped')
    BY <1>1, <2>1 DEF Places
  <2>3. Total(retryBuffer', running', buffer', taken', old, dropped') <= drawn'
    <3>1. Total(retryBuffer', running', buffer', taken', old, dropped')
             = Len(retryBuffer') + Len(running') + Len(buffer') + Len(taken) + Cardinality(old) + Cardinality(dropped')
      BY DEF Total
    <3> DEFINE cd == Cardinality(dropped)
               ce == Cardinality(dropped')
               ct == Cardinality(old)
    <3>2. /\ drawn' = Len(retryBuffer) + Len(running) + Len(buffer) + Len(taken) + ct + cd
          /\ Len(retryBuffer') + ce + Len(buffer') <= Len(retryBuffer) + cd + Len(buffer) + 1
          /\ cd \in Nat /\ ce \in Nat /\ ct \in Nat /\ Len(running') = Len(running) - 1
      BY <1>1, <1>4, <2>1
    <3>3. Total(retryBuffer', running', buffer', taken', old, dropped')
             = Len(retryBuffer') + Len(running') + Len(buffer') + Len(taken) + ct + ce
      BY <3>1
    <3> HIDE DEF cd, ce, ct
    <3>4. Len(retryBuffer') + Len(running') + Len(buffer') + Len(taken) + ct + ce <= drawn'
      BY <1>3, <1>4, <3>2
    <3> QED
      BY <3>3, <3>4
  <2> QED
    BY <1>2, <2>2, <2>3, PlacesKept
<1>6. WorkerPutsFinished' /\ OneBatch'
  BY <1>1 DEF WorkerPutsFinished, Sound, Core, OneBatch
<1>7. SampleAccounting' /\ BufferBound'
  BY <1>1 DEF Sound, Core, SampleAccounting, BufferBound
<1> QED
  BY <1>1, <1>2, <1>5, <1>6, <1>7 DEF SoundNext, Core

\* A group that leaves running, for the buffer or another place, keeps the invariant.
LEMMA MoveKeeps ==
    ASSUME IInv, worker = "put", UNCHANGED <<worker, taken, trained, version, getPending>>,
           SoundNext(trained), Len(running') = Len(running) - 1, Len(buffer') <= Len(buffer) + 1, InTime'
    PROVE  IInv'
<1>1. /\ Len(buffer) \in Nat /\ Len(running) \in Nat /\ Occupied \in Nat /\ Window \in Nat
  BY SlotsAre, IInvIsSound
<1>2. Len(buffer') \in Nat /\ Len(running') \in Nat
  BY LenProperties DEF SoundNext, Core, TypeOK
<1>3. AdmissionWindow'
  <2>1. Occupied' <= Occupied /\ Window' = Window
    <3>1. Window' = Window
      BY DEF Window
    <3>2. Len(buffer') + Len(running') <= Len(buffer) + Len(running)
      BY <1>1, <1>2
    <3> QED
      BY <3>1, <3>2 DEF Occupied
  <2>2. Occupied' \in Nat
    BY <1>2 DEF Occupied
  <2> QED
    BY <1>1, <2>1, <2>2, WindowKept DEF IInv
<1>4. NoMissedWakeup'
  BY DEF NoMissedWakeup
<1> QED
  BY <1>3, <1>4, IInvIsSound

\* A group is stored in the buffer.
LEMMA StoreIs ==
    ASSUME NEW old \in SUBSET Groups, Sound(old), NEW g \in done, Store(g)
    PROVE  /\ buffer' \in Seq(Entries) /\ Len(buffer') = Len(buffer) + 1
           /\ GroupsOf(buffer') = GroupsOf(buffer) \cup {g}
<1> DEFINE e == [g |-> g, ver |-> running[TaskOf(g)].ver, at |-> version]
<1>1. TaskOf(g) \in DOMAIN running /\ running[TaskOf(g)] \in Tasks /\ running[TaskOf(g)].g = g
  BY TaskIs DEF Sound, Core, WorkerPutsFinished
<1>2. e \in Entries /\ e.at = version /\ e.g = g
  BY <1>1 DEF Entries, Tasks, Sound, Core, TypeOK
<1>3. buffer' = Append(buffer, e)
  BY DEF Store
<1> HIDE DEF e
<1>4. buffer \in Seq(Entries) /\ Len(buffer) \in Nat /\ Len(running) \in Nat
  BY SlotsAre DEF Sound, Core, TypeOK
<1>5. /\ buffer' \in Seq(Entries) /\ Len(buffer') = Len(buffer) + 1
      /\ Range(buffer') = Range(buffer) \cup {e}
  BY <1>2, <1>3, <1>4, RangeOfAppend
<1>6. GroupsOf(buffer') = GroupsOf(buffer) \cup {g}
  <2>1. GroupsOf(buffer') = {x.g : x \in Range(buffer')} /\ GroupsOf(buffer) = {x.g : x \in Range(buffer)}
    BY GroupsOfRange
  <2> QED
    BY <1>2, <1>5, <2>1
<1> QED
  BY <1>5, <1>6

\* A group is stored while its task still counts.
LEMMA StoreInTime ==
    ASSUME IInv, NEW g \in done, Store(g), worker # "dead", UNCHANGED <<taken, version>>
    PROVE  InTime'
<1> DEFINE e == [g |-> g, ver |-> running[TaskOf(g)].ver, at |-> version]
<1>1. TaskOf(g) \in DOMAIN running /\ running[TaskOf(g)] \in Tasks
  <2>1. g \in Finished
    BY DEF IInv, WorkerPutsFinished
  <2> QED
    BY <2>1, IInvIsSound, TaskIs
<1>2. e \in Entries /\ e.at = version
  BY <1>1 DEF Entries, Tasks, IInv, TypeOK
<1>3. buffer' = Append(buffer, e)
  BY DEF Store
<1> HIDE DEF e
<1>4. Len(buffer) \in Nat /\ Len(running) \in Nat
  BY SlotsAre, IInvIsSound
<1>5. Occupied >= Len(buffer) + 1
  <2>1. Len(running) >= 1
    <3>1. running \in Seq(Tasks) /\ DOMAIN running = 1..Len(running)
      BY LenProperties DEF IInv, TypeOK
    <3> QED
      BY <1>1, <1>4, <3>1
  <2> QED
    BY <1>4, <2>1 DEF Occupied
<1> QED
  BY <1>2, <1>3, <1>5, StoredInTime

\* The worker puts a group that ended.
LEMMA PutSound ==
    ASSUME NEW old \in SUBSET Groups, Sound(old), NEW g \in done, Put(g)
    PROVE  SoundNext(old) /\ Len(running') = Len(running) - 1 /\ Len(buffer') <= Len(buffer) + 1
<1>1. /\ Retire(g) /\ worker = "put" /\ putting = NoGroup
      /\ UNCHANGED <<drawn, samplesInFlight, sampleDone, worker, taken, trained, version, resumed, getPending, putting>>
  BY DEF Put
<1>2. g \in Groups
  BY DEF Sound, Core, TypeOK
<1>3. /\ TypeOK /\ retryBuffer \in Seq(Groups) /\ dropped \in SUBSET Groups /\ buffer \in Seq(Entries)
      /\ Len(buffer) \in Nat /\ Len(retryBuffer) \in Nat /\ IsFiniteSet(dropped) /\ Cardinality(dropped) \in Nat
      /\ Len(buffer) <= Capacity
  BY SlotsAre, GroupsAreFinite DEF Sound, Core, TypeOK, BufferBound
<1>5. CASE HandleUnused(<<g>>) /\ admissionChanged' = TRUE /\ UNCHANGED buffer
  <2>1. <<g>> \in Seq(Groups) /\ Len(<<g>>) = 1 /\ Range(<<g>>) = {g}
    BY <1>2 DEF Range
  <2>2. /\ retryBuffer' \in Seq(Groups) /\ dropped' \in SUBSET Groups
        /\ Len(retryBuffer') \in Nat /\ Cardinality(dropped') \in Nat
        /\ Range(retryBuffer') \cup dropped' = Range(retryBuffer) \cup dropped \cup Range(<<g>>)
        /\ Len(retryBuffer') + Cardinality(dropped') <= Len(retryBuffer) + Cardinality(dropped) + Len(<<g>>)
    BY <1>3, <1>5, <2>1, HandledAre
  <2>3. Range(retryBuffer') \cup dropped' \cup GroupsOf(buffer')
           = Range(retryBuffer) \cup dropped \cup GroupsOf(buffer) \cup {g}
    BY <1>5, <2>1, <2>2
  <2>4. /\ Len(retryBuffer') + Cardinality(dropped') + Len(buffer')
             <= Len(retryBuffer) + Cardinality(dropped) + Len(buffer) + 1
        /\ Len(buffer') <= Len(buffer) + 1 /\ Len(buffer') <= Capacity
    BY <1>3, <1>5, <2>1, <2>2
  <2> QED
    BY <1>1, <1>3, <1>5, <2>2, <2>3, <2>4, MoveSound
<1>6. CASE dropped' = dropped \cup {g} /\ UNCHANGED <<retryBuffer, admissionChanged, buffer>>
  <2>1. Cardinality(dropped') \in Nat /\ Cardinality(dropped') <= Cardinality(dropped) + 1
    <3>1. Cardinality(dropped \cup {g}) = IF g \in dropped THEN Cardinality(dropped) ELSE Cardinality(dropped) + 1
      BY <1>3, FS_AddElement
    <3> QED
      BY <1>3, <1>6, <3>1
  <2>2. /\ Len(retryBuffer') + Cardinality(dropped') + Len(buffer')
             <= Len(retryBuffer) + Cardinality(dropped) + Len(buffer) + 1
        /\ Len(buffer') <= Len(buffer) + 1 /\ Len(buffer') <= Capacity
    BY <1>3, <1>6, <2>1
  <2>3. Range(retryBuffer') \cup dropped' \cup GroupsOf(buffer')
           = Range(retryBuffer) \cup dropped \cup GroupsOf(buffer) \cup {g}
    BY <1>6
  <2>4. dropped' \in SUBSET Groups /\ admissionChanged' \in BOOLEAN
    BY <1>2, <1>3, <1>6 DEF TypeOK
  <2> QED
    BY <1>1, <1>3, <1>6, <2>2, <2>3, <2>4, MoveSound
<1>7. CASE Len(buffer) < Capacity /\ Store(g) /\ UNCHANGED <<retryBuffer, admissionChanged, dropped>>
  <2>1. /\ buffer' \in Seq(Entries) /\ Len(buffer') = Len(buffer) + 1
        /\ GroupsOf(buffer') = GroupsOf(buffer) \cup {g}
    BY <1>1, <1>7, StoreIs
  <2>2. /\ Len(retryBuffer') + Cardinality(dropped') + Len(buffer')
             <= Len(retryBuffer) + Cardinality(dropped) + Len(buffer) + 1
        /\ Len(buffer') <= Len(buffer) + 1 /\ Len(buffer') <= Capacity
    BY <1>3, <1>7, <2>1, SizesAssumption
  <2>3. Range(retryBuffer') \cup dropped' \cup GroupsOf(buffer')
           = Range(retryBuffer) \cup dropped \cup GroupsOf(buffer) \cup {g}
    BY <1>7, <2>1
  <2>4. admissionChanged' \in BOOLEAN
    BY <1>3, <1>7 DEF TypeOK
  <2> QED
    BY <1>1, <1>3, <1>7, <2>1, <2>2, <2>3, <2>4, MoveSound
<1> QED
  BY <1>5, <1>6, <1>7 DEF Put

\* Put takes a finished group from running, to the buffer or out of it.
LEMMA PutKeeps == ASSUME IInv, NEW g \in done, Put(g) PROVE IInv'
<1>1. worker = "put" /\ UNCHANGED <<worker, taken, trained, version, getPending>> /\ (buffer' = buffer \/ Store(g))
  BY DEF Put
<1>2. SoundNext(trained) /\ Len(running') = Len(running) - 1 /\ Len(buffer') <= Len(buffer) + 1
  BY IInvIsSound, PutSound
<1>3. CASE buffer' = buffer
  <2>1. InTime'
    BY <1>1, <1>3 DEF IInv, InTime, NextVersion
  <2> QED
    BY <1>1, <1>2, <2>1, MoveKeeps
<1>4. CASE Store(g)
  <2>1. InTime'
    BY <1>1, <1>4, StoreInTime
  <2> QED
    BY <1>1, <1>2, <2>1, MoveKeeps
<1> QED
  BY <1>1, <1>3, <1>4

\* A put() that slept on a full buffer goes on.
LEMMA PutUnblocksSound ==
    ASSUME NEW old \in SUBSET Groups, Sound(old), PutUnblocks
    PROVE  /\ SoundNext(old) /\ Len(running') = Len(running) - 1 /\ Len(buffer') <= Len(buffer) + 1
           /\ putting \in done
<1>1. /\ Retire(putting) /\ worker = "put" /\ putting # NoGroup /\ putting' = NoGroup
      /\ UNCHANGED <<drawn, samplesInFlight, sampleDone, worker, taken, trained, version, resumed, getPending,
                     retryBuffer, admissionChanged, dropped>>
      /\ Len(buffer) < Capacity /\ Store(putting)
  BY DEF PutUnblocks
<1>2. putting \in done
  BY <1>1 DEF Sound, Core, WorkerPutsFinished
<1>3. /\ TypeOK /\ retryBuffer \in Seq(Groups) /\ dropped \in SUBSET Groups /\ admissionChanged \in BOOLEAN
      /\ Len(buffer) \in Nat /\ Len(retryBuffer) \in Nat /\ Cardinality(dropped) \in Nat
  BY SlotsAre, GroupsAreFinite DEF Sound, Core, TypeOK
<1>4. /\ buffer' \in Seq(Entries) /\ Len(buffer') = Len(buffer) + 1
      /\ GroupsOf(buffer') = GroupsOf(buffer) \cup {putting}
  BY <1>1, <1>2, StoreIs
<1>5. /\ Len(retryBuffer') + Cardinality(dropped') + Len(buffer')
           <= Len(retryBuffer) + Cardinality(dropped) + Len(buffer) + 1
      /\ Len(buffer') <= Len(buffer) + 1 /\ Len(buffer') <= Capacity
  BY <1>1, <1>3, <1>4, SizesAssumption
<1>6. Range(retryBuffer') \cup dropped' \cup GroupsOf(buffer')
         = Range(retryBuffer) \cup dropped \cup GroupsOf(buffer) \cup {putting}
  BY <1>1, <1>4
<1> QED
  BY <1>1, <1>2, <1>3, <1>4, <1>5, <1>6, MoveSound

\* A put that waited for a free place in the buffer stores its group.
LEMMA PutUnblocksKeeps == ASSUME IInv, PutUnblocks PROVE IInv'
<1>1. /\ worker = "put" /\ Store(putting)
      /\ UNCHANGED <<worker, taken, trained, version, getPending>>
  BY DEF PutUnblocks
<1>2. /\ SoundNext(trained) /\ Len(running') = Len(running) - 1 /\ Len(buffer') <= Len(buffer) + 1
      /\ putting \in done
  BY IInvIsSound, PutUnblocksSound
<1>3. InTime'
  BY <1>1, <1>2, StoreInTime
<1> QED
  BY <1>1, <1>2, <1>3, MoveKeeps

\* The scheduler's count is the true one also where a leftover is reset.
LEMMA InFlightIs ==
    ASSUME Core
    PROVE  /\ InFlight = samplesInFlight /\ samplesInFlight \in Nat /\ Budget * GroupSize \in Nat
           /\ InFlight <= Budget * GroupSize
<1>1. /\ samplesInFlight = Cardinality(Unfinished) /\ samplesInFlight \in Nat
      /\ samplesInFlight <= Budget * GroupSize /\ Budget * GroupSize \in Nat
  BY SizesAssumption DEF Core, SampleAccounting, TypeOK
<1>2. CASE running = <<>>
  <2>1. \A i \in DOMAIN running : FALSE
    BY <1>2
  <2>2. Unfinished = {}
    BY <2>1 DEF Unfinished
  <2>3. samplesInFlight = 0
    BY <1>1, <2>2, FS_EmptySet
  <2> QED
    BY <1>1, <1>2, <2>3 DEF InFlight
<1>3. CASE running # <<>>
  BY <1>1, <1>3 DEF InFlight
<1> QED
  BY <1>2, <1>3

\* The tasks that n submissions add.
LEMMA SubmitIs ==
    ASSUME Core, NEW n \in Nat, n <= Len(retryBuffer) + MaxDraws - drawn, Submit(n)
    PROVE  /\ drawn \in Nat /\ drawn' \in 0..MaxDraws /\ drawn <= drawn' /\ retryBuffer' \in Seq(Groups)
           /\ samplesInFlight' = samplesInFlight + n * GroupSize
           /\ Len(retryBuffer') + n = Len(retryBuffer) + (drawn' - drawn)
           /\ \E new \in Seq(Tasks) :
                 /\ running' = running \o new /\ Len(new) = n
                 /\ \A i \in DOMAIN new : new[i].left = GroupSize /\ new[i].out = "generating"
                 /\ 1..drawn' \subseteq 1..drawn \cup Range(retryBuffer') \cup GroupsOf(new)
                 /\ Range(retryBuffer) \subseteq Range(retryBuffer') \cup GroupsOf(new)
                 /\ Range(retryBuffer') \cup GroupsOf(new) \subseteq Range(retryBuffer) \cup 1..drawn'
<1> DEFINE R == Len(retryBuffer)
           r == Min({n, R})
           m == n - r
           old == SubSeq(retryBuffer, 1, r)
           rest == SubSeq(retryBuffer, r + 1, R)
           drawnNow == [i \in 1..m |-> drawn + i]
           groups == old \o drawnNow
           new == [i \in 1..n |-> [g |-> groups[i], ver |-> version, left |-> GroupSize, out |-> "generating"]]
<1>1. /\ retryBuffer \in Seq(Groups) /\ R \in Nat /\ drawn \in Nat /\ drawn <= MaxDraws /\ MaxDraws \in Nat
      /\ version \in Versions /\ GroupSize \in Nat
  BY SlotsAre, SizesAssumption DEF Core, TypeOK
<1>2. r \in Nat /\ r <= n /\ r <= R /\ (r = n \/ r = R)
  BY <1>1, MinOfTwo
<1>3. /\ drawn' = drawn + m /\ retryBuffer' = rest /\ running' = running \o new
      /\ samplesInFlight' = (IF AdmissionSlots = 0 THEN samplesInFlight ELSE InFlight) + n * GroupSize
  BY DEF Submit
<1> HIDE DEF R, r
<1>4. /\ r \in 0..R /\ m \in Nat /\ r + m = n /\ drawn + m <= MaxDraws /\ drawn + m \in 0..MaxDraws
      /\ \A i \in 1..m : drawn + i \in 1..(drawn + m) /\ drawn + i \in 1..MaxDraws
  <2>1. n <= R + MaxDraws - drawn
    BY DEF R
  <2> QED
    BY <1>1, <1>2, <2>1
<1>5. /\ old \in Seq(Groups) /\ Len(old) = r /\ rest \in Seq(Groups) /\ Len(rest) = R - r
      /\ Range(retryBuffer) = Range(old) \cup Range(rest)
  BY <1>1, <1>4, SplitAt DEF R
<1>6. drawnNow \in Seq(Groups) /\ Len(drawnNow) = m /\ Range(drawnNow) = {drawn + i : i \in 1..m}
  <2> HIDE DEF m
  <2>1. DOMAIN drawnNow = 1..m /\ \A i \in 1..m : drawnNow[i] = drawn + i /\ drawn + i \in Groups
    BY <1>4 DEF Groups
  <2> QED
    BY <1>4, <2>1 DEF Range
<1> HIDE DEF old, rest, drawnNow
<1>7. groups \in Seq(Groups) /\ Len(groups) = n /\ Range(groups) = Range(old) \cup Range(drawnNow)
  <2>1. groups \in Seq(Groups) /\ Len(groups) = Len(old) + Len(drawnNow) /\ Range(groups) = Range(old) \cup Range(drawnNow)
    <3>1. old \in Seq(Groups) /\ drawnNow \in Seq(Groups)
      BY <1>5, <1>6
    <3> QED
      BY <3>1, RangeOfConcat
  <2> QED
    BY <1>4, <1>5, <1>6, <2>1
<1> HIDE DEF groups, m
<1>8. /\ new \in Seq(Tasks) /\ Len(new) = n /\ DOMAIN new = 1..n
      /\ \A i \in 1..n : new[i].g = groups[i] /\ new[i].left = GroupSize /\ new[i].out = "generating"
  <2>1. \A i \in 1..n : groups[i] \in Groups
    BY <1>7, ElementOfSeq
  <2>2. GroupSize \in 0..GroupSize /\ "generating" \in Outcomes
    BY <1>1 DEF Outcomes
  <2>3. \A i \in 1..n : [g |-> groups[i], ver |-> version, left |-> GroupSize, out |-> "generating"] \in Tasks
    BY <1>1, <2>1, <2>2 DEF Tasks
  <2> QED
    BY <2>3
<1> HIDE DEF new
<1>9. GroupsOf(new) = Range(groups)
  <2>1. DOMAIN groups = 1..n
    BY <1>7, LenProperties
  <2> QED
    BY <1>8, <2>1 DEF GroupsOf, Range
<1>10. samplesInFlight' = samplesInFlight + n * GroupSize
  BY <1>3, InFlightIs
<1>11. /\ drawn' \in 0..MaxDraws /\ drawn <= drawn' /\ retryBuffer' \in Seq(Groups)
       /\ Len(retryBuffer') + n = R + (drawn' - drawn)
  BY <1>1, <1>2, <1>3, <1>4, <1>5
<1>12. 1..drawn' \subseteq 1..drawn \cup Range(drawnNow)
  <2> SUFFICES ASSUME NEW i \in 1..drawn', ~(i \in 1..drawn) PROVE i \in Range(drawnNow)
    OBVIOUS
  <2>1. i - drawn \in 1..m /\ drawn + (i - drawn) = i
    BY <1>1, <1>3, <1>4
  <2> QED
    BY <1>6, <2>1
<1>13. Range(drawnNow) \subseteq 1..drawn'
  BY <1>3, <1>4, <1>6
<1>14. /\ 1..drawn' \subseteq 1..drawn \cup Range(retryBuffer') \cup GroupsOf(new)
       /\ Range(retryBuffer) \subseteq Range(retryBuffer') \cup GroupsOf(new)
       /\ Range(retryBuffer') \cup GroupsOf(new) \subseteq Range(retryBuffer) \cup 1..drawn'
  BY <1>3, <1>5, <1>7, <1>9, <1>12, <1>13
<1> QED
  BY <1>1, <1>3, <1>8, <1>10, <1>11, <1>14 DEF R

\* The samples of added tasks are all unfinished; those of the others stay as they are.
LEMMA NewSamples ==
    ASSUME Core, NEW new \in Seq(Tasks), running' = running \o new, running' \in Seq(Tasks),
           \A i, j \in DOMAIN running' : running'[i].g = running'[j].g => i = j,
           \A i \in DOMAIN new : new[i].left = GroupSize /\ new[i].out = "generating"
    PROVE  /\ Cardinality(Unfinished') = Cardinality(Unfinished) + Len(new) * GroupSize
           /\ FinishedHaveNoneLeft' /\ Finished' = Finished
           /\ Len(running') = Len(running) + Len(new) /\ GroupsOf(running') = GroupsOf(running) \cup GroupsOf(new)
<1> DEFINE k == Len(running)
           n == Len(new)
           N == GroupsOf(new)
           G == 1..GroupSize
<1>1. /\ running \in Seq(Tasks) /\ k \in Nat /\ DOMAIN running = 1..k
      /\ n \in Nat /\ DOMAIN new = 1..n /\ \A i \in 1..n : new[i] \in Tasks
  BY LenProperties, ElementOfSeq DEF Core, TypeOK
<1>2. Len(running') = k + n /\ \A i \in 1..(k + n) : running'[i] = IF i <= k THEN running[i] ELSE new[i - k]
  BY <1>1, ConcatProperties
<1>3. DOMAIN running' = 1..(k + n)
  BY <1>2, LenProperties
<1>0. \A i, j \in 1..(k + n) : running'[i].g = running'[j].g => i = j
  BY <1>3
<1> HIDE DEF k, n
<1>4. \A i \in 1..k : i \in 1..(k + n) /\ running'[i] = running[i]
  BY <1>1, <1>2
<1>5. \A i \in 1..n : k + i \in 1..(k + n) /\ running'[k + i] = new[i]
  <2>1. \A i \in 1..n : k + i \in 1..(k + n) /\ ~(k + i <= k) /\ (k + i) - k = i
    BY <1>1
  <2> QED
    BY <1>2, <2>1
<1>6. ASSUME NEW i \in 1..(k + n)
      PROVE  (\E j \in 1..k : i = j) \/ (\E j \in 1..n : i = k + j)
  <2>1. CASE i <= k
    BY <1>1, <2>1
  <2>2. CASE ~(i <= k)
    <3>1. i - k \in 1..n /\ i = k + (i - k)
      BY <1>1, <2>2
    <3> QED
      BY <3>1
  <2> QED
    BY <2>1, <2>2
<1>7. \A i, j \in 1..n : new[i].g = new[j].g => i = j
  <2> SUFFICES ASSUME NEW i \in 1..n, NEW j \in 1..n, new[i].g = new[j].g PROVE i = j
    OBVIOUS
  <2> DEFINE a == k + i
             b == k + j
  <2>2. a \in 1..(k + n) /\ running'[a] = new[i] /\ b \in 1..(k + n) /\ running'[b] = new[j]
    BY <1>5
  <2> HIDE DEF a, b
  <2>3. a = b
    BY <1>0, <2>2
  <2>1. k + i = k + j
    BY <2>3 DEF a, b
  <2> QED
    BY <1>1, <2>1
<1>8. ASSUME NEW i \in 1..k PROVE running[i].g \notin N
  <2> SUFFICES ASSUME NEW j \in 1..n, running[i].g = new[j].g PROVE FALSE
    BY <1>1 DEF GroupsOf
  <2> DEFINE b == k + j
  <2>2. b \in 1..(k + n) /\ running'[b] = new[j] /\ i \in 1..(k + n) /\ running'[i] = running[i]
    BY <1>4, <1>5
  <2> HIDE DEF b
  <2>3. i = b
    BY <1>0, <2>2
  <2>1. i = k + j
    BY <2>3 DEF b
  <2> QED
    BY <1>1, <2>1
<1>9. IsFiniteSet(N) /\ Cardinality(N) = n
  <2> DEFINE f == [i \in 1..n |-> new[i].g]
  <2>1. N = {new[i].g : i \in 1..n}
    BY <1>1 DEF GroupsOf
  <2>2. f \in Surjection(1..n, N) /\ f \in Injection(1..n, N)
    BY <1>7, <2>1 DEF Surjection, Injection, IsInjective
  <2>3. IsFiniteSet(1..n) /\ Cardinality(1..n) = n
    <3>1. 1 \in Int /\ n \in Int /\ n - 1 + 1 = n /\ (1 > n => n = 0)
      BY <1>1
    <3> QED
      BY <3>1, FS_Interval
  <2> HIDE DEF f, N
  <2> QED
    BY <2>2, <2>3, FS_Surjection
<1>10. N \in SUBSET Groups
  BY <1>1 DEF GroupsOf, Tasks
<1> HIDE DEF N
<1>11. IsFiniteSet(N \X G) /\ Cardinality(N \X G) = n * GroupSize
  <2>1. GroupSize \in Nat
    BY SizesAssumption
  <2>2. IsFiniteSet(G) /\ Cardinality(G) = GroupSize
    <3>1. 1 \in Int /\ GroupSize \in Int /\ GroupSize - 1 + 1 = GroupSize /\ (1 > GroupSize => GroupSize = 0)
      BY <2>1
    <3> QED
      BY <3>1, FS_Interval
  <2> HIDE DEF G
  <2> QED
    BY <1>9, <2>2, FS_Product
<1>12. Unfinished' = Unfinished \cup (N \X G)
  <2>1. ASSUME NEW g \in Groups, NEW s \in G
        PROVE  <<g, s>> \in Unfinished' <=> <<g, s>> \in Unfinished \/ g \in N
    <3>1. /\ <<g, s>> \in Unfinished <=> \E j \in 1..k : running[j].g = g /\ s <= running[j].left
          /\ <<g, s>> \in Unfinished' <=> \E j \in 1..(k + n) : running'[j].g = g /\ s <= running'[j].left
      <4>1. <<g, s>> \in Groups \X (1..GroupSize) /\ <<g, s>>[1] = g /\ <<g, s>>[2] = s
        OBVIOUS
      <4> HIDE DEF G
      <4> QED
        BY <4>1, <1>1, <1>3 DEF Unfinished
    <3>2. g \in N <=> \E j \in 1..n : new[j].g = g
      BY <1>1 DEF N, GroupsOf
    <3>3. \A j \in 1..n : s <= new[j].left
      <4>1. s <= GroupSize
        BY SizesAssumption
      <4> QED
        BY <1>1, <4>1
    <3> HIDE DEF G
    <3>4. ASSUME NEW j \in 1..k, running[j].g = g, s <= running[j].left
          PROVE  <<g, s>> \in Unfinished'
      BY <3>1, <3>4, <1>4
    <3>5. ASSUME NEW j \in 1..n, new[j].g = g
          PROVE  <<g, s>> \in Unfinished'
      BY <3>1, <3>3, <3>5, <1>5
    <3>6. ASSUME NEW i \in 1..(k + n), running'[i].g = g, s <= running'[i].left
          PROVE  <<g, s>> \in Unfinished \/ g \in N
      <4>1. CASE \E j \in 1..k : i = j
        BY <4>1, <3>1, <3>6, <1>4
      <4>2. CASE \E j \in 1..n : i = k + j
        <5>1. PICK j \in 1..n : i = k + j
          BY <4>2
        <5>2. new[j].g = g
          BY <5>1, <1>5, <3>6
        <5> QED
          BY <5>2, <3>2
      <4> QED
        BY <4>1, <4>2, <1>6
    <3> QED
      BY <3>1, <3>2, <3>4, <3>5, <3>6
  <2>2. Unfinished \subseteq Groups \X G /\ Unfinished' \subseteq Groups \X G /\ N \X G \subseteq Groups \X G
    BY <1>10 DEF Unfinished
  <2>3. \A x \in Groups \X G : x = <<x[1], x[2]>> /\ x[1] \in Groups /\ x[2] \in G /\ (x \in N \X G <=> x[1] \in N)
    OBVIOUS
  <2>4. \A x \in Groups \X G : x \in Unfinished' <=> x \in Unfinished \/ x \in N \X G
    <3> HIDE DEF G
    <3> QED
      BY <2>1, <2>3
  <2> HIDE DEF G
  <2> QED
    BY <2>2, <2>4
<1>13. Unfinished \cap (N \X G) = {}
  <2> SUFFICES ASSUME NEW x \in Unfinished, x \in N \X G PROVE FALSE
    OBVIOUS
  <2>1. PICK j \in DOMAIN running : running[j].g = x[1]
    BY DEF Unfinished
  <2>2. x[1] \in N
    OBVIOUS
  <2> QED
    BY <1>1, <1>8, <2>1, <2>2
<1>14. Cardinality(Unfinished') = Cardinality(Unfinished) + n * GroupSize
  <2>1. IsFiniteSet(Unfinished) /\ Cardinality(Unfinished) \in Nat
    BY UnfinishedIsFinite
  <2> DEFINE X == N \X G
  <2>2. IsFiniteSet(X) /\ Cardinality(X) = n * GroupSize /\ Unfinished \cap X = {} /\ Unfinished' = Unfinished \cup X
    BY <1>11, <1>12, <1>13
  <2> HIDE DEF X
  <2>3. Cardinality(Unfinished \cup X) = Cardinality(Unfinished) + Cardinality(X) - Cardinality(Unfinished \cap X)
    BY <2>1, <2>2, FS_Union
  <2>4. Cardinality(Unfinished \cap X) = 0
    BY <2>2, FS_EmptySet
  <2>5. n * GroupSize \in Nat
    BY <1>1, SizesAssumption
  <2> QED
    BY <2>1, <2>2, <2>3, <2>4, <2>5
<1>15. FinishedHaveNoneLeft'
  <2>1. ASSUME NEW i \in 1..(k + n), running'[i].out # "generating" PROVE running'[i].left = 0
    <3>1. CASE \E j \in 1..k : i = j
      <4>1. running[i].out # "generating" => running[i].left = 0
        BY <3>1, <1>1 DEF Core, FinishedHaveNoneLeft
      <4> QED
        BY <2>1, <3>1, <4>1, <1>4
    <3>2. CASE \E j \in 1..n : i = k + j
      <4>1. PICK j \in 1..n : i = k + j
        BY <3>2
      <4>2. new[j].out = "generating"
        BY <1>1
      <4> QED
        BY <2>1, <4>1, <4>2, <1>5
    <3> QED
      BY <3>1, <3>2, <1>6
  <2> QED
    BY <2>1, <1>3 DEF FinishedHaveNoneLeft
<1>16. Finished' = Finished
  <2>1. ASSUME NEW i \in 1..(k + n), running'[i].out # "generating" PROVE running'[i].g \in Finished
    <3>1. CASE \E j \in 1..k : i = j
      BY <2>1, <3>1, <1>1, <1>4 DEF Finished
    <3>2. CASE \E j \in 1..n : i = k + j
      BY <2>1, <3>2, <1>1, <1>5
    <3> QED
      BY <3>1, <3>2, <1>6
  <2>2. ASSUME NEW i \in 1..k, running[i].out # "generating" PROVE running[i].g \in Finished'
    BY <2>2, <1>3, <1>4 DEF Finished
  <2>3. ASSUME NEW h \in Finished' PROVE h \in Finished
    <3>1. PICK i \in DOMAIN running' : running'[i].out # "generating" /\ h = running'[i].g
      BY DEF Finished
    <3> QED
      BY <3>1, <2>1, <1>3
  <2>4. ASSUME NEW h \in Finished PROVE h \in Finished'
    <3>1. PICK i \in DOMAIN running : running[i].out # "generating" /\ h = running[i].g
      BY DEF Finished
    <3> QED
      BY <3>1, <2>2, <1>1
  <2> QED
    BY <2>3, <2>4
<1>17. GroupsOf(running') = GroupsOf(running) \cup N
  <2>1. ASSUME NEW i \in 1..(k + n) PROVE running'[i].g \in GroupsOf(running) \cup N
    <3>1. CASE \E j \in 1..k : i = j
      <4>1. i \in 1..k /\ running'[i] = running[i]
        BY <3>1, <1>4
      <4>2. running[i].g \in GroupsOf(running)
        BY <4>1, <1>1 DEF GroupsOf
      <4> QED
        BY <4>1, <4>2
    <3>2. CASE \E j \in 1..n : i = k + j
      <4>1. PICK j \in 1..n : running'[i] = new[j]
        BY <3>2, <1>5
      <4>2. new[j].g \in N
        BY <1>1 DEF GroupsOf, N
      <4> QED
        BY <4>1, <4>2
    <3> QED
      BY <3>1, <3>2, <1>6
  <2>2. ASSUME NEW i \in 1..k PROVE running[i].g \in GroupsOf(running')
    BY <1>3, <1>4 DEF GroupsOf
  <2>3. ASSUME NEW i \in 1..n PROVE new[i].g \in GroupsOf(running')
    BY <1>3, <1>5 DEF GroupsOf
  <2>4. ASSUME NEW h \in GroupsOf(running') PROVE h \in GroupsOf(running) \cup N
    <3>1. PICK i \in DOMAIN running' : h = running'[i].g
      BY DEF GroupsOf
    <3> QED
      BY <3>1, <2>1, <1>3
  <2>5. ASSUME NEW h \in GroupsOf(running) PROVE h \in GroupsOf(running')
    <3>1. PICK i \in DOMAIN running : h = running[i].g
      BY DEF GroupsOf
    <3> QED
      BY <3>1, <2>2, <1>1
  <2>6. ASSUME NEW h \in N PROVE h \in GroupsOf(running')
    <3>1. PICK i \in DOMAIN new : h = new[i].g
      BY DEF GroupsOf, N
    <3> QED
      BY <3>1, <2>3, <1>1
  <2> QED
    BY <2>4, <2>5, <2>6
<1> QED
  BY <1>2, <1>14, <1>15, <1>16, <1>17 DEF k, n, N

\* Submission moves groups from the retry buffer, or from new draws, to running.
LEMMA WorkerSubmitSound ==
    ASSUME NEW old \in SUBSET Groups, Sound(old), WorkerSubmit
    PROVE  SoundNext(old) /\ Len(running') = Len(running) + Submissions
           /\ samplesInFlight' = samplesInFlight + Submissions * GroupSize
<1>0. Core
  BY DEF Sound
<1> DEFINE n == Submissions
           a == AdmissionSlots
           c == CapacitySlots
<1>1. /\ worker = "top" /\ Submit(n) /\ n <= Len(retryBuffer) + MaxDraws - drawn /\ admissionChanged' = FALSE
      /\ \/ c < a /\ worker' = "progress" /\ sampleDone' = FALSE
         \/ ~(c < a) /\ worker' = "admission" /\ sampleDone' = sampleDone
      /\ UNCHANGED <<done, putting, buffer, resumed, getPending, taken, trained, dropped, version>>
  BY DEF WorkerSubmit
<1>2. /\ a \in Nat /\ c \in Nat /\ Len(running) \in Nat /\ Len(buffer) \in Nat /\ Len(taken) \in Nat
      /\ Len(retryBuffer) \in Nat /\ Occupied \in Nat /\ Window \in Nat
      /\ Budget \in Nat /\ Budget >= 1 /\ GroupSize \in Nat /\ GroupSize >= 1 /\ TypeOK
  BY SlotsAre, SizesAssumption DEF Sound, Core
<1>3. n \in Nat /\ n <= a /\ n <= c /\ (c < a => n = c) /\ (~(c < a) => n = a)
  <2> HIDE DEF a, c
  <2>1. n = Min({a, c})
    BY DEF Submissions, a, c
  <2> HIDE DEF n
  <2> QED
    BY <1>2, <2>1, MinOfTwo
<1> HIDE DEF n
<1>4. /\ drawn \in Nat /\ drawn' \in 0..MaxDraws /\ drawn <= drawn' /\ retryBuffer' \in Seq(Groups)
      /\ samplesInFlight' = samplesInFlight + n * GroupSize
      /\ Len(retryBuffer') + n = Len(retryBuffer) + (drawn' - drawn)
      /\ \E new \in Seq(Tasks) :
            /\ running' = running \o new /\ Len(new) = n
            /\ \A i \in DOMAIN new : new[i].left = GroupSize /\ new[i].out = "generating"
            /\ 1..drawn' \subseteq 1..drawn \cup Range(retryBuffer') \cup GroupsOf(new)
            /\ Range(retryBuffer) \subseteq Range(retryBuffer') \cup GroupsOf(new)
            /\ Range(retryBuffer') \cup GroupsOf(new) \subseteq Range(retryBuffer) \cup 1..drawn'
  BY <1>0, <1>1, <1>3, SubmitIs
<1>5. PICK new \in Seq(Tasks) :
         /\ running' = running \o new /\ Len(new) = n
         /\ \A i \in DOMAIN new : new[i].left = GroupSize /\ new[i].out = "generating"
         /\ 1..drawn' \subseteq 1..drawn \cup Range(retryBuffer') \cup GroupsOf(new)
         /\ Range(retryBuffer) \subseteq Range(retryBuffer') \cup GroupsOf(new)
         /\ Range(retryBuffer') \cup GroupsOf(new) \subseteq Range(retryBuffer) \cup 1..drawn'
  BY <1>4
<1>6. InFlight = samplesInFlight /\ samplesInFlight \in Nat /\ Budget * GroupSize \in Nat /\ InFlight <= Budget * GroupSize
  BY <1>0, InFlightIs
<1>7. running \in Seq(Tasks) /\ running' \in Seq(Tasks) /\ Len(running') = Len(running) + n
      /\ GroupsOf(running') = GroupsOf(running) \cup GroupsOf(new)
  <2>1. running \in Seq(Tasks)
    BY DEF Sound, Core, TypeOK
  <2>2. /\ running \o new \in Seq(Tasks) /\ Len(running \o new) = Len(running) + Len(new)
        /\ Range(running \o new) = Range(running) \cup Range(new)
    BY <2>1, RangeOfConcat
  <2>3. /\ GroupsOf(running \o new) = {x.g : x \in Range(running \o new)}
        /\ GroupsOf(running) = {x.g : x \in Range(running)} /\ GroupsOf(new) = {x.g : x \in Range(new)}
    BY GroupsOfRange
  <2>4. GroupsOf(running \o new) = GroupsOf(running) \cup GroupsOf(new)
    BY <2>2, <2>3
  <2> QED
    BY <1>5, <2>1, <2>2, <2>4
<1>8. n * GroupSize \in Nat /\ samplesInFlight' \in Nat
  <2>1. n * GroupSize \in Nat
    BY <1>2, <1>3
  <2> DEFINE x == n * GroupSize
  <2>2. x \in Nat /\ samplesInFlight' = samplesInFlight + x /\ samplesInFlight \in Nat
    BY <1>4, <1>6, <2>1
  <2> HIDE DEF x
  <2>3. samplesInFlight' \in Nat
    BY <2>2
  <2> QED
    BY <2>1, <2>3
<1>9. TypeOK'
  BY <1>1, <1>4, <1>7, <1>8 DEF Sound, Core, TypeOK
<1>10. /\ AllPlaced(drawn', retryBuffer', running', buffer', taken', old, dropped')
       /\ \A i, j \in DOMAIN running' : running'[i].g = running'[j].g => i = j
  <2>1. /\ 1..drawn = Range(retryBuffer) \cup GroupsOf(running) \cup GroupsOf(buffer)
                        \cup GroupsOf(taken) \cup old \cup dropped
        /\ drawn = Len(retryBuffer) + Len(running) + Len(buffer) + Len(taken)
                     + Cardinality(old) + Cardinality(dropped)
    BY DEF Sound, AllPlaced, Places, Total
  <2>2. 1..drawn \subseteq 1..drawn'
    BY <1>4
  <2>3. 1..drawn' = Range(retryBuffer') \cup GroupsOf(running') \cup GroupsOf(buffer) \cup GroupsOf(taken)
                      \cup old \cup dropped
    BY <1>5, <1>7, <2>1, <2>2
  <2>4. 1..drawn' = Places(retryBuffer', running', buffer', taken', old, dropped')
    BY <1>1, <2>3 DEF Places
  <2>5. Total(retryBuffer', running', buffer', taken', old, dropped') <= drawn'
    <3> DEFINE cd == Cardinality(dropped)
               ct == Cardinality(old)
    <3>1. Total(retryBuffer', running', buffer', taken', old, dropped')
             = Len(retryBuffer') + Len(running') + Len(buffer) + Len(taken) + ct + cd
      BY <1>1 DEF Total
    <3>2. drawn = Len(retryBuffer) + Len(running) + Len(buffer) + Len(taken) + ct + cd
      BY <2>1
    <3>3. ct \in Nat /\ cd \in Nat
      BY GroupsAreFinite DEF Sound, Core, TypeOK
    <3>4. Len(retryBuffer') \in Nat /\ drawn' \in Nat
      BY <1>4, LenProperties, SizesAssumption
    <3>6. /\ Len(retryBuffer') + n = Len(retryBuffer) + (drawn' - drawn) /\ Len(running') = Len(running) + n
          /\ n \in Nat /\ drawn \in Nat /\ Len(running') \in Nat
      BY <1>2, <1>3, <1>4, <1>7
    <3> DEFINE r == Len(retryBuffer)
               rr == Len(retryBuffer')
               u == Len(running)
               uu == Len(running')
               b == Len(buffer)
               t == Len(taken)
    <3>7. /\ r \in Nat /\ rr \in Nat /\ u \in Nat /\ uu \in Nat /\ b \in Nat /\ t \in Nat
          /\ ct \in Nat /\ cd \in Nat /\ n \in Nat /\ drawn \in Nat /\ drawn' \in Nat
          /\ rr + n = r + (drawn' - drawn) /\ uu = u + n /\ drawn = r + u + b + t + ct + cd
      BY <1>2, <3>2, <3>3, <3>4, <3>6
    <3> HIDE DEF cd, ct, r, rr, u, uu, b, t
    <3>8. rr + uu + b + t + ct + cd = drawn'
      <4>1. ASSUME NEW x \in Nat, NEW y \in Nat, rr + n = r + (y - x), x = r + u + b + t + ct + cd
            PROVE  rr + uu + b + t + ct + cd = y
        BY <3>7, <4>1
      <4> QED
        BY <3>7, <4>1
    <3>5. Len(retryBuffer') + Len(running') + Len(buffer) + Len(taken) + ct + cd = drawn'
      BY <3>8 DEF r, rr, u, uu, b, t
    <3> QED
      BY <3>1, <3>4, <3>5
  <2> QED
    BY <1>9, <2>4, <2>5, PlacesKept
<1>11. /\ Cardinality(Unfinished') = Cardinality(Unfinished) + n * GroupSize
       /\ FinishedHaveNoneLeft' /\ Finished' = Finished
  BY <1>5, <1>7, <1>10, <1>0, NewSamples
<1>12. /\ InFlight + c * GroupSize <= Budget * GroupSize
       /\ Budget * GroupSize < InFlight + c * GroupSize + GroupSize
       /\ c * GroupSize \in Nat /\ c <= Budget
       /\ ~WithinStaleness => a = Budget + 1
       /\ WithinStaleness /\ Occupied <= Window => Occupied + a = Window
  <2>1. /\ InFlight + CapacitySlots * GroupSize <= Budget * GroupSize
        /\ Budget * GroupSize < InFlight + CapacitySlots * GroupSize + GroupSize
        /\ CapacitySlots <= Budget
        /\ ~WithinStaleness => AdmissionSlots = Budget + 1
        /\ WithinStaleness /\ Occupied <= Window => Occupied + AdmissionSlots = Window
    BY <1>2, <1>6, SlotsAre
  <2>2. CapacitySlots * GroupSize \in Nat
    BY <1>2
  <2> QED
    BY <2>1, <2>2
<1> HIDE DEF a, c
<1>13. SampleAccounting' /\ BufferBound'
  <2>1. n * GroupSize <= c * GroupSize
    BY <1>2, <1>3
  <2>2. samplesInFlight + n * GroupSize <= Budget * GroupSize
    <3> DEFINE x == n * GroupSize
               y == c * GroupSize
               z == Budget * GroupSize
    <3>1. x \in Nat /\ y \in Nat /\ z \in Nat /\ x <= y /\ samplesInFlight + y <= z
      BY <1>6, <1>8, <1>12, <2>1
    <3> HIDE DEF x, y, z
    <3>2. samplesInFlight + x <= z
      BY <1>6, <3>1
    <3> QED
      BY <3>2 DEF x, z
  <2>3. samplesInFlight' <= Budget * GroupSize
    BY <1>4, <2>2
  <2>4. samplesInFlight' = Cardinality(Unfinished')
    BY <1>4, <1>11 DEF Sound, Core, SampleAccounting
  <2> QED
    BY <1>1, <2>3, <2>4 DEF SampleAccounting, BufferBound, Sound, Core
<1>14. WorkerPutsFinished' /\ OneBatch'
  BY <1>1, <1>11 DEF Sound, Core, WorkerPutsFinished, OneBatch
<1>15. SoundNext(old)
  BY <1>9, <1>10, <1>11, <1>13, <1>14 DEF SoundNext, Core
<1> QED
  BY <1>4, <1>7, <1>15 DEF n

\* Submission keeps the invariant: it starts no more than the window admits.
LEMMA WorkerSubmitKeeps == ASSUME IInv, WorkerSubmit PROVE IInv'
<1> DEFINE n == Submissions
           a == AdmissionSlots
           c == CapacitySlots
<1>1. /\ worker = "top" /\ Submit(n) /\ n <= Len(retryBuffer) + MaxDraws - drawn /\ admissionChanged' = FALSE
      /\ \/ c < a /\ worker' = "progress" /\ sampleDone' = FALSE
         \/ ~(c < a) /\ worker' = "admission" /\ sampleDone' = sampleDone
      /\ UNCHANGED <<done, putting, buffer, resumed, getPending, taken, trained, dropped, version>>
  BY DEF WorkerSubmit
<1>2. /\ a \in Nat /\ c \in Nat /\ Len(running) \in Nat /\ Len(buffer) \in Nat /\ Len(taken) \in Nat
      /\ Len(retryBuffer) \in Nat /\ Occupied \in Nat /\ Window \in Nat
      /\ Budget \in Nat /\ Budget >= 1 /\ GroupSize \in Nat /\ GroupSize >= 1 /\ TypeOK
  BY SlotsAre, SizesAssumption, IInvIsSound
<1>3. n \in Nat /\ n <= a /\ n <= c /\ (c < a => n = c) /\ (~(c < a) => n = a)
  <2> HIDE DEF a, c
  <2>1. n = Min({a, c})
    BY DEF Submissions, a, c
  <2> HIDE DEF n
  <2> QED
    BY <1>2, <2>1, MinOfTwo
<1> HIDE DEF n
<1>4. /\ SoundNext(trained) /\ Len(running') = Len(running) + n
      /\ samplesInFlight' = samplesInFlight + n * GroupSize
  BY IInvIsSound, WorkerSubmitSound DEF n
<1>6. InFlight = samplesInFlight /\ samplesInFlight \in Nat /\ Budget * GroupSize \in Nat /\ InFlight <= Budget * GroupSize
  BY IInvIsSound, InFlightIs
<1>7. running \in Seq(Tasks) /\ running' \in Seq(Tasks) /\ Len(running') = Len(running) + n
  BY <1>4 DEF SoundNext, Core, IInv, TypeOK
<1>12. /\ InFlight + c * GroupSize <= Budget * GroupSize
       /\ Budget * GroupSize < InFlight + c * GroupSize + GroupSize
       /\ c * GroupSize \in Nat /\ c <= Budget
       /\ ~WithinStaleness => a = Budget + 1
       /\ WithinStaleness /\ Occupied <= Window => Occupied + a = Window
  <2>1. /\ InFlight + CapacitySlots * GroupSize <= Budget * GroupSize
        /\ Budget * GroupSize < InFlight + CapacitySlots * GroupSize + GroupSize
        /\ CapacitySlots <= Budget
        /\ ~WithinStaleness => AdmissionSlots = Budget + 1
        /\ WithinStaleness /\ Occupied <= Window => Occupied + AdmissionSlots = Window
    BY <1>2, <1>6, SlotsAre
  <2>2. CapacitySlots * GroupSize \in Nat
    BY <1>2
  <2> QED
    BY <2>1, <2>2
<1> HIDE DEF a, c
<1>14. Occupied' = Occupied + n /\ Window' = Window
  <2>1. Occupied' = Occupied + n
    BY <1>1, <1>2, <1>3, <1>7 DEF Occupied
  <2> QED
    BY <1>1, <2>1 DEF Window
<1>15. WithinStaleness => Occupied + a = Window
  BY <1>1, <1>12, WindowKept DEF IInv
<1>16. AdmissionWindow'
  <2>1. WithinStaleness => Occupied' <= Window'
    BY <1>2, <1>3, <1>14, <1>15
  <2> QED
    BY <2>1, WindowKept
<1>17. worker' = "admission" => AdmissionSlots' = 0
  <2> SUFFICES ASSUME worker' = "admission" PROVE AdmissionSlots' = 0
    OBVIOUS
  <2>1. ~(c < a) /\ n = a
    BY <1>1, <1>3
  <2>2. WithinStaleness
    BY <1>2, <1>12, <2>1 DEF FlagsAssumption
  <2>3. ~(Occupied' < Window')
    BY <1>2, <1>14, <1>15, <2>1, <2>2
  <2> QED
    BY <2>2, <2>3 DEF AdmissionSlots
<1>18. worker' = "progress" => CapacitySlots' = 0 /\ running' # <<>>
  <2> SUFFICES ASSUME worker' = "progress" PROVE CapacitySlots' = 0 /\ running' # <<>>
    OBVIOUS
  <2>1. n = c
    BY <1>1, <1>3
  <2>2. running' # <<>>
    <3> SUFFICES ASSUME running' = <<>> PROVE FALSE
      OBVIOUS
    <3>1. Len(running') = 0
      BY EmptySeq
    <3>2. Len(running) = 0 /\ n = 0
      BY <1>2, <1>3, <1>7, <3>1
    <3>3. running = <<>>
      BY <1>7, <3>2, EmptySeq
    <3>4. InFlight = 0 /\ c * GroupSize = 0
      BY <1>2, <2>1, <3>2, <3>3 DEF InFlight
    <3>5. Budget * GroupSize >= GroupSize
      BY <1>2
    <3> DEFINE z == Budget * GroupSize
    <3>6. z < GroupSize
      BY <1>2, <1>12, <3>4
    <3>7. z >= GroupSize /\ z \in Nat
      BY <1>6, <3>5
    <3> HIDE DEF z
    <3> QED
      BY <1>2, <3>6, <3>7
  <2>3. InFlight' = InFlight + c * GroupSize
    BY <1>4, <1>6, <2>1, <2>2 DEF InFlight
  <2> DEFINE z == Budget * GroupSize
             y == c * GroupSize
             f == InFlight'
  <2>4. z \in Nat /\ y \in Nat /\ f \in Nat /\ f = InFlight + y /\ InFlight \in Nat /\ f <= z /\ z < f + GroupSize
    BY <1>6, <1>12, <2>3
  <2>5. CapacitySlots' = IF f >= z THEN 0 ELSE (z - f) \div GroupSize
    BY DEF CapacitySlots
  <2> HIDE DEF z, y, f
  <2>6. z - f \in Nat /\ z - f < GroupSize
    BY <1>2, <2>4
  <2>7. (z - f) \div GroupSize = 0
    <3> DEFINE x == z - f
               q == x \div GroupSize
    <3>1. q \in Nat /\ q * GroupSize <= x
      BY <1>2, <2>6, Quotient
    <3>2. SUFFICES ASSUME q >= 1 PROVE FALSE
      BY <3>1
    <3>3. x \in Nat /\ x < GroupSize
      BY <2>6
    <3> HIDE DEF q, x
    <3>4. q * GroupSize >= GroupSize /\ q * GroupSize \in Nat
      BY <1>2, <3>1, <3>2
    <3> DEFINE w == q * GroupSize
    <3>5. w >= GroupSize /\ w \in Nat /\ w <= x
      BY <3>1, <3>4
    <3> HIDE DEF w
    <3> QED
      BY <1>2, <3>3, <3>5
  <2> QED
    BY <2>2, <2>5, <2>7
<1>19. NoMissedWakeup'
  BY <1>17, <1>18 DEF NoMissedWakeup
<1>20. InTime'
  BY <1>1 DEF IInv, InTime, NextVersion
<1> QED
  BY <1>1, <1>4, <1>16, <1>19, <1>20, IInvIsSound

\* A turn of the drain hands out the oldest entries that are not stale, and finds
\* another place for the stale ones.
LEMMA TakeIs ==
    ASSUME TypeOK, taken = <<>>, Take, UNCHANGED version
    PROVE  /\ retryBuffer' \in Seq(Groups) /\ dropped' \in SUBSET Groups
           /\ buffer' \in Seq(Entries) /\ taken' \in Seq(Entries) /\ getPending' \in BOOLEAN
           /\ Range(retryBuffer') \cup dropped' \cup GroupsOf(buffer') \cup GroupsOf(taken')
                = Range(retryBuffer) \cup dropped \cup GroupsOf(buffer)
           /\ Len(retryBuffer') + Cardinality(dropped') + Len(buffer') + Len(taken')
                <= Len(retryBuffer) + Cardinality(dropped) + Len(buffer)
           /\ getPending' => taken' = <<>> /\ Len(buffer') <= Len(buffer)
           /\ ~getPending' => Len(buffer') + Batch <= Len(buffer)
           /\ (\A i \in DOMAIN buffer : ~IsStale(buffer[i])) =>
                 Len(buffer) = Len(buffer') + (IF getPending' THEN 0 ELSE Batch)
           /\ Len(taken') = IF getPending' THEN 0 ELSE Batch
           /\ \A i \in 1..Len(taken') : \E j \in DOMAIN buffer : taken'[i] = buffer[j] /\ ~IsStale(buffer[j])
           /\ IInv => InTime'
<1> DEFINE K == Fresh
           L == DOMAIN buffer \ Fresh
           kept == Selected(buffer, Fresh)
           stale == Selected(buffer, L)
<1>1. /\ buffer \in Seq(Entries) /\ Len(buffer) \in Nat /\ Len(retryBuffer) \in Nat /\ TypeOK
      /\ version \in Nat /\ Batch \in Nat /\ Batch >= 1 /\ MaxStaleness \in Nat
  BY SlotsAre, SizesAssumption DEF TypeOK, Versions
<1>2. K \in SUBSET DOMAIN buffer /\ L \in SUBSET DOMAIN buffer
  BY DEF Fresh
<1>3. /\ HandleUnused(IdsOf(stale))
      /\ Len(kept) >= Batch => /\ taken' = SubSeq(kept, 1, Batch)
                               /\ buffer' = SubSeq(kept, Batch + 1, Len(kept))
                               /\ getPending' = FALSE
      /\ ~(Len(kept) >= Batch) => buffer' = kept /\ getPending' = TRUE /\ taken' = taken
  BY DEF Take
<1>4. /\ kept \in Seq(Entries) /\ Len(kept) = Cardinality(K) /\ Len(kept) \in 0..Len(buffer)
      /\ \A k \in 1..Len(kept) : Nth(K, k) \in DOMAIN buffer /\ k <= Nth(K, k) /\ kept[k] = buffer[Nth(K, k)]
  <2> HIDE DEF K
  <2>1. /\ Selected(buffer, K) \in Seq(Entries) /\ Len(Selected(buffer, K)) = Cardinality(K)
        /\ Cardinality(K) \in 0..Len(buffer)
        /\ \A k \in 1..Cardinality(K) :
              Nth(K, k) \in DOMAIN buffer /\ k <= Nth(K, k) /\ Selected(buffer, K)[k] = buffer[Nth(K, k)]
    BY <1>1, <1>2, SelectedIs
  <2> QED
    BY <2>1 DEF K
<1>5. stale \in Seq(Entries)
  <2> HIDE DEF L
  <2> QED
    BY <1>1, <1>2, SelectedIs
<1>6. /\ Range(buffer) = Range(kept) \cup Range(stale) /\ Len(buffer) = Len(kept) + Len(stale)
  BY <1>1, <1>2, SelectedSplit
<1>7. (\A i \in DOMAIN buffer : ~IsStale(buffer[i])) => Len(kept) = Len(buffer)
  <2> SUFFICES ASSUME \A i \in DOMAIN buffer : ~IsStale(buffer[i]) PROVE Len(kept) = Len(buffer)
    OBVIOUS
  <2>1. L = {}
    BY DEF Fresh
  <2>2. Len(stale) = Cardinality(L)
    <3> HIDE DEF L
    <3> QED
      BY <1>1, <1>2, SelectedIs
  <2>3. Len(stale) = 0
    BY <2>1, <2>2, FS_EmptySet
  <2>4. Len(kept) \in Nat
    BY <1>1, <1>4
  <2> QED
    BY <1>6, <2>3, <2>4
<1> HIDE DEF kept, stale, K, L
<1>9. IdsOf(stale) \in Seq(Groups) /\ Len(IdsOf(stale)) = Len(stale) /\ Range(IdsOf(stale)) = GroupsOf(stale)
  BY <1>5, IdsAre
<1>10. GroupsOf(buffer) = GroupsOf(kept) \cup GroupsOf(stale)
  BY <1>6, GroupsOfRange
<1>11. /\ retryBuffer' \in Seq(Groups) /\ dropped' \in SUBSET Groups
       /\ Len(retryBuffer') \in Nat /\ Cardinality(dropped) \in Nat /\ Cardinality(dropped') \in Nat
       /\ Range(retryBuffer') \cup dropped' = Range(retryBuffer) \cup dropped \cup GroupsOf(stale)
       /\ Len(retryBuffer') + Cardinality(dropped') <= Len(retryBuffer) + Cardinality(dropped) + Len(stale)
  <2> DEFINE gs == IdsOf(stale)
  <2>1. gs \in Seq(Groups) /\ HandleUnused(gs) /\ Len(gs) = Len(stale) /\ Range(gs) = GroupsOf(stale)
    BY <1>3, <1>9
  <2> HIDE DEF gs
  <2>2. /\ retryBuffer' \in Seq(Groups) /\ dropped' \in SUBSET Groups
        /\ Len(retryBuffer') \in Nat /\ Cardinality(dropped) \in Nat /\ Cardinality(dropped') \in Nat
        /\ Range(retryBuffer') \cup dropped' = Range(retryBuffer) \cup dropped \cup Range(gs)
        /\ Len(retryBuffer') + Cardinality(dropped') <= Len(retryBuffer) + Cardinality(dropped) + Len(gs)
    BY <1>1, <2>1, HandledAre
  <2> QED
    BY <2>1, <2>2
<1>12. /\ buffer' \in Seq(Entries) /\ taken' \in Seq(Entries) /\ getPending' \in BOOLEAN
       /\ GroupsOf(kept) = GroupsOf(buffer') \cup GroupsOf(taken')
       /\ Len(buffer') \in Nat /\ Len(taken') \in Nat /\ Len(kept) = Len(buffer') + Len(taken')
       /\ Len(taken') = IF getPending' THEN 0 ELSE Batch
       /\ getPending' => taken' = <<>> /\ buffer' = kept
       /\ ~getPending' => \A i \in 1..Len(buffer') : buffer'[i] = kept[Batch + i] /\ Batch + i \in 1..Len(kept)
  <2>1. CASE Len(kept) >= Batch
    <3>1. Batch \in 0..Len(kept) /\ Len(kept) \in Nat
      BY <1>1, <1>4, <2>1
    <3>2. /\ SubSeq(kept, 1, Batch) \in Seq(Entries) /\ Len(SubSeq(kept, 1, Batch)) = Batch
          /\ SubSeq(kept, Batch + 1, Len(kept)) \in Seq(Entries)
          /\ Len(SubSeq(kept, Batch + 1, Len(kept))) = Len(kept) - Batch
          /\ \A i \in 1..(Len(kept) - Batch) : SubSeq(kept, Batch + 1, Len(kept))[i] = kept[Batch + i]
          /\ Range(kept) = Range(SubSeq(kept, 1, Batch)) \cup Range(SubSeq(kept, Batch + 1, Len(kept)))
      BY <1>4, <3>1, SplitAt
    <3>3. /\ buffer' \in Seq(Entries) /\ taken' \in Seq(Entries) /\ Len(taken') = Batch
          /\ Len(buffer') = Len(kept) - Batch /\ getPending' = FALSE
          /\ \A i \in 1..(Len(kept) - Batch) : buffer'[i] = kept[Batch + i]
          /\ Range(kept) = Range(taken') \cup Range(buffer')
      BY <1>3, <2>1, <3>2
    <3>4. GroupsOf(kept) = GroupsOf(buffer') \cup GroupsOf(taken')
      BY <3>3, GroupsOfRange
    <3>5. Len(kept) - Batch \in Nat /\ Len(kept) = (Len(kept) - Batch) + Batch
      BY <1>1, <2>1, <3>1
    <3>6. \A i \in 1..(Len(kept) - Batch) : Batch + i \in 1..Len(kept)
      BY <1>1, <2>1, <3>1
    <3> QED
      BY <1>1, <3>3, <3>4, <3>5, <3>6
  <2>2. CASE ~(Len(kept) >= Batch)
    <3>1. buffer' = kept /\ getPending' = TRUE /\ taken' = <<>>
      BY <1>3, <2>2
    <3>2. <<>> \in Seq(Entries) /\ Len(<<>>) = 0 /\ GroupsOf(<<>>) = {}
      BY DEF GroupsOf
    <3>3. Len(kept) \in Nat
      BY <1>4, LenProperties
    <3> QED
      BY <1>4, <3>1, <3>2, <3>3
  <2> QED
    BY <2>1, <2>2
<1>13. Range(retryBuffer') \cup dropped' \cup GroupsOf(buffer') \cup GroupsOf(taken')
         = Range(retryBuffer) \cup dropped \cup GroupsOf(buffer)
  BY <1>10, <1>11, <1>12
<1>14. Len(retryBuffer') + Cardinality(dropped') + Len(buffer') + Len(taken')
         <= Len(retryBuffer) + Cardinality(dropped) + Len(buffer)
  <2>1. ASSUME NEW r1 \in Nat, NEW d1 \in Nat, NEW b1 \in Nat, NEW t1 \in Nat, NEW r \in Nat, NEW d \in Nat, NEW s \in Nat,
               r1 + d1 <= r + d + s
        PROVE  r1 + d1 + b1 + t1 <= r + d + ((b1 + t1) + s)
    BY <2>1
  <2>2. Len(stale) \in Nat
    BY <1>5, LenProperties
  <2>3. Len(buffer) = (Len(buffer') + Len(taken')) + Len(stale)
    BY <1>6, <1>12
  <2>4. Len(retryBuffer') + Cardinality(dropped') + Len(buffer') + Len(taken')
          <= Len(retryBuffer) + Cardinality(dropped) + ((Len(buffer') + Len(taken')) + Len(stale))
    BY <1>1, <1>11, <1>12, <2>1, <2>2
  <2> QED
    BY <2>3, <2>4
<1>15. /\ getPending' => Len(buffer') <= Len(buffer)
       /\ ~getPending' => Len(buffer') + Batch <= Len(buffer)
       /\ Len(kept) = Len(buffer) => Len(buffer) = Len(buffer') + (IF getPending' THEN 0 ELSE Batch)
  <2>1. Len(kept) <= Len(buffer) /\ Len(kept) \in Nat
    BY <1>1, <1>4
  <2>2. Len(kept) = Len(buffer') + (IF getPending' THEN 0 ELSE Batch)
    BY <1>12
  <2>3. getPending' => Len(kept) = Len(buffer')
    BY <1>12
  <2>4. ~getPending' => Len(kept) = Len(buffer') + Batch
    BY <1>12
  <2> QED
    BY <1>1, <1>12, <2>1, <2>2, <2>3, <2>4
<1>16. ASSUME IInv PROVE InTime'
  <2>1. DOMAIN buffer' = 1..Len(buffer')
    BY <1>12, LenProperties
  <2>2. NextVersion = version
    BY DEF NextVersion
  <2>3. WithinStaleness => \A j \in DOMAIN buffer : (version - buffer[j].at) * Batch + j <= (MaxStaleness + 1) * Batch
    BY <1>16, <2>2 DEF IInv, InTime
  <2>4. DOMAIN buffer = 1..Len(buffer) /\ \A j \in DOMAIN buffer : buffer[j].at \in Nat /\ j \in Nat
    <3>1. DOMAIN buffer = 1..Len(buffer) /\ \A j \in DOMAIN buffer : buffer[j] \in Entries
      BY <1>1, LenProperties, ElementOfSeq
    <3> QED
      BY <1>1, <3>1, SizesAssumption DEF Entries, Versions
  <2>5. SUFFICES ASSUME WithinStaleness, NEW i \in 1..Len(buffer')
                 PROVE  (NextVersion' - buffer'[i].at) * Batch + i <= (MaxStaleness + 1) * Batch
    BY <2>1 DEF InTime
  <2>6. i \in Nat
    BY <1>12
  <2> DEFINE z == (MaxStaleness + 1) * Batch
  <2>7. z \in Nat
    BY <1>1
  <2>8. CASE getPending'
    <3>1. NextVersion' = version
      BY <1>12, <2>8 DEF NextVersion
    <3> DEFINE j == Nth(K, i)
    <3>2. j \in DOMAIN buffer /\ i <= j /\ buffer'[i] = buffer[j]
      BY <1>4, <1>12, <2>8
    <3>3. (version - buffer[j].at) * Batch + j <= z /\ (version - buffer[j].at) * Batch \in Int
      BY <1>1, <2>3, <2>4, <2>5, <3>2
    <3> HIDE DEF j
    <3> DEFINE x == (version - buffer[j].at) * Batch
    <3>4. x \in Int /\ x + j <= z /\ j \in Nat
      BY <2>4, <3>2, <3>3
    <3> HIDE DEF x, z
    <3>5. x + i <= z
      BY <2>6, <2>7, <3>2, <3>4
    <3> QED
      BY <3>1, <3>2, <3>5 DEF x, z
  <2>9. CASE ~getPending'
    <3>1. NextVersion' = version + 1
      <4>1. Len(taken') = Batch
        BY <1>12, <2>9
      <4>2. taken' # <<>>
        BY <1>1, <4>1
      <4> QED
        BY <4>2 DEF NextVersion
    <3> DEFINE k == Batch + i
               j == Nth(K, k)
    <3>2. k \in 1..Len(kept) /\ buffer'[i] = kept[k]
      BY <1>12, <2>9
    <3> HIDE DEF k
    <3>3. j \in DOMAIN buffer /\ k <= j /\ buffer'[i] = buffer[j]
      BY <1>4, <3>2
    <3> HIDE DEF j
    <3>4. (version - buffer[j].at) * Batch + j <= z
      BY <2>3, <2>5, <3>3
    <3>5. /\ (version + 1 - buffer[j].at) * Batch = (version - buffer[j].at) * Batch + Batch
          /\ (version - buffer[j].at) * Batch \in Int
      <4>1. buffer[j].at \in Nat
        BY <2>4, <3>3
      <4>2. ASSUME NEW v \in Nat, NEW a \in Nat, NEW b \in Nat
            PROVE  (v + 1 - a) * b = (v - a) * b + b /\ (v - a) * b \in Int
        OBVIOUS
      <4> QED
        BY <1>1, <4>1, <4>2
    <3> DEFINE x == (version - buffer[j].at) * Batch
    <3>6. x \in Int /\ x + j <= z /\ j \in Nat /\ Batch + i <= j
      BY <2>4, <3>3, <3>4, <3>5 DEF k
    <3>7. (NextVersion' - buffer'[i].at) * Batch = x + Batch
      <4>1. NextVersion' - buffer'[i].at = version + 1 - buffer[j].at
        <5>1. buffer'[i].at = buffer[j].at
          BY <3>3
        <5>2. version \in Nat /\ buffer[j].at \in Nat
          BY <1>1, <2>4, <3>3
        <5> QED
          BY <3>1, <5>1, <5>2
      <4>2. (NextVersion' - buffer'[i].at) * Batch = (version + 1 - buffer[j].at) * Batch
        BY <4>1
      <4> QED
        BY <3>5, <4>2
    <3> HIDE DEF x, z
    <3>8. (x + Batch) + i <= z
      BY <1>1, <2>6, <2>7, <3>6
    <3>9. (NextVersion' - buffer'[i].at) * Batch + i <= z
      BY <3>7, <3>8
    <3> QED
      BY <3>9 DEF z
  <2> QED
    BY <1>12, <2>8, <2>9
<1>17. \A i \in 1..Len(taken') : \E j \in DOMAIN buffer : taken'[i] = buffer[j] /\ ~IsStale(buffer[j])
  <2> SUFFICES ASSUME NEW i \in 1..Len(taken')
               PROVE  \E j \in DOMAIN buffer : taken'[i] = buffer[j] /\ ~IsStale(buffer[j])
    OBVIOUS
  <2>1. ~getPending' /\ i \in 1..Batch
    BY <1>1, <1>12
  <2>2. taken'[i] = kept[i] /\ i \in 1..Len(kept)
    <3>1. Len(kept) >= Batch
      BY <1>3, <2>1
    <3>2. taken' = SubSeq(kept, 1, Batch) /\ Len(kept) \in Nat
      BY <1>3, <1>4, <3>1
    <3> QED
      BY <1>1, <1>4, <2>1, <3>1, <3>2, SubSeqProperties
  <2>3. kept[i] \in Range(kept) /\ Range(kept) = {buffer[j] : j \in K}
    <3>1. Range(kept) = {buffer[j] : j \in K}
      BY <1>1, <1>2, SelectedIs DEF kept, K
    <3>2. DOMAIN kept = 1..Len(kept)
      BY <1>4, LenProperties
    <3> QED
      BY <2>2, <3>1, <3>2 DEF Range
  <2>4. PICK j \in K : kept[i] = buffer[j]
    BY <2>3
  <2> QED
    BY <2>2, <2>4 DEF K, Fresh
<1> QED
  BY <1>7, <1>11, <1>12, <1>13, <1>14, <1>15, <1>16, <1>17

\* A turn of the drain moves groups between the places only.
LEMMA DrainSound ==
    ASSUME NEW old \in SUBSET Groups, Sound(old), taken = <<>>, Take,
           UNCHANGED <<drawn, running, samplesInFlight, sampleDone, done, putting, resumed, trained, version>>,
           worker' = worker \/ (worker = "none" /\ worker' = "top"),
           admissionChanged' \in BOOLEAN
    PROVE  SoundNext(old)
<1>1. /\ retryBuffer' \in Seq(Groups) /\ dropped' \in SUBSET Groups
      /\ buffer' \in Seq(Entries) /\ taken' \in Seq(Entries) /\ getPending' \in BOOLEAN
      /\ Range(retryBuffer') \cup dropped' \cup GroupsOf(buffer') \cup GroupsOf(taken')
           = Range(retryBuffer) \cup dropped \cup GroupsOf(buffer)
      /\ Len(retryBuffer') + Cardinality(dropped') + Len(buffer') + Len(taken')
           <= Len(retryBuffer) + Cardinality(dropped) + Len(buffer)
      /\ getPending' => taken' = <<>> /\ Len(buffer') <= Len(buffer)
      /\ ~getPending' => Len(buffer') + Batch <= Len(buffer)
      /\ (\A i \in DOMAIN buffer : ~IsStale(buffer[i])) =>
            Len(buffer) = Len(buffer') + (IF getPending' THEN 0 ELSE Batch)
  BY TakeIs DEF Sound, Core
<1>2. /\ Len(buffer) \in Nat /\ Len(running) \in Nat /\ Len(retryBuffer) \in Nat /\ Occupied \in Nat /\ Window \in Nat
      /\ Batch \in Nat /\ Batch >= 1 /\ MaxStaleness \in Nat
  BY SlotsAre, SizesAssumption DEF Sound, Core
<1>3. TypeOK'
  BY <1>1 DEF Sound, Core, TypeOK
<1>4. /\ Len(buffer') \in Nat /\ Len(retryBuffer') \in Nat /\ Len(taken') \in Nat
      /\ Cardinality(dropped) \in Nat /\ Cardinality(dropped') \in Nat /\ Cardinality(old) \in Nat
  BY <1>1, LenProperties, GroupsAreFinite DEF Sound, Core, TypeOK
<1>5. AllPlaced(drawn', retryBuffer', running', buffer', taken', old, dropped')
  <2>1. /\ 1..drawn = Range(retryBuffer) \cup GroupsOf(running) \cup GroupsOf(buffer)
                        \cup GroupsOf(taken) \cup old \cup dropped
        /\ drawn = Len(retryBuffer) + Len(running) + Len(buffer) + Len(taken)
                     + Cardinality(old) + Cardinality(dropped)
    BY DEF Sound, AllPlaced, Places, Total
  <2>2. GroupsOf(taken) = {} /\ Len(taken) = 0
    BY DEF GroupsOf
  <2>3. 1..drawn' = Places(retryBuffer', running', buffer', taken', old, dropped')
    BY <1>1, <2>1, <2>2 DEF Places
  <2>4. Total(retryBuffer', running', buffer', taken', old, dropped') <= drawn'
    <3>1. ASSUME NEW r1 \in Nat, NEW d1 \in Nat, NEW b1 \in Nat, NEW t1 \in Nat,
                 NEW r \in Nat, NEW d \in Nat, NEW b \in Nat, NEW u \in Nat, NEW o \in Nat,
                 r1 + d1 + b1 + t1 <= r + d + b
          PROVE  r1 + u + b1 + t1 + o + d1 <= r + u + b + 0 + o + d
      BY <3>1
    <3>2. Total(retryBuffer', running', buffer', taken', old, dropped')
            = Len(retryBuffer') + Len(running) + Len(buffer') + Len(taken') + Cardinality(old) + Cardinality(dropped')
      BY DEF Total
    <3>3. drawn' = Len(retryBuffer) + Len(running) + Len(buffer) + 0 + Cardinality(old) + Cardinality(dropped)
      BY <2>1, <2>2
    <3>4. Len(retryBuffer') + Len(running) + Len(buffer') + Len(taken') + Cardinality(old) + Cardinality(dropped')
            <= Len(retryBuffer) + Len(running) + Len(buffer) + 0 + Cardinality(old) + Cardinality(dropped)
      <4> DEFINE r1 == Len(retryBuffer')
                 d1 == Cardinality(dropped')
                 b1 == Len(buffer')
                 t1 == Len(taken')
                 r == Len(retryBuffer)
                 d == Cardinality(dropped)
                 b == Len(buffer)
                 u == Len(running)
                 o == Cardinality(old)
      <4>1. /\ r1 \in Nat /\ d1 \in Nat /\ b1 \in Nat /\ t1 \in Nat /\ r \in Nat /\ d \in Nat
            /\ b \in Nat /\ u \in Nat /\ o \in Nat /\ r1 + d1 + b1 + t1 <= r + d + b
        BY <1>1, <1>2, <1>4
      <4> HIDE DEF r1, d1, b1, t1, r, d, b, u, o
      <4>2. r1 + u + b1 + t1 + o + d1 <= r + u + b + 0 + o + d
        BY <4>1, <3>1
      <4> QED
        BY <4>2 DEF r1, d1, b1, t1, r, d, b, u, o
    <3> QED
      BY <3>2, <3>3, <3>4
  <2> QED
    BY <1>3, <2>3, <2>4, PlacesKept
<1>6. /\ FinishedHaveNoneLeft' /\ Finished' = Finished /\ SampleAccounting'
  BY DEF Sound, Core, FinishedHaveNoneLeft, Finished, SampleAccounting, Unfinished
<1>7. BufferBound'
  <2>1. Len(buffer') <= Len(buffer)
    BY <1>1, <1>2, <1>4
  <2> QED
    BY <1>2, <1>4, <2>1, SizesAssumption DEF Sound, Core, BufferBound
<1>8. WorkerPutsFinished' /\ OneBatch'
  BY <1>1, <1>6 DEF Sound, Core, WorkerPutsFinished, OneBatch
<1> QED
  BY <1>3, <1>5, <1>6, <1>7, <1>8 DEF SoundNext, Core

\* A turn of the drain keeps the invariant, if the worker is told when the window opens.
LEMMA DrainKeeps ==
    ASSUME IInv, taken = <<>>, Take,
           UNCHANGED <<drawn, running, samplesInFlight, sampleDone, done, putting, resumed, trained, version>>,
           worker' = worker \/ (worker = "none" /\ worker' = "top"),
           admissionChanged' \in BOOLEAN,
           \/ admissionChanged'
           \/ /\ admissionChanged' = admissionChanged /\ getPending
              /\ \A i \in DOMAIN buffer : ~IsStale(buffer[i])
    PROVE  IInv'
<1>1. /\ getPending' => taken' = <<>> /\ Len(buffer') <= Len(buffer)
      /\ ~getPending' => Len(buffer') + Batch <= Len(buffer)
      /\ (\A i \in DOMAIN buffer : ~IsStale(buffer[i])) =>
            Len(buffer) = Len(buffer') + (IF getPending' THEN 0 ELSE Batch)
      /\ InTime' /\ buffer' \in Seq(Entries)
  BY TakeIs, IInvIsSound
<1>2. /\ Len(buffer) \in Nat /\ Len(running) \in Nat /\ Len(retryBuffer) \in Nat /\ Occupied \in Nat /\ Window \in Nat
      /\ Batch \in Nat /\ Batch >= 1 /\ MaxStaleness \in Nat
  BY SlotsAre, SizesAssumption, IInvIsSound
<1>3. SoundNext(trained)
  BY IInvIsSound, DrainSound
<1>4. Len(buffer') \in Nat
  BY <1>1, LenProperties
<1>5. CapacitySlots' = CapacitySlots
  BY DEF CapacitySlots, InFlight
<1> DEFINE S == MaxStaleness * Batch
<1>9. /\ S \in Nat
      /\ Window = IF getPending THEN S + Batch ELSE S
      /\ Window' = IF getPending' THEN S + Batch ELSE S
  <2>1. S \in Nat /\ (MaxStaleness + 1) * Batch = S + Batch /\ (MaxStaleness + 0) * Batch = S
    BY <1>2
  <2>2. Window = IF getPending THEN (MaxStaleness + 1) * Batch ELSE (MaxStaleness + 0) * Batch
    BY DEF Window
  <2>3. Window' = IF getPending' THEN (MaxStaleness + 1) * Batch ELSE (MaxStaleness + 0) * Batch
    BY DEF Window
  <2> HIDE DEF S
  <2> QED
    BY <2>1, <2>2, <2>3
<1>10. Occupied' = Len(buffer') + Len(running) /\ Occupied = Len(buffer) + Len(running) /\ Occupied' \in Nat
  BY <1>2, <1>4 DEF Occupied
<1> HIDE DEF S
<1>11. AdmissionWindow'
  <2>1. SUFFICES ASSUME WithinStaleness, worker' # "dead" PROVE Occupied' <= Window'
    BY WindowKept
  <2>2. Occupied <= Window
    BY <2>1, WindowKept DEF IInv
  <2>3. CASE getPending'
    <3>1. Len(buffer') <= Len(buffer) /\ Window' = S + Batch
      BY <1>1, <1>9, <2>3
    <3>2. Window <= S + Batch
      BY <1>2, <1>9
    <3> QED
      BY <1>2, <1>4, <1>9, <1>10, <2>2, <3>1, <3>2
  <2>4. CASE ~getPending'
    <3>1. Len(buffer') + Batch <= Len(buffer) /\ Window' = S
      BY <1>1, <1>9, <2>4
    <3>2. Window <= S + Batch
      BY <1>2, <1>9
    <3> QED
      BY <1>2, <1>4, <1>9, <1>10, <2>2, <3>1, <3>2
  <2> QED
    BY <2>3, <2>4
<1>12. worker' = "admission" /\ ~admissionChanged' => AdmissionSlots' = 0
  <2> SUFFICES ASSUME worker' = "admission", ~admissionChanged' PROVE AdmissionSlots' = 0
    OBVIOUS
  <2>1. /\ worker = "admission" /\ ~admissionChanged /\ getPending
        /\ Len(buffer) = Len(buffer') + (IF getPending' THEN 0 ELSE Batch)
    BY <1>1
  <2>2. AdmissionSlots = 0
    BY <2>1 DEF IInv, NoMissedWakeup
  <2>3. WithinStaleness /\ ~(Occupied < Window)
    <3>1. Budget + 1 # 0
      BY SizesAssumption
    <3>2. Occupied < Window => Window - Occupied # 0
      BY <1>2
    <3> QED
      BY <2>2, <3>1, <3>2 DEF AdmissionSlots
  <2>4. ~(Occupied' < Window')
    <3>1. CASE getPending'
      BY <1>2, <1>4, <1>9, <1>10, <2>1, <2>3, <3>1
    <3>2. CASE ~getPending'
      <4>1. Len(buffer) = Len(buffer') + Batch /\ Window' = S /\ Window = S + Batch
        BY <1>9, <2>1, <3>2
      <4> QED
        BY <1>2, <1>4, <1>9, <1>10, <2>3, <4>1
    <3> QED
      BY <3>1, <3>2
  <2> QED
    BY <2>3, <2>4 DEF AdmissionSlots
<1>13. NoMissedWakeup'
  BY <1>5, <1>12 DEF NoMissedWakeup, IInv
<1> QED
  BY <1>1, <1>3, <1>11, <1>13, IInvIsSound

\* The drain starts, or goes on.
LEMMA DrainsKeep == ASSUME IInv, StartDrain \/ DrainWakes PROVE IInv'
<1>1. CASE StartDrain
  BY <1>1, DrainKeeps DEF StartDrain, StartWorker
<1>2. CASE DrainWakes
  <2>1. taken = <<>>
    BY <1>2 DEF DrainWakes, IInv, OneBatch
  <2>2. admissionChanged \in BOOLEAN
    BY DEF IInv, TypeOK
  <2>3. /\ getPending /\ Take
        /\ UNCHANGED <<drawn, running, samplesInFlight, sampleDone, done, putting, resumed, trained, version, worker>>
        /\ admissionChanged' = (admissionChanged \/ \E i \in DOMAIN buffer : IsStale(buffer[i]))
    BY <1>2 DEF DrainWakes, producer
  <2>4. CASE \E i \in DOMAIN buffer : IsStale(buffer[i])
    BY <2>1, <2>2, <2>3, <2>4, DrainKeeps
  <2>5. CASE \A i \in DOMAIN buffer : ~IsStale(buffer[i])
    <3>1. admissionChanged' = admissionChanged
      BY <2>2, <2>3, <2>5
    <3> QED
      BY <2>1, <2>2, <2>3, <2>5, <3>1, DrainKeeps
  <2> QED
    BY <2>4, <2>5
<1> QED
  BY <1>1, <1>2

(***************************************************************************)
(* The theorems.                                                           *)
(***************************************************************************)

\* Before the first call nothing is drawn and the worker has not started.
LEMMA InitIInv == ASSUME Init PROVE IInv
<1>1. /\ drawn = 0 /\ retryBuffer = <<>> /\ running = <<>> /\ samplesInFlight = 0 /\ sampleDone = FALSE
      /\ worker = "none" /\ done = {} /\ putting = NoGroup /\ buffer = <<>> /\ resumed = TRUE
      /\ admissionChanged = FALSE /\ getPending = FALSE /\ taken = <<>> /\ trained = {} /\ dropped = {} /\ version = 0
  BY DEF Init
<1>2. Len(<<>>) = 0 /\ DOMAIN <<>> = {} /\ \A S : <<>> \in Seq(S)
  OBVIOUS
<1>3. MaxDraws \in Nat /\ MaxVersion \in Nat /\ Batch \in Nat /\ MaxStaleness \in Nat /\ Capacity \in Nat
      /\ Budget * GroupSize \in Nat
  BY SizesAssumption
<1>4. TypeOK
  <2>1. 0 \in 0..MaxDraws /\ 0 \in Versions
    BY <1>3 DEF Versions
  <2> QED
    BY <1>1, <1>2, <2>1 DEF TypeOK
<1>5. Conservation
  <2>1. Range(<<>>) = {} /\ GroupsOf(<<>>) = {} /\ 1..0 = {} /\ Cardinality({}) = 0
    BY FS_EmptySet DEF Range, GroupsOf
  <2> QED
    BY <1>1, <1>2, <2>1 DEF Conservation
<1>6. FinishedHaveNoneLeft /\ WorkerPutsFinished /\ OneBatch
  BY <1>1, <1>2 DEF FinishedHaveNoneLeft, WorkerPutsFinished, OneBatch
<1>7. AdmissionWindow /\ InTime /\ BufferBound
  <2>1. (IF getPending THEN MaxStaleness + 1 ELSE MaxStaleness) * Batch \in Nat
    BY <1>1, <1>3
  <2>2. Len(buffer) + Len(running) = 0
    BY <1>1, <1>2
  <2> QED
    BY <1>1, <1>2, <1>3, <2>1, <2>2 DEF AdmissionWindow, InTime, BufferBound
<1>8. SampleAccounting
  <2>1. Unfinished = {}
    BY <1>1, <1>2 DEF Unfinished
  <2> QED
    BY <1>1, <1>3, <2>1, FS_EmptySet DEF SampleAccounting
<1>9. NoMissedWakeup
  BY <1>1 DEF NoMissedWakeup
<1> QED
  BY <1>4, <1>5, <1>6, <1>7, <1>8, <1>9 DEF IInv

\* Every step keeps it.
LEMMA StepIInv == ASSUME IInv, [Next]_vars PROVE IInv'
<1>1. CASE WorkerSubmit
  BY <1>1, WorkerSubmitKeeps
<1>2. CASE \E g \in done : Put(g)
  BY <1>2, PutKeeps
<1>3. CASE PutUnblocks
  BY <1>3, PutUnblocksKeeps
<1>4. CASE \/ WorkerWake \/ WorkerLoops \/ OnWorkerError \/ Dispose \/ PauseForEval \/ ResumeAfterEval
           \/ \E g \in done : PutBlocks(g) \/ WorkerDies(g)
  BY <1>4, ControlKeeps
<1>5. CASE Generation
  BY <1>5, SampleFinishesKeeps, GroupFinishesKeeps DEF Generation
<1>6. CASE StartDrain \/ DrainWakes
  BY <1>6, DrainsKeep
<1>7. CASE TrainStep
  BY <1>7, TrainStepKeeps
<1>8. CASE UNCHANGED vars
  <2>1. UNCHANGED <<places, samplesInFlight, sampleDone, worker, done, putting, resumed, admissionChanged, getPending>>
    BY <1>8 DEF vars, producer, places
  <2>2. /\ FinishedHaveNoneLeft' /\ InTime' /\ SampleAccounting' /\ BufferBound'
        /\ Finished' = Finished /\ Occupied' = Occupied /\ CapacitySlots' = CapacitySlots
        /\ getPending' = getPending => AdmissionSlots' = AdmissionSlots /\ Window' = Window
    <3>1. UNCHANGED <<places, samplesInFlight>>
      BY <2>1
    <3>2. FinishedHaveNoneLeft /\ InTime /\ SampleAccounting /\ BufferBound
      BY DEF IInv
    <3> QED
      BY <3>1, <3>2, QuietFrame
  <2>5. Conservation'
    BY <2>1 DEF IInv, Conservation, GroupsOf, places
  <2>3. TypeOK'
    BY <2>1 DEF IInv, TypeOK, places
  <2>4. WorkerPutsFinished' /\ OneBatch' /\ NoMissedWakeup' /\ AdmissionWindow'
    BY <2>1, <2>2, WindowKept DEF WorkerPutsFinished, IInv, OneBatch, places, NoMissedWakeup
  <2> QED
    BY <2>2, <2>3, <2>4, <2>5 DEF IInv
<1> QED
  BY <1>1, <1>2, <1>3, <1>4, <1>5, <1>6, <1>7, <1>8 DEF Next, Worker

\* Everything the safety of the rollout rests on holds in every reachable state.
THEOREM RolloutInvariant == Spec => []IInv
<1>1. Init => IInv
  BY InitIInv
<1>2. IInv /\ [Next]_vars => IInv'
  BY StepIInv
<1> QED
  BY <1>1, <1>2, PTL DEF Spec

\* No prompt group is lost or duplicated between the data source and the trainer:
\* each is in one place, whatever is aborted, rejected, stale or blocked, and when.
THEOREM GroupsAreConserved == Spec => []Conservation
<1>1. IInv => Conservation
  BY DEF IInv
<1> QED
  BY <1>1, RolloutInvariant, PTL

\* What is generated ahead stays within the staleness window (admits()).
THEOREM WindowIsKept == Spec => []AdmissionWindow
<1>1. IInv => AdmissionWindow
  BY DEF IInv
<1> QED
  BY <1>1, RolloutInvariant, PTL

\* The promise of admits(): a group that enters the buffer waits there for at most
\* max_weight_staleness versions.
THEOREM NoneWaitsTooLong == Spec => []BoundedQueueing
<1>1. IInv => BoundedQueueing
  <2> SUFFICES ASSUME IInv, WithinStaleness, NEW i \in DOMAIN buffer
               PROVE  version - buffer[i].at <= MaxStaleness
    BY DEF BoundedQueueing
  <2>1. buffer \in Seq(Entries) /\ version \in Nat /\ Batch \in Nat /\ Batch >= 1 /\ MaxStaleness \in Nat
    BY SizesAssumption DEF IInv, TypeOK, Versions
  <2>2. buffer[i] \in Entries /\ i \in Nat /\ i >= 1
    BY <2>1, LenProperties, ElementOfSeq
  <2>3. buffer[i].at \in Nat
    BY <2>2, SizesAssumption DEF Entries, Versions
  <2>4. NextVersion \in Nat /\ NextVersion >= version
    BY <2>1 DEF NextVersion
  <2>5. (NextVersion - buffer[i].at) * Batch + i <= (MaxStaleness + 1) * Batch
    BY DEF IInv, InTime
  <2> DEFINE w == NextVersion - buffer[i].at
  <2>6. w \in Int /\ w >= version - buffer[i].at
    BY <2>1, <2>3, <2>4
  <2>7. w * Batch + i <= (MaxStaleness + 1) * Batch
    BY <2>5
  <2> HIDE DEF w
  <2>8. w <= MaxStaleness
    <3>1. ASSUME w >= MaxStaleness + 1 PROVE FALSE
      <4>1. w * Batch >= (MaxStaleness + 1) * Batch /\ w * Batch \in Int /\ (MaxStaleness + 1) * Batch \in Int
        BY <2>1, <2>6, <3>1
      <4> DEFINE x == w * Batch
                 y == (MaxStaleness + 1) * Batch
      <4>2. x >= y /\ x \in Int /\ y \in Int /\ x + i <= y
        BY <2>7, <4>1
      <4> HIDE DEF x, y
      <4> QED
        BY <2>2, <4>2
    <3> QED
      BY <2>1, <2>6, <3>1
  <2> QED
    BY <2>1, <2>3, <2>6, <2>8
<1> QED
  BY <1>1, RolloutInvariant, PTL

\* The scheduler's count is the number of unfinished samples and within the budget,
\* and a woken put() never overfills the buffer.
THEOREM LimitsAreKept == Spec => []WithinLimits
<1>1. IInv => WithinLimits
  BY DEF IInv, WithinLimits
<1> QED
  BY <1>1, RolloutInvariant, PTL

\* The worker waits only while it cannot submit, or its event is set.
THEOREM WorkerIsWoken == Spec => []NoMissedWakeup
<1>1. IInv => NoMissedWakeup
  BY DEF IInv
<1> QED
  BY <1>1, RolloutInvariant, PTL


(***************************************************************************)
(* Lemmas about what the executor and the checkpoints keep.                *)
(***************************************************************************)

\* The next step is one further into the update interval, unless it begins one.
LEMMA NextOfInterval ==
    ASSUME NEW n \in Nat, NEW k \in Nat \ {0}
    PROVE  /\ n % k \in 0..(k - 1)
           /\ (n + 1) % k # 0 => (n + 1) % k = (n % k) + 1
<1> DEFINE q == n \div k
           r == n % k
<1>1. q \in Int /\ r \in 0..(k - 1) /\ n = k * q + r
  OBVIOUS
<1>2. n + 1 = k * q + (r + 1)
  BY <1>1
<1> DEFINE q2 == (n + 1) \div k
           r2 == (n + 1) % k
<1>3. q2 \in Int /\ r2 \in 0..(k - 1) /\ n + 1 = k * q2 + r2
  OBVIOUS
<1> HIDE DEF q, r, q2, r2
<1>4. ASSUME r2 # 0 PROVE r2 = r + 1
  <2>1. k * (q2 - q) = k * q2 - k * q
    BY <1>1, <1>3
  <2>2. k * (q2 - q) = r + 1 - r2
    BY <1>1, <1>2, <1>3, <2>1
  <2>3. r + 1 - r2 < k /\ r + 1 - r2 > -k
    BY <1>1, <1>3, <1>4
  <2> DEFINE d == q2 - q
  <2>4. d \in Int /\ k * d < k /\ k * d > -k /\ k \in Int /\ k >= 1
    BY <1>1, <1>3, <2>2, <2>3
  <2> HIDE DEF d
  <2>5. d = 0
    <3>1. CASE d >= 1
      <4>1. k * d >= k
        BY <2>4, <3>1
      <4> QED
        BY <2>4, <4>1
    <3>2. CASE d <= -1
      <4>1. k * d <= -k
        BY <2>4, <3>2
      <4> QED
        BY <2>4, <4>1
    <3> QED
      BY <2>4, <3>1, <3>2
  <2>6. q2 = q
    BY <1>1, <1>3, <2>5 DEF d
  <2> QED
    BY <1>1, <1>2, <1>3, <2>6
<1> QED
  BY <1>1, <1>4 DEF r, r2

\* Choosing among snapshots keeps each of those chosen, and no two of one rollout.
LEMMA SnapshotsSelected ==
    ASSUME NEW snaps, SnapshotsOK(snaps), NEW K \in SUBSET DOMAIN snaps
    PROVE  /\ SnapshotsOK(Selected(snaps, K)) /\ IsFiniteSet(K) /\ Len(Selected(snaps, K)) = Cardinality(K)
           /\ DOMAIN Selected(snaps, K) = 1..Cardinality(K)
           /\ \A k \in DOMAIN Selected(snaps, K) : \E i \in K : Selected(snaps, K)[k] = snaps[i]
           /\ \A i \in K : \E k \in DOMAIN Selected(snaps, K) : Selected(snaps, K)[k] = snaps[i]
<1> DEFINE t == Selected(snaps, K)
           c == Cardinality(K)
           n == Len(snaps)
<1>1. snaps \in Seq(Snapshots) /\ n \in Nat /\ DOMAIN snaps = 1..n
  BY LenProperties DEF SnapshotsOK
<1>2. /\ t \in Seq(Snapshots) /\ IsFiniteSet(K) /\ Len(t) = c
      /\ \A k \in 1..c : t[k] = snaps[Nth(K, k)]
  BY <1>1, SelectedIs
<1>3. /\ \A k \in 1..c : Nth(K, k) \in K
      /\ \A i \in K : \E k \in 1..c : Nth(K, k) = i
      /\ \A k, l \in 1..c : Nth(K, k) = Nth(K, l) => k = l
  BY <1>1, NthIs
<1>4. DOMAIN t = 1..c
  BY <1>2, LenProperties
<1> HIDE DEF t, c
<1>5. \A k, l \in 1..c : t[k].id = t[l].id => k = l
  <2> SUFFICES ASSUME NEW k \in 1..c, NEW l \in 1..c, t[k].id = t[l].id PROVE k = l
    OBVIOUS
  <2>1. snaps[Nth(K, k)].id = snaps[Nth(K, l)].id /\ Nth(K, k) \in DOMAIN snaps /\ Nth(K, l) \in DOMAIN snaps
    BY <1>2, <1>3
  <2>2. Nth(K, k) = Nth(K, l)
    BY <2>1 DEF SnapshotsOK
  <2> QED
    BY <1>3, <2>2
<1>6. \A k \in 1..c : t[k].batch # <<>> /\ WithinLag(t[k].batch, t[k].id)
  BY <1>2, <1>3 DEF SnapshotsOK
<1>7. SnapshotsOK(t)
  BY <1>2, <1>4, <1>5, <1>6 DEF SnapshotsOK
<1> QED
  BY <1>2, <1>3, <1>4, <1>7 DEF t, c

\* Choosing all there is changes nothing.
LEMMA SelectedAll ==
    ASSUME NEW S, NEW s \in Seq(S), Len(s) <= 1
    PROVE  Selected(s, DOMAIN s) = s /\ Selected(s, {}) = <<>>
<1>1. Len(s) \in Nat /\ DOMAIN s = 1..Len(s)
  BY LenProperties
<1>2. /\ Selected(s, {}) \in Seq(S) /\ Len(Selected(s, {})) = Cardinality({})
      /\ Selected(s, DOMAIN s) \in Seq(S) /\ Len(Selected(s, DOMAIN s)) = Cardinality(DOMAIN s)
      /\ \A k \in 1..Cardinality(DOMAIN s) :
            /\ Nth(DOMAIN s, k) \in DOMAIN s
            /\ Selected(s, DOMAIN s)[k] = s[Nth(DOMAIN s, k)]
  BY SelectedIs
<1>3. Cardinality({}) = 0
  BY FS_EmptySet
<1>4. Selected(s, {}) = <<>>
  BY <1>2, <1>3, EmptySeq
<1>5. CASE Len(s) = 0
  <2>1. DOMAIN s = {} /\ s = <<>>
    BY <1>1, <1>5, EmptySeq
  <2> QED
    BY <1>4, <2>1
<1>6. CASE Len(s) = 1
  <2>1. DOMAIN s = {1}
    BY <1>1, <1>6
  <2>2. Cardinality({1}) = 1
    BY FS_Singleton
  <2>3. Len(Selected(s, DOMAIN s)) = 1 /\ Selected(s, DOMAIN s)[1] = s[1]
    BY <1>2, <2>1, <2>2
  <2> QED
    BY <1>2, <1>4, <1>6, <2>3, SeqEqual
<1> QED
  BY <1>1, <1>5, <1>6

\* The output captured last is kept, and of the others only some are.
LEMMA RetainIs ==
    ASSUME NEW snaps, SnapshotsOK(snaps), NEW e \in Snapshots, e.phase = "captured",
           e.batch # <<>>, WithinLag(e.batch, e.id), \A i \in DOMAIN snaps : snaps[i].id # e.id
    PROVE  /\ SnapshotsOK(Retain(Append(snaps, e)))
           /\ \A k \in DOMAIN Retain(Append(snaps, e)) :
                 \/ Retain(Append(snaps, e))[k] = e
                 \/ \E i \in DOMAIN snaps : Retain(Append(snaps, e))[k] = snaps[i]
           /\ \E k \in DOMAIN Retain(Append(snaps, e)) : Retain(Append(snaps, e))[k] = e
<1> DEFINE n == Len(snaps)
           s == Append(snaps, e)
           C == {i \in DOMAIN s : s[i].phase = "captured"}
           L == {i \in C : Cardinality({j \in C : j > i}) >= MaxRetained}
           K == DOMAIN s \ L
<1>1. snaps \in Seq(Snapshots) /\ n \in Nat /\ DOMAIN snaps = 1..n
  BY LenProperties DEF SnapshotsOK
<1>2. /\ s \in Seq(Snapshots) /\ Len(s) = n + 1 /\ DOMAIN s = 1..(n + 1)
      /\ \A i \in 1..n : s[i] = snaps[i]
      /\ s[n + 1] = e
  BY <1>1, RangeOfAppend, LenProperties
<1>3. \A i \in 1..(n + 1) : i \in 1..n \/ i = n + 1
  BY <1>1
<1>4. Retain(s) = Selected(s, K)
  BY DEF Retain
<1>5. SnapshotsOK(s)
  <2>1. ASSUME NEW i \in 1..(n + 1), NEW j \in 1..(n + 1), s[i].id = s[j].id PROVE i = j
    <3>1. CASE i \in 1..n /\ j \in 1..n
      BY <1>1, <1>2, <2>1, <3>1 DEF SnapshotsOK
    <3>2. CASE i = n + 1 \/ j = n + 1
      BY <1>1, <1>2, <1>3, <2>1, <3>2
    <3> QED
      BY <1>3, <3>1, <3>2
  <2>2. ASSUME NEW i \in 1..(n + 1) PROVE s[i].batch # <<>> /\ WithinLag(s[i].batch, s[i].id)
    <3>1. CASE i \in 1..n
      BY <1>1, <1>2, <3>1 DEF SnapshotsOK
    <3>2. CASE i = n + 1
      BY <1>2, <3>2
    <3> QED
      BY <1>3, <3>1, <3>2
  <2> HIDE DEF s
  <2> QED
    BY <1>2, <2>1, <2>2 DEF SnapshotsOK
<1>6. n + 1 \in K
  <2>1. {j \in C : j > n + 1} = {}
    BY <1>1, <1>2
  <2>2. Cardinality({j \in C : j > n + 1}) = 0
    BY <2>1, FS_EmptySet
  <2>3. ~(0 >= MaxRetained)
    BY DriverAssumption
  <2>4. n + 1 \in DOMAIN s
    BY <1>1, <1>2
  <2> HIDE DEF C, s
  <2> QED
    BY <2>2, <2>3, <2>4
<1>7. K \in SUBSET DOMAIN s
  OBVIOUS
<1> HIDE DEF s, K, C, L
<1>8. /\ SnapshotsOK(Selected(s, K))
      /\ \A k \in DOMAIN Selected(s, K) : \E i \in K : Selected(s, K)[k] = s[i]
      /\ \A i \in K : \E k \in DOMAIN Selected(s, K) : Selected(s, K)[k] = s[i]
  BY <1>5, <1>7, SnapshotsSelected
<1>9. \A k \in DOMAIN Selected(s, K) :
         Selected(s, K)[k] = e \/ \E i \in DOMAIN snaps : Selected(s, K)[k] = snaps[i]
  <2> SUFFICES ASSUME NEW k \in DOMAIN Selected(s, K)
               PROVE  Selected(s, K)[k] = e \/ \E i \in DOMAIN snaps : Selected(s, K)[k] = snaps[i]
    OBVIOUS
  <2>1. PICK i \in K : Selected(s, K)[k] = s[i]
    BY <1>8
  <2>2. i \in 1..n \/ i = n + 1
    BY <1>2, <1>3, <1>7
  <2> QED
    BY <1>1, <1>2, <2>1, <2>2
<1>10. \E k \in DOMAIN Selected(s, K) : Selected(s, K)[k] = e
  BY <1>2, <1>6, <1>8
<1> QED
  BY <1>4, <1>8, <1>9, <1>10 DEF s

\* Of the outputs up to the one on its way, that one alone is left when the rollout
\* before it is done.
LEMMA DiscardIs ==
    ASSUME NEW snaps, SnapshotsOK(snaps), NEW id \in Nat, NEW b \in Seq(Entries),
           \A i \in DOMAIN snaps : snaps[i].id <= id \/ (snaps[i].id = id + 1 /\ b # <<>>),
           b # <<>> => \E i \in DOMAIN snaps : snaps[i].id = id + 1 /\ snaps[i].batch = b
    PROVE  /\ SnapshotsOK(DiscardCompleted(snaps, id)) /\ Len(DiscardCompleted(snaps, id)) <= 1
           /\ FirstBatch(DiscardCompleted(snaps, id)) = b
           /\ \A i \in DOMAIN DiscardCompleted(snaps, id) :
                 /\ DiscardCompleted(snaps, id)[i].id = id + 1 /\ b # <<>>
                 /\ DiscardCompleted(snaps, id)[i].batch = b
                 /\ \E j \in DOMAIN snaps : DiscardCompleted(snaps, id)[i] = snaps[j]
           /\ b # <<>> => DOMAIN DiscardCompleted(snaps, id) = {1}
<1> DEFINE K == {i \in DOMAIN snaps : snaps[i].id > id}
           t == Selected(snaps, K)
<1>1. DiscardCompleted(snaps, id) = t
  BY DEF DiscardCompleted
<1>2. /\ SnapshotsOK(t) /\ IsFiniteSet(K) /\ Len(t) = Cardinality(K) /\ DOMAIN t = 1..Cardinality(K)
      /\ \A k \in DOMAIN t : \E i \in K : t[k] = snaps[i]
  <2>1. K \in SUBSET DOMAIN snaps
    OBVIOUS
  <2> HIDE DEF K
  <2> QED
    BY <2>1, SnapshotsSelected
<1>3. \A i \in DOMAIN snaps : snaps[i].id \in Nat
  <2>1. snaps \in Seq(Snapshots) /\ DOMAIN snaps = 1..Len(snaps)
    BY LenProperties DEF SnapshotsOK
  <2>2. \A i \in DOMAIN snaps : snaps[i] \in Snapshots
    BY <2>1, ElementOfSeq
  <2> QED
    BY <2>2 DEF Snapshots
<1>4. \A i \in K : snaps[i].id = id + 1 /\ b # <<>>
  BY <1>3
<1>5. \A i, j \in K : i = j
  BY <1>4 DEF SnapshotsOK
<1>6. \A i \in DOMAIN snaps : snaps[i].id = id + 1 => i \in K
  BY <1>3
<1>7. CASE b = <<>>
  <2>1. K = {}
    BY <1>4, <1>7
  <2> HIDE DEF K
  <2>2. Len(t) = 0 /\ DOMAIN t = {} /\ t \in Seq(Snapshots)
    BY <1>2, <2>1, FS_EmptySet DEF SnapshotsOK
  <2>3. t = <<>>
    BY <2>2, EmptySeq
  <2> HIDE DEF t
  <2> QED
    BY <1>1, <1>2, <1>7, <2>2, <2>3 DEF FirstBatch
<1>8. CASE b # <<>>
  <2>1. PICK i \in K : snaps[i].id = id + 1 /\ snaps[i].batch = b
    BY <1>6, <1>8
  <2>2. K = {i}
    BY <1>5, <2>1
  <2> HIDE DEF K
  <2>3. Cardinality(K) = 1
    BY <2>2, FS_Singleton
  <2>4. Len(t) = 1 /\ DOMAIN t = {1}
    BY <1>2, <2>3
  <2>5. t[1] = snaps[i] /\ i \in DOMAIN snaps
    BY <1>2, <2>2, <2>4 DEF K
  <2> HIDE DEF t
  <2>6. t # <<>>
    <3>1. Len(<<>>) = 0
      OBVIOUS
    <3>2. Len(t) # Len(<<>>)
      BY <2>4, <3>1
    <3> QED
      BY <3>2, Zenon
  <2>7. \A k \in DOMAIN t : t[k].id = id + 1 /\ t[k].batch = b /\ \E j \in DOMAIN snaps : t[k] = snaps[j]
    BY <2>1, <2>4, <2>5
  <2>8. FirstBatch(t) = b
    BY <2>1, <2>5, <2>6 DEF FirstBatch
  <2> QED
    BY <1>1, <1>2, <1>8, <2>4, <2>7, <2>8
<1> QED
  BY <1>7, <1>8

\* What is trained on moves from the batch to what the model has learnt from.
LEMMA BatchTrained ==
    ASSUME NEW n \in Nat, NEW retry \in Seq(Groups), NEW tasks \in Seq(Tasks), NEW kept \in Seq(Entries),
           NEW batch \in Seq(Entries), NEW old \in SUBSET Groups, NEW gone \in SUBSET Groups,
           AllPlaced(n, retry, tasks, kept, batch, old, gone)
    PROVE  /\ AllPlaced(n, retry, tasks, kept, <<>>, old \cup GroupsOf(batch), gone)
           /\ Cardinality(old \cup GroupsOf(batch)) = Cardinality(old) + Len(batch)
           /\ Cardinality(GroupsOf(batch)) = Len(batch)
           /\ old \cup GroupsOf(batch) \in SUBSET Groups
<1> DEFINE more == old \cup GroupsOf(batch)
<1>1. GroupsOf(batch) \in SUBSET Groups /\ more \in SUBSET Groups /\ <<>> \in Seq(Entries) /\ GroupsOf(<<>>) = {}
      /\ Len(<<>>) = 0
  <2>1. \A i \in DOMAIN batch : batch[i].g \in Groups
    <3>1. DOMAIN batch = 1..Len(batch)
      BY LenProperties
    <3>2. \A i \in DOMAIN batch : batch[i] \in Entries
      BY <3>1, ElementOfSeq
    <3> QED
      BY <3>2 DEF Entries
  <2> QED
    BY <2>1, EmptySeq DEF GroupsOf
<1>2. /\ Len(retry) \in Nat /\ Len(tasks) \in Nat /\ Len(kept) \in Nat /\ Len(batch) \in Nat
      /\ Cardinality(old) \in Nat /\ Cardinality(gone) \in Nat /\ Cardinality(more) \in Nat
      /\ IsFiniteSet(old)
  BY <1>1, LenProperties, GroupsAreFinite
<1>3. Cardinality(more) <= Cardinality(old) + Len(batch)
  <2>1. /\ IsFiniteSet(GroupsOf(batch)) /\ Cardinality(GroupsOf(batch)) \in Nat
        /\ Cardinality(GroupsOf(batch)) <= Len(batch)
    BY GroupsAreFew
  <2>2. Cardinality(more) <= Cardinality(old) + Cardinality(GroupsOf(batch))
    BY <1>2, <2>1, UnionIsSmall
  <2> HIDE DEF more
  <2> QED
    BY <1>2, <2>1, <2>2
<1>4. /\ 1..n = Places(retry, tasks, kept, batch, old, gone)
      /\ n = Total(retry, tasks, kept, batch, old, gone)
      /\ n = Len(retry) + Len(tasks) + Len(kept) + Len(batch) + Cardinality(old) + Cardinality(gone)
  BY DEF AllPlaced, Total
<1>5. 1..n = Places(retry, tasks, kept, <<>>, more, gone)
  BY <1>1, <1>4 DEF Places
<1>6. Total(retry, tasks, kept, <<>>, more, gone)
        = Len(retry) + Len(tasks) + Len(kept) + 0 + Cardinality(more) + Cardinality(gone)
  BY <1>1 DEF Total
<1> HIDE DEF more
<1>7. Total(retry, tasks, kept, <<>>, more, gone) <= n
  BY <1>2, <1>3, <1>4, <1>6
<1>8. Total(retry, tasks, kept, <<>>, more, gone) = n
  <2> DEFINE none == <<>>
  <2>1. none \in Seq(Entries) /\ 1..n = Places(retry, tasks, kept, none, more, gone)
        /\ Total(retry, tasks, kept, none, more, gone) <= n
    BY <1>1, <1>5, <1>7
  <2> HIDE DEF none
  <2>2. Total(retry, tasks, kept, none, more, gone) = n
    BY <1>1, <2>1, PlacesSuffice
  <2> QED
    BY <2>2 DEF none
<1>9. Cardinality(more) = Cardinality(old) + Len(batch)
  <2>1. ASSUME NEW a \in Nat, NEW b \in Nat, NEW c \in Nat, NEW k \in Nat, NEW o \in Nat, NEW g \in Nat,
               NEW m \in Nat, a + b + c + 0 + m + g = a + b + c + k + o + g
        PROVE  m = o + k
    BY <2>1
  <2>2. Len(retry) + Len(tasks) + Len(kept) + 0 + Cardinality(more) + Cardinality(gone)
          = Len(retry) + Len(tasks) + Len(kept) + Len(batch) + Cardinality(old) + Cardinality(gone)
    BY <1>4, <1>6, <1>8
  <2> DEFINE a == Len(retry)
             b == Len(tasks)
             c == Len(kept)
             k == Len(batch)
             o == Cardinality(old)
             g == Cardinality(gone)
             m == Cardinality(more)
  <2>3. /\ a \in Nat /\ b \in Nat /\ c \in Nat /\ k \in Nat /\ o \in Nat /\ g \in Nat /\ m \in Nat
        /\ a + b + c + 0 + m + g = a + b + c + k + o + g
    BY <1>2, <2>2
  <2> HIDE DEF a, b, c, k, o, g, m
  <2>4. m = o + k
    BY <2>1, <2>3
  <2> QED
    BY <2>4 DEF m, o, k
<1>10. Cardinality(GroupsOf(batch)) = Len(batch)
  <2>1. Total(retry, tasks, kept, batch, old, gone) <= n
    BY <1>4
  <2> QED
    BY <1>4, <2>1, PlacesSuffice
<1> QED
  BY <1>1, <1>5, <1>8, <1>9, <1>10 DEF AllPlaced, more

(***************************************************************************)
(* What one part of the invariant needs of a step.                         *)
(***************************************************************************)

\* What is known of each of the snapshots.
LEMMA SnapshotIs ==
    ASSUME NEW snaps, SnapshotsOK(snaps)
    PROVE  /\ Len(snaps) \in Nat /\ DOMAIN snaps = 1..Len(snaps)
           /\ \A i \in DOMAIN snaps :
                 /\ snaps[i] \in Snapshots /\ snaps[i].id \in Nat /\ snaps[i].batch \in Seq(Entries)
                 /\ snaps[i].phase \in Phases
<1>1. snaps \in Seq(Snapshots) /\ Len(snaps) \in Nat /\ DOMAIN snaps = 1..Len(snaps)
  BY LenProperties DEF SnapshotsOK
<1>2. \A i \in DOMAIN snaps : snaps[i] \in Snapshots
  BY <1>1, ElementOfSeq
<1> QED
  BY <1>1, <1>2 DEF Snapshots

\* The rollouts of the driver are numbers.
LEMMA DriverIs ==
    ASSUME DriverInStep
    PROVE  /\ rolloutId \in Nat /\ NumRollout \in Nat /\ Interval \in Nat /\ Interval >= 1
           /\ begun \in Nat /\ asked \in Nat /\ Received \in Nat
           /\ rolloutId < NumRollout \/ (rolloutId = NumRollout /\ driver = "done")
           /\ Received = rolloutId \/ (Received = rolloutId + 1 /\ driver # "await")
<1>1. rolloutId \in Nat /\ NumRollout \in Nat /\ Interval \in Nat /\ Interval >= 1
  BY DriverAssumption DEF DriverInStep
<1>2. begun \in Nat /\ asked \in Nat
  BY DEF DriverInStep
<1>3. rolloutId < NumRollout \/ (rolloutId = NumRollout /\ driver = "done")
  BY <1>1 DEF DriverInStep
<1>4. Received = rolloutId \/ (Received = rolloutId + 1 /\ driver # "await")
  BY DEF Received
<1> QED
  BY <1>1, <1>2, <1>3, <1>4

\* A batch taken for the next rollout is still fit when that rollout trains: no weight
\* update lies between, and those since the last one are fewer than an interval has.
LEMMA FitToTrain ==
    ASSUME DriverInStep, version \in Nat, asked = Received + 1
    PROVE  Received <= version + Interval - 1 /\ Received < NumRollout
<1>1. /\ rolloutId \in Nat /\ NumRollout \in Nat /\ Interval \in Nat /\ Interval >= 1
      /\ rolloutId < NumRollout \/ (rolloutId = NumRollout /\ driver = "done")
      /\ Received = rolloutId \/ (Received = rolloutId + 1 /\ driver # "await")
      /\ asked <= NumRollout /\ begun <= asked /\ Received <= begun
      /\ (driver = "done" /\ rolloutId < NumRollout) => ~(rolloutId + 1 < NumRollout)
      /\ asked = rolloutId + 2 => (rolloutId + 1) % Interval # 0
      /\ driver # "done" => rolloutId - version <= rolloutId % Interval
  BY DriverIs DEF DriverInStep, HasNext, UpdateDue
<1>2. Received < NumRollout
  BY <1>1
<1>3. driver # "done" /\ rolloutId < NumRollout
  <2>1. rolloutId # NumRollout
    <3>1. rolloutId = NumRollout => Received = rolloutId
      BY DEF Received
    <3> QED
      BY <1>1, <1>2, <3>1
  <2>2. CASE driver = "done"
    <3>1. Received = rolloutId + 1
      BY <2>1, <2>2 DEF Received
    <3> QED
      BY <1>1, <1>2, <2>1, <2>2, <3>1
  <2> QED
    BY <1>1, <2>1, <2>2
<1>4. /\ rolloutId % Interval \in 0..(Interval - 1)
      /\ (rolloutId + 1) % Interval # 0 => (rolloutId + 1) % Interval = (rolloutId % Interval) + 1
      /\ (rolloutId + 1) % Interval \in 0..(Interval - 1)
  <2>1. Interval \in Nat \ {0} /\ rolloutId \in Nat /\ rolloutId + 1 \in Nat
    BY <1>1
  <2> QED
    BY <2>1, NextOfInterval
<1> DEFINE r == rolloutId % Interval
           s == (rolloutId + 1) % Interval
<1>5. /\ r \in Nat /\ s \in Nat /\ r <= Interval - 1 /\ s <= Interval - 1 /\ (s # 0 => s = r + 1)
      /\ (asked = rolloutId + 2 => s # 0) /\ rolloutId - version <= r
  BY <1>1, <1>3, <1>4
<1> HIDE DEF r, s
<1>6. CASE Received = rolloutId
  BY <1>1, <1>2, <1>5, <1>6
<1>7. CASE Received = rolloutId + 1
  <2>1. r + 1 <= Interval - 1
    BY <1>1, <1>5, <1>7
  <2> QED
    BY <1>1, <1>2, <1>5, <1>7, <2>1
<1> QED
  BY <1>1, <1>6, <1>7

\* The checkpoints are untouched, and the driver does not fall back.
LEMMA DiskKept ==
    ASSUME DiskOK, UNCHANGED diskVars, rolloutId \in Nat,
           \/ UNCHANGED <<rolloutId, trained, driver>>
           \/ rolloutId' = rolloutId /\ driver \notin {"saveRollout", "swap", "update", "done"}
           \/ /\ driver = "update" /\ trained' = trained
              /\ rolloutId' = rolloutId + 1 \/ (rolloutId' = rolloutId /\ driver' = "done")
    PROVE  DiskOK'
<1>1. UNCHANGED <<model, pending, ckpt, crashes, mixed>>
  BY DEF diskVars
<1>2. ASSUME NEW id \in Nat, RolloutWritten(id)
      PROVE  id < rolloutId' \/ (id = rolloutId' /\ driver' \in {"update", "done"})
  BY <1>2 DEF RolloutWritten
<1>3. ASSUME NEW m, m.start \in Nat, ModelWritten(m)
      PROVE  \/ m.start <= rolloutId'
             \/ /\ m.start = rolloutId' + 1 /\ m.trained = trained'
                /\ driver' \in {"saveRollout", "swap", "update", "done"}
  <2>1. CASE m.start <= rolloutId
    BY <1>3, <2>1
  <2>2. CASE ~(m.start <= rolloutId)
    BY <1>3, <2>2 DEF ModelWritten
  <2> QED
    BY <2>1, <2>2
<1>4. /\ crashes' \in Nat /\ mixed' \in BOOLEAN
  BY <1>1 DEF DiskOK
<1>5. ASSUME NEW m \in {model, pending}
      PROVE  /\ ModelOK(m)
             /\ m.attempt \in 0..crashes' /\ (m.start > 0 /\ m.attempt = crashes' =>
                   \/ m.start <= rolloutId'
                   \/ /\ m.start = rolloutId' + 1 /\ m.trained = trained'
                      /\ driver' \in {"saveRollout", "swap", "update", "done"})
             /\ ~mixed' => AgreesWith(m, ckpt')
  <2>1. /\ ModelOK(m) /\ m.attempt \in 0..crashes /\ (m.start > 0 /\ m.attempt = crashes => ModelWritten(m))
        /\ ~mixed => AgreesWith(m, ckpt)
    BY DEF DiskOK
  <2>2. m.start \in Nat
    BY <2>1, DriverAssumption DEF ModelOK
  <2> QED
    BY <1>1, <1>3, <2>1, <2>2
<1>6. ASSUME NEW id \in DOMAIN ckpt
      PROVE  /\ id \in 0..(NumRollout - 1) /\ SavedOK(ckpt[id], id)
             /\ ckpt[id].attempt \in 0..crashes' /\ (ckpt[id].attempt = crashes' =>
                   id < rolloutId' \/ (id = rolloutId' /\ driver' \in {"update", "done"}))
  <2>1. /\ id \in 0..(NumRollout - 1) /\ SavedOK(ckpt[id], id)
        /\ ckpt[id].attempt \in 0..crashes /\ (ckpt[id].attempt = crashes => RolloutWritten(id))
    BY DEF DiskOK
  <2>2. id \in Nat
    BY <2>1, DriverAssumption
  <2> QED
    BY <1>1, <1>2, <2>1, <2>2
<1> QED
  BY <1>1, <1>4, <1>5, <1>6 DEF DiskOK, RolloutWritten, ModelWritten

\* While no batch waits to be replayed, a step that keeps every group in its place,
\* whichever have left, keeps them placed here.
LEMMA StillPlaced ==
    ASSUME Core, EveryGroupPlaced, Loaded = {}, Loaded' = {}, UNCHANGED <<trained, current, mixed>>,
           current \in Seq(Entries),
           \A old \in SUBSET Groups : Sound(old) => SoundNext(old)
    PROVE  EveryGroupPlaced'
<1>1. Arriving = taken /\ Arriving' = taken'
  BY DEF Arriving
<1>2. ASSUME NEW old \in SUBSET Groups, Placed(old)
      PROVE  AllPlaced(drawn', retryBuffer', running', buffer', Arriving', old, dropped')
  <2>1. Sound(old)
    BY <1>1, <1>2 DEF Placed, Sound
  <2>2. SoundNext(old)
    BY <2>1
  <2> QED
    BY <1>1, <2>2 DEF SoundNext
<1>3. \E old \in SUBSET Groups : AllPlaced(drawn', retryBuffer', running', buffer', Arriving', old, dropped')
  BY <1>2 DEF EveryGroupPlaced
<1>4. trained \cup GroupsOf(current) \in SUBSET Groups
  <2>1. \A i \in DOMAIN current : current[i].g \in Groups
    <3>1. DOMAIN current = 1..Len(current)
      BY LenProperties
    <3>2. \A i \in DOMAIN current : current[i] \in Entries
      BY <3>1, ElementOfSeq
    <3> QED
      BY <3>2 DEF Entries
  <2> QED
    BY <2>1 DEF GroupsOf, Core, TypeOK
<1>5. ~mixed => /\ AllPlaced(drawn', retryBuffer', running', buffer', Arriving', trained \cup GroupsOf(current), dropped')
                /\ Cardinality(trained \cup GroupsOf(current)) = Cardinality(trained) + Len(current)
  BY <1>2, <1>4 DEF EveryGroupPlaced
<1> QED
  BY <1>3, <1>5 DEF EveryGroupPlaced, Placed

\* The producer side keeps every group in its place.
LEMMA RolloutSound ==
    ASSUME NEW old \in SUBSET Groups, Sound(old), Worker \/ Generation \/ OnWorkerError
    PROVE  SoundNext(old)
<1>1. CASE WorkerSubmit
  BY <1>1, WorkerSubmitSound
<1>2. CASE \E g \in done : Put(g)
  BY <1>2, PutSound
<1>3. CASE PutUnblocks
  BY <1>3, PutUnblocksSound
<1>4. CASE WorkerWake \/ WorkerLoops \/ OnWorkerError \/ \E g \in done : PutBlocks(g) \/ WorkerDies(g)
  BY <1>4, ControlSound
<1>5. CASE Generation
  BY <1>5, SampleFinishesSound, GroupFinishesSound DEF Generation
<1> QED
  BY <1>1, <1>2, <1>3, <1>4, <1>5 DEF Worker

\* It hands out and trains nothing, and has nothing to do before its first start.
LEMMA RolloutFrame ==
    ASSUME Core, Worker \/ Generation \/ OnWorkerError
    PROVE  /\ UNCHANGED <<taken, trained, version>>
           /\ getPending' = getPending \/ getPending' = FALSE
           /\ worker # "none" \/ running # <<>>
<1>1. CASE WorkerSubmit
  BY <1>1 DEF WorkerSubmit
<1>2. CASE \E g \in done : Put(g)
  BY <1>2 DEF Put
<1>3. CASE PutUnblocks
  BY <1>3 DEF PutUnblocks
<1>4. CASE WorkerWake \/ WorkerLoops \/ OnWorkerError
  BY <1>4 DEF WorkerWake, WorkerLoops, OnWorkerError, producer
<1>5. CASE \E g \in done : PutBlocks(g) \/ WorkerDies(g)
  BY <1>5 DEF PutBlocks, WorkerDies
<1>6. CASE Generation
  <2>1. PICK i \in DOMAIN running :
            \/ SampleFinishes(i)
            \/ \E out \in Outcomes \ {"generating"} : GroupFinishes(i, out)
    BY <1>6 DEF Generation
  <2>2. running # <<>>
    <3>1. running \in Seq(Tasks) /\ DOMAIN running = 1..Len(running)
      BY LenProperties DEF Core, TypeOK
    <3>2. running = <<>> => Len(running) = 0
      OBVIOUS
    <3> QED
      BY <2>1, <3>1, <3>2
  <2> QED
    BY <2>1, <2>2 DEF SampleFinishes, GroupFinishes
<1> QED
  BY <1>1, <1>2, <1>3, <1>4, <1>5, <1>6 DEF Worker

\* The state of the run is as it should be, unless it could not be resumed.
LEMMA RolloutStepKeepsTraining == ASSUME TrainIInv, RolloutStep PROVE TrainIInv'
<1>1. /\ driver # "failed" /\ (Worker \/ Generation \/ OnWorkerError)
      /\ UNCHANGED <<driverVars, snapshots, diskVars>>
  BY DEF RolloutStep, Running
<1>2. Core /\ BoundedLag /\ DriverInStep /\ BatchOnItsWay /\ EveryGroupPlaced /\ DiskOK
  BY <1>1 DEF TrainIInv
<1>3. /\ UNCHANGED <<taken, trained, version>>
      /\ getPending' = getPending \/ getPending' = FALSE
      /\ worker # "none" \/ running # <<>>
  BY <1>1, <1>2, RolloutFrame
<1>4. UNCHANGED <<driver, rolloutId, asked, begun, current, steps, snapshots, mixed, crashes>>
  BY <1>1 DEF driverVars, diskVars
<1>5. Loaded = {} /\ Loaded' = {}
  <2>1. Loaded = {}
    BY <1>2, <1>3 DEF BatchOnItsWay
  <2> QED
    BY <1>4, <2>1 DEF Loaded
<1>6. Core'
  <2>1. PICK old \in SUBSET Groups : Placed(old)
    BY <1>2 DEF EveryGroupPlaced
  <2>2. Sound(old)
    BY <1>2, <1>5, <2>1 DEF Placed, Sound, Arriving
  <2> QED
    BY <1>1, <2>2, RolloutSound DEF SoundNext
<1>7. BoundedLag'
  BY <1>2, <1>4 DEF BoundedLag
<1>8. DriverInStep'
  BY <1>2, <1>3, <1>4 DEF DriverInStep, Received, TrainedOn, UpdateDue, HasNext
<1>9. BatchOnItsWay'
  BY <1>2, <1>3, <1>4, <1>5 DEF BatchOnItsWay, Received
<1>10. EveryGroupPlaced'
  BY <1>1, <1>2, <1>3, <1>4, <1>5, StillPlaced, RolloutSound DEF BatchOnItsWay
<1>11. DiskOK'
  BY <1>1, <1>2, <1>3, <1>4, DiskKept, DriverIs
<1> QED
  BY <1>6, <1>7, <1>8, <1>9, <1>10, <1>11 DEF TrainIInv

\* A turn of the executor's drain: the batch it hands out is captured at once, and the
\* driver receives it in time for the rollout it is taken for.
LEMMA DrainKeepsTraining ==
    ASSUME TrainIInv, driver # "failed", Loaded = {}, taken = <<>>, Take,
           UNCHANGED <<drawn, running, samplesInFlight, sampleDone, done, putting, resumed, trained, version>>,
           worker' = worker \/ (worker = "none" /\ worker' = "top"),
           admissionChanged' \in BOOLEAN,
           \A i \in DOMAIN snapshots : snapshots[i].id < Received,
           begun' = Received + 1, asked = Received + 1,
           CaptureIfTaken,
           UNCHANGED <<driver, rolloutId, asked, current, steps, diskVars>>
    PROVE  TrainIInv'
<1>1. Core /\ BoundedLag /\ DriverInStep /\ BatchOnItsWay /\ EveryGroupPlaced /\ DiskOK
  BY DEF TrainIInv
<1>2. Received' = Received /\ TrainedOn' = TrainedOn /\ Received \in Nat /\ rolloutId \in Nat
  BY <1>1, DriverIs DEF Received, TrainedOn
<1>3. ASSUME NEW old \in SUBSET Groups, Sound(old) PROVE SoundNext(old)
  BY <1>3, DrainSound
<1>4. Core'
  <2>1. PICK old \in SUBSET Groups : Placed(old)
    BY <1>1 DEF EveryGroupPlaced
  <2>2. Sound(old)
    BY <1>1, <2>1 DEF Placed, Sound, Arriving
  <2> QED
    BY <1>3, <2>2 DEF SoundNext
<1>5. BoundedLag'
  BY <1>1 DEF BoundedLag
<1>6. DriverInStep'
  BY <1>1, <1>2 DEF DriverInStep, UpdateDue, HasNext
<1>7. DiskOK'
  BY <1>1, <1>2, DiskKept
<1>8. /\ getPending' \in BOOLEAN /\ taken' \in Seq(Entries)
      /\ getPending' => taken' = <<>>
      /\ Len(taken') = IF getPending' THEN 0 ELSE Batch
      /\ \A i \in 1..Len(taken') : \E j \in DOMAIN buffer : taken'[i] = buffer[j] /\ ~IsStale(buffer[j])
  BY <1>1, TakeIs DEF Core
<1>9. WithinLag(taken', Received)
  <2>1. Received <= version + Interval - 1 /\ version \in Nat /\ Interval \in Nat /\ MaxStaleness \in Nat
    BY <1>1, FitToTrain, DriverAssumption, SizesAssumption DEF Core, TypeOK, Versions
  <2>2. ASSUME NEW i \in 1..Len(taken') PROVE Received <= taken'[i].ver + MaxStaleness + Interval - 1
    <3>1. PICK j \in DOMAIN buffer : taken'[i] = buffer[j] /\ ~IsStale(buffer[j])
      BY <1>8
    <3>2. buffer[j].ver \in Nat
      <4>1. buffer \in Seq(Entries) /\ DOMAIN buffer = 1..Len(buffer)
        BY <1>1, LenProperties DEF Core, TypeOK
      <4>2. buffer[j] \in Entries
        BY <4>1, ElementOfSeq
      <4> QED
        BY <4>2, SizesAssumption DEF Entries, Versions
    <3>3. version <= buffer[j].ver + MaxStaleness
      BY <2>1, <3>1, <3>2 DEF IsStale
    <3> DEFINE v == buffer[j].ver
    <3>4. v \in Nat /\ version <= v + MaxStaleness /\ taken'[i].ver = v
      BY <3>1, <3>2, <3>3
    <3> HIDE DEF v
    <3>5. Received <= v + MaxStaleness + Interval - 1
      BY <1>2, <2>1, <3>4
    <3> QED
      BY <3>4, <3>5
  <2>3. DOMAIN taken' = 1..Len(taken')
    BY <1>8, LenProperties
  <2> QED
    BY <2>2, <2>3 DEF WithinLag
<1>10. CASE getPending'
  <2>1. snapshots' = snapshots /\ taken' = <<>>
    BY <1>8, <1>10 DEF CaptureIfTaken
  <2>2. Loaded' = {}
    BY <2>1 DEF Loaded
  <2>3. BatchOnItsWay'
    BY <1>1, <1>2, <2>1, <2>2 DEF BatchOnItsWay
  <2>4. EveryGroupPlaced'
    BY <1>1, <1>3, <2>2, StillPlaced DEF BatchOnItsWay, diskVars
  <2> QED
    BY <1>4, <1>5, <1>6, <1>7, <2>3, <2>4 DEF TrainIInv
<1>11. CASE ~getPending'
  <2> DEFINE e == [id |-> Received, batch |-> taken', phase |-> "captured"]
             snaps == Retain(Append(snapshots, e))
  <2>1. taken' # <<>>
    <3>1. Len(taken') >= 1
      BY <1>8, <1>11, SizesAssumption
    <3>2. Len(<<>>) = 0
      OBVIOUS
    <3>3. Len(taken') # Len(<<>>)
      BY <3>1, <3>2
    <3> QED
      BY <3>3, Zenon
  <2>2. snapshots' = snaps
    <3>1. begun' - 1 = Received
      BY <1>2
    <3> QED
      BY <1>11, <3>1 DEF CaptureIfTaken
  <2>3. e \in Snapshots /\ e.phase = "captured" /\ e.id = Received /\ e.batch = taken'
    BY <1>2, <1>8 DEF Snapshots, Phases
  <2>4. \A i \in DOMAIN snapshots : snapshots[i].id # Received /\ snapshots[i].phase # "loaded"
    <3>1. \A i \in DOMAIN snapshots : snapshots[i].id \in Nat
      BY <1>1, SnapshotIs DEF BatchOnItsWay
    <3> QED
      BY <1>2, <3>1 DEF Loaded
  <2> HIDE DEF e
  <2>5. /\ SnapshotsOK(snaps)
        /\ \A k \in DOMAIN snaps : snaps[k] = e \/ \E i \in DOMAIN snapshots : snaps[k] = snapshots[i]
        /\ \E k \in DOMAIN snaps : snaps[k] = e
    <3>1. /\ SnapshotsOK(snapshots) /\ e.batch # <<>> /\ WithinLag(e.batch, e.id)
          /\ \A i \in DOMAIN snapshots : snapshots[i].id # e.id
      BY <1>1, <1>9, <2>1, <2>3, <2>4 DEF BatchOnItsWay
    <3> QED
      BY <2>3, <3>1, RetainIs
  <2> HIDE DEF snaps
  <2>6. Loaded' = {}
    <3>1. \A k \in DOMAIN snaps : snaps[k].phase # "loaded"
      BY <2>3, <2>4, <2>5
    <3> QED
      BY <2>2, <3>1 DEF Loaded
  <2>7. \A k \in DOMAIN snaps : snaps[k].id < Received \/ snaps[k].id = Received
    BY <2>3, <2>5
  <2>8. \E k \in DOMAIN snaps : snaps[k].id = Received /\ snaps[k].batch = taken'
    BY <2>3, <2>5
  <2>9. BatchOnItsWay'
    BY <1>1, <1>2, <1>8, <1>11, <2>1, <2>2, <2>5, <2>6, <2>7, <2>8 DEF BatchOnItsWay
  <2>10. EveryGroupPlaced'
    BY <1>1, <1>3, <2>6, StillPlaced DEF BatchOnItsWay, diskVars
  <2> QED
    BY <1>4, <1>5, <1>6, <1>7, <2>9, <2>10 DEF TrainIInv
<1> QED
  BY <1>8, <1>10, <1>11

\* get() begins the rollout whose batch comes next, and none of an earlier attempt waits.
LEMMA GetKeeps == ASSUME TrainIInv, ExecutorGet \/ ExecutorGetReturns PROVE TrainIInv'
<1>1. /\ driver # "failed"
      /\ Core /\ BoundedLag /\ DriverInStep /\ BatchOnItsWay /\ EveryGroupPlaced /\ DiskOK
  BY DEF TrainIInv, ExecutorGet, ExecutorGetReturns, Running
<1>2. /\ rolloutId \in Nat /\ begun \in Nat /\ asked \in Nat /\ Received \in Nat
      /\ Received <= begun /\ begun <= asked /\ asked <= Received + 1
  BY <1>1, DriverIs DEF DriverInStep
<1>3. \A i \in DOMAIN snapshots : snapshots[i].id \in Nat
  BY <1>1, SnapshotIs DEF BatchOnItsWay
<1>4. ASSUME Loaded = {}, taken = <<>> PROVE \A i \in DOMAIN snapshots : snapshots[i].id < Received
  BY <1>1, <1>4 DEF BatchOnItsWay
<1>5. CASE ExecutorGet
  <2>1. /\ begun < asked /\ ~getPending /\ taken = <<>> /\ Take /\ CaptureIfTaken /\ begun' = begun + 1
        /\ UNCHANGED <<drawn, running, samplesInFlight, sampleDone, done, putting, resumed, trained, version>>
        /\ worker' = worker \/ (worker = "none" /\ worker' = "top")
        /\ admissionChanged' \in BOOLEAN
        /\ UNCHANGED <<driver, rolloutId, asked, current, steps, diskVars>>
        /\ \A i \in DOMAIN snapshots : snapshots[i].id # begun
    BY <1>5 DEF ExecutorGet, StartDrain, StartWorker
  <2>2. begun = Received /\ asked = Received + 1
    BY <1>2, <2>1
  <2>3. Loaded = {}
    <3>1. Loaded # {} => Loaded = {1} /\ snapshots[1].id = begun
      BY <1>1 DEF BatchOnItsWay
    <3> QED
      BY <2>1, <3>1 DEF Loaded
  <2> QED
    BY <1>1, <1>4, <2>1, <2>2, <2>3, DrainKeepsTraining
<1>6. CASE ExecutorGetReturns
  <2>1. /\ getPending /\ Take /\ CaptureIfTaken /\ begun' = begun
        /\ UNCHANGED <<drawn, running, samplesInFlight, sampleDone, done, putting, resumed, trained, version>>
        /\ worker' = worker
        /\ admissionChanged' = (admissionChanged \/ \E i \in DOMAIN buffer : IsStale(buffer[i]))
        /\ UNCHANGED <<driver, rolloutId, asked, current, steps, diskVars>>
    BY <1>6 DEF ExecutorGetReturns, DrainWakes, producer
  <2>2. taken = <<>> /\ begun = Received + 1 /\ Loaded = {}
    BY <1>1, <2>1 DEF BatchOnItsWay
  <2>3. asked = Received + 1
    BY <1>2, <2>2
  <2>4. admissionChanged' \in BOOLEAN
    BY <1>1, <2>1 DEF Core, TypeOK
  <2> QED
    BY <1>1, <1>4, <2>1, <2>2, <2>3, <2>4, DrainKeepsTraining
<1> QED
  BY <1>5, <1>6

\* What becomes of a batch is nothing to the rollout side.
LEMMA CoreKept ==
    ASSUME Core, UNCHANGED <<producer, retryBuffer, buffer, resumed, admissionChanged, getPending, dropped>>,
           taken' \in Seq(Entries), ~(getPending /\ taken' # <<>>), trained' \in SUBSET Groups, version' \in Versions
    PROVE  Core'
<1> USE DEF producer
<1>1. TypeOK'
  BY DEF Core, TypeOK
<1>2. FinishedHaveNoneLeft' /\ WorkerPutsFinished' /\ OneBatch'
  BY DEF Core, FinishedHaveNoneLeft, WorkerPutsFinished, Finished, OneBatch
<1>3. SampleAccounting' /\ BufferBound'
  BY DEF Core, SampleAccounting, BufferBound, Unfinished
<1> QED
  BY <1>1, <1>2, <1>3 DEF Core

\* A step that leaves all places as they are.
LEMMA PlacesUntouched ==
    ASSUME EveryGroupPlaced, UNCHANGED <<drawn, retryBuffer, running, buffer, dropped, mixed>>,
           Arriving' = Arriving, trained' \cup GroupsOf(current') = trained \cup GroupsOf(current),
           ~mixed => Cardinality(trained' \cup GroupsOf(current')) = Cardinality(trained') + Len(current')
    PROVE  EveryGroupPlaced'
<1>1. ASSUME NEW old \in SUBSET Groups, Placed(old)
      PROVE  AllPlaced(drawn', retryBuffer', running', buffer', Arriving', old, dropped')
  BY <1>1 DEF Placed
<1>2. \E old \in SUBSET Groups : AllPlaced(drawn', retryBuffer', running', buffer', Arriving', old, dropped')
  BY <1>1 DEF EveryGroupPlaced
<1>3. ~mixed => AllPlaced(drawn', retryBuffer', running', buffer', Arriving', trained' \cup GroupsOf(current'), dropped')
  BY DEF EveryGroupPlaced, Placed
<1> QED
  BY <1>2, <1>3 DEF EveryGroupPlaced, Placed

\* A restored batch is replayed to the rollout it was meant for.
LEMMA ReplayKeeps == ASSUME TrainIInv, ExecutorReplay PROVE TrainIInv'
<1>1. /\ driver # "failed"
      /\ Core /\ BoundedLag /\ DriverInStep /\ BatchOnItsWay /\ EveryGroupPlaced /\ DiskOK
  BY DEF TrainIInv, ExecutorReplay, Running
<1>2. /\ begun < asked /\ taken = <<>> /\ ~getPending /\ begun' = begun + 1
      /\ UNCHANGED <<producer, retryBuffer, buffer, resumed, admissionChanged, getPending, trained,
                     dropped, version, driver, rolloutId, asked, current, steps, diskVars>>
  BY DEF ExecutorReplay
<1>3. PICK i \in Loaded : /\ taken' = snapshots[i].batch
                          /\ snapshots' = [snapshots EXCEPT ![i].phase = "replayed"]
  BY DEF ExecutorReplay
<1>4. /\ driver = "await" /\ begun = rolloutId /\ Loaded = {1} /\ Len(snapshots) = 1
      /\ snapshots[1].id = rolloutId /\ i = 1
  BY <1>1, <1>3 DEF BatchOnItsWay
<1>5. /\ snapshots \in Seq(Snapshots) /\ DOMAIN snapshots = {1} /\ snapshots[1] \in Snapshots
      /\ WithinLag(snapshots[1].batch, rolloutId) /\ snapshots[1].batch # <<>>
  <2>1. snapshots \in Seq(Snapshots) /\ DOMAIN snapshots = 1..1 /\ \A k \in DOMAIN snapshots : snapshots[k] \in Snapshots
    BY <1>1, <1>4, SnapshotIs DEF BatchOnItsWay, SnapshotsOK
  <2>2. 1..1 = {1}
    OBVIOUS
  <2>3. DOMAIN snapshots = {1}
    BY <2>1, <2>2
  <2> QED
    BY <1>1, <1>4, <2>1, <2>3 DEF BatchOnItsWay, SnapshotsOK
<1> DEFINE b == snapshots[1].batch
           e == [snapshots[1] EXCEPT !.phase = "replayed"]
<1>6. e \in Snapshots /\ e.id = rolloutId /\ e.batch = b /\ e.phase = "replayed" /\ b \in Seq(Entries)
  <2>1. ASSUME NEW r \in Snapshots
        PROVE  /\ [r EXCEPT !.phase = "replayed"] \in Snapshots /\ [r EXCEPT !.phase = "replayed"].id = r.id
               /\ [r EXCEPT !.phase = "replayed"].batch = r.batch
               /\ [r EXCEPT !.phase = "replayed"].phase = "replayed" /\ r.batch \in Seq(Entries)
    BY DEF Snapshots, Phases
  <2> QED
    BY <1>4, <1>5, <2>1
<1>7. snapshots' = [snapshots EXCEPT ![1] = e] /\ taken' = b
  BY <1>3, <1>4
<1> HIDE DEF e
<1>8. /\ snapshots' \in Seq(Snapshots) /\ DOMAIN snapshots' = {1} /\ snapshots'[1] = e
  <2>1. /\ [snapshots EXCEPT ![1] = e] \in Seq(Snapshots) /\ Len([snapshots EXCEPT ![1] = e]) = Len(snapshots)
        /\ [snapshots EXCEPT ![1] = e][1] = e
    <3>1. 1 \in 1..Len(snapshots)
      BY <1>4
    <3> QED
      BY <1>5, <1>6, <3>1, ExceptSeq
  <2>2. DOMAIN [snapshots EXCEPT ![1] = e] = {1}
    BY <1>5
  <2> QED
    BY <1>7, <2>1, <2>2
<1>9. SnapshotsOK(snapshots')
  BY <1>5, <1>6, <1>8 DEF SnapshotsOK, b
<1>10. Loaded' = {}
  BY <1>6, <1>8 DEF Loaded
<1>11. snapshots # <<>>
  BY <1>5
<1>12. Arriving' = Arriving
  BY <1>4, <1>7, <1>10, <1>11 DEF Arriving, FirstBatch
<1> HIDE DEF b
<1>13. Received' = Received /\ Received = rolloutId /\ TrainedOn' = TrainedOn /\ rolloutId \in Nat
       /\ UNCHANGED <<mixed, driver, rolloutId, trained, current>>
  BY <1>1, <1>2, <1>4, DriverIs DEF Received, TrainedOn, diskVars
<1>14. Core'
  BY <1>1, <1>2, <1>6, <1>7, CoreKept DEF Core, TypeOK
<1>15. BoundedLag'
  BY <1>1, <1>2 DEF BoundedLag
<1>16. DriverInStep'
  <2>1. /\ begun' \in Nat /\ Received <= begun' /\ begun' <= asked
        /\ rolloutId = NumRollout => driver = "done"
    BY <1>1, <1>2, <1>4, <1>13 DEF DriverInStep
  <2>2. rolloutId # NumRollout
    BY <1>4, <2>1
  <2> QED
    BY <1>1, <1>2, <1>13, <2>1, <2>2 DEF DriverInStep, UpdateDue, HasNext
<1>17. BatchOnItsWay'
  <2>1. begun' = Received' + 1 /\ ~getPending'
    BY <1>2, <1>4, <1>13
  <2>2. snapshots'[1].id = Received' /\ snapshots'[1].batch = taken'
    BY <1>6, <1>7, <1>8, <1>13
  <2>3. current' = current /\ rolloutId' = rolloutId /\ driver' = driver
    BY <1>13
  <2>4. current \in Seq(Entries) /\ WithinLag(current, rolloutId) /\ (current # <<>> => driver = "train")
    BY <1>1 DEF BatchOnItsWay
  <2>5. taken' # <<>>
    BY <1>5, <1>7 DEF b
  <2> QED
    BY <1>8, <1>9, <1>10, <2>1, <2>2, <2>3, <2>4, <2>5 DEF BatchOnItsWay
<1>18. EveryGroupPlaced'
  BY <1>1, <1>2, <1>12, <1>13, PlacesUntouched DEF EveryGroupPlaced, producer
<1>19. DiskOK'
  BY <1>1, <1>2, <1>13, DiskKept
<1> QED
  BY <1>14, <1>15, <1>16, <1>17, <1>18, <1>19 DEF TrainIInv

\* The batch reaches the driver, which asks for the next one unless an update is due.
LEMMA AwaitKeeps == ASSUME TrainIInv, AwaitBatch PROVE TrainIInv'
<1>1. /\ driver = "await" /\ begun = rolloutId + 1 /\ taken # <<>> /\ current' = taken /\ taken' = <<>>
      /\ asked' = IF HasNext /\ ~UpdateDue THEN rolloutId + 2 ELSE asked
      /\ driver' = "train"
      /\ UNCHANGED <<producer, retryBuffer, buffer, resumed, admissionChanged, getPending, trained,
                     dropped, version, rolloutId, begun, steps, snapshots, diskVars>>
  BY DEF AwaitBatch
<1>2. Core /\ BoundedLag /\ DriverInStep /\ BatchOnItsWay /\ EveryGroupPlaced /\ DiskOK
  BY <1>1 DEF TrainIInv
<1>3. /\ rolloutId \in Nat /\ NumRollout \in Nat /\ rolloutId < NumRollout /\ asked = rolloutId + 1 /\ steps = rolloutId
      /\ Received = rolloutId /\ Received' = rolloutId + 1 /\ TrainedOn' = rolloutId /\ UNCHANGED mixed
      /\ rolloutId + 1 \in Nat /\ rolloutId + 2 \in Nat
  BY <1>1, <1>2, DriverIs DEF Received, TrainedOn, DriverInStep, diskVars
<1>4. Loaded = {} /\ Loaded' = {} /\ ~getPending /\ current = <<>> /\ taken \in Seq(Entries)
  BY <1>1, <1>2 DEF BatchOnItsWay, Loaded, Core, OneBatch, TypeOK
<1>5. PICK i \in DOMAIN snapshots : snapshots[i].id = rolloutId /\ snapshots[i].batch = taken
  BY <1>1, <1>2, <1>3 DEF BatchOnItsWay
<1>6. WithinLag(taken, rolloutId)
  BY <1>2, <1>5 DEF BatchOnItsWay, SnapshotsOK
<1>7. <<>> \in Seq(Entries) /\ Len(<<>>) = 0 /\ GroupsOf(<<>>) = {}
  BY DEF GroupsOf
<1>8. Core'
  BY <1>1, <1>2, <1>4, <1>7, CoreKept DEF Core, TypeOK
<1>9. BoundedLag'
  <2>1. ASSUME NEW k \in DOMAIN taken PROVE rolloutId - taken[k].ver <= MaxStaleness + Interval - 1
    <3>1. rolloutId <= taken[k].ver + MaxStaleness + Interval - 1
      BY <1>6 DEF WithinLag
    <3>2. taken[k].ver \in Nat
      <4>1. DOMAIN taken = 1..Len(taken)
        BY <1>4, LenProperties
      <4>2. taken[k] \in Entries
        BY <1>4, <4>1, ElementOfSeq
      <4> QED
        BY <4>2, SizesAssumption DEF Entries, Versions
    <3> QED
      BY <1>3, <3>1, <3>2, SizesAssumption, DriverAssumption
  <2> QED
    BY <1>1, <1>3, <2>1 DEF BoundedLag
<1>10. DriverInStep'
  <2>1. /\ begun \in Nat /\ asked' \in Nat /\ begun <= asked' /\ asked' <= rolloutId + 2 /\ asked' <= NumRollout
        /\ asked' = rolloutId + 2 => ~UpdateDue
    <3>1. CASE HasNext /\ ~UpdateDue
      BY <1>1, <1>3, <3>1 DEF HasNext
    <3>2. CASE ~(HasNext /\ ~UpdateDue)
      BY <1>1, <1>3, <3>2
    <3> QED
      BY <3>1, <3>2
  <2>2. UpdateDue' = UpdateDue
    BY <1>1 DEF UpdateDue
  <2>3. rolloutId \in 0..NumRollout /\ rolloutId # NumRollout /\ rolloutId - version <= rolloutId % Interval
    BY <1>1, <1>2, <1>3 DEF DriverInStep
  <2> QED
    BY <1>1, <1>3, <2>1, <2>2, <2>3 DEF DriverInStep
<1>11. BatchOnItsWay'
  <2>1. \A k \in DOMAIN snapshots : snapshots[k].id < rolloutId + 1
    <3>1. \A k \in DOMAIN snapshots : snapshots[k].id \in Nat
      BY <1>2, SnapshotIs DEF BatchOnItsWay
    <3>2. \A k \in DOMAIN snapshots : snapshots[k].id < rolloutId \/ snapshots[k].id = rolloutId
      BY <1>2, <1>3, <1>4 DEF BatchOnItsWay
    <3> QED
      BY <1>3, <3>1, <3>2
  <2> QED
    BY <1>1, <1>2, <1>3, <1>4, <1>6, <2>1 DEF BatchOnItsWay
<1>12. EveryGroupPlaced'
  <2>1. Arriving = taken /\ Arriving' = <<>>
    BY <1>1, <1>4 DEF Arriving
  <2>2. /\ drawn \in Nat /\ retryBuffer \in Seq(Groups) /\ running \in Seq(Tasks) /\ buffer \in Seq(Entries)
        /\ trained \in SUBSET Groups /\ dropped \in SUBSET Groups
    BY <1>2, SizesAssumption DEF Core, TypeOK
  <2>3. ASSUME NEW old \in SUBSET Groups, Placed(old)
        PROVE  /\ AllPlaced(drawn', retryBuffer', running', buffer', Arriving', old \cup GroupsOf(taken), dropped')
               /\ old \cup GroupsOf(taken) \in SUBSET Groups
               /\ Cardinality(old \cup GroupsOf(taken)) = Cardinality(old) + Len(taken)
    <3>1. AllPlaced(drawn, retryBuffer, running, buffer, taken, old, dropped)
      BY <2>1, <2>3 DEF Placed
    <3>2. /\ AllPlaced(drawn, retryBuffer, running, buffer, <<>>, old \cup GroupsOf(taken), dropped)
          /\ Cardinality(old \cup GroupsOf(taken)) = Cardinality(old) + Len(taken)
          /\ old \cup GroupsOf(taken) \in SUBSET Groups
      <4>1. taken \in Seq(Entries)
        BY <1>4
      <4>2. AllPlaced(drawn, retryBuffer, running, buffer, <<>>, old \cup GroupsOf(taken), dropped)
        BY <2>2, <3>1, <4>1, BatchTrained
      <4>3. Cardinality(old \cup GroupsOf(taken)) = Cardinality(old) + Len(taken)
        BY <2>2, <3>1, <4>1, BatchTrained
      <4>4. old \cup GroupsOf(taken) \in SUBSET Groups
        BY <2>2, <3>1, <4>1, BatchTrained
      <4> QED
        BY <4>2, <4>3, <4>4
    <3>3. UNCHANGED <<drawn, retryBuffer, running, buffer, dropped>>
      BY <1>1 DEF producer
    <3> QED
      BY <2>1, <3>2, <3>3
  <2>4. \E old \in SUBSET Groups : AllPlaced(drawn', retryBuffer', running', buffer', Arriving', old, dropped')
    BY <1>2, <2>3 DEF EveryGroupPlaced
  <2>5. ~mixed => Placed(trained)
    <3>1. trained \cup GroupsOf(current) = trained
      BY <1>4, <1>7
    <3> QED
      BY <1>2, <3>1 DEF EveryGroupPlaced
  <2>6. ~mixed' => /\ AllPlaced(drawn', retryBuffer', running', buffer', Arriving', trained' \cup GroupsOf(current'), dropped')
                   /\ Cardinality(trained' \cup GroupsOf(current')) = Cardinality(trained') + Len(current')
    BY <1>1, <1>3, <2>2, <2>3, <2>5
  <2> QED
    BY <2>4, <2>6 DEF EveryGroupPlaced, Placed
<1>13. DiskOK'
  BY <1>1, <1>2, <1>3, DiskKept
<1> QED
  BY <1>8, <1>9, <1>10, <1>11, <1>12, <1>13 DEF TrainIInv

\* The optimizer step: the model has learnt from the batch.
LEMMA TrainKeeps == ASSUME TrainIInv, Train PROVE TrainIInv'
<1>1. /\ driver = "train" /\ trained' = trained \cup GroupsOf(current) /\ current' = <<>>
      /\ steps' = steps + 1 /\ driver' = "save"
      /\ UNCHANGED <<producer, retryBuffer, buffer, resumed, admissionChanged, getPending, taken,
                     dropped, version, rolloutId, asked, begun, snapshots, diskVars>>
  BY DEF Train
<1>2. Core /\ BoundedLag /\ DriverInStep /\ BatchOnItsWay /\ EveryGroupPlaced /\ DiskOK
  BY <1>1 DEF TrainIInv
<1>3. /\ rolloutId \in Nat /\ rolloutId < NumRollout /\ steps = rolloutId /\ steps' = rolloutId + 1
      /\ Received' = Received /\ TrainedOn' = rolloutId + 1 /\ UNCHANGED mixed
  BY <1>1, <1>2, DriverIs DEF Received, TrainedOn, DriverInStep, diskVars
<1>4. <<>> \in Seq(Entries) /\ Len(<<>>) = 0 /\ GroupsOf(<<>>) = {} /\ DOMAIN <<>> = {}
  BY DEF GroupsOf
<1>5. Loaded = {} /\ Loaded' = {}
  BY <1>1, <1>2 DEF BatchOnItsWay, Loaded
<1>6. trained' \in SUBSET Groups
  <2>1. DOMAIN current = 1..Len(current) /\ current \in Seq(Entries)
    BY <1>2, LenProperties DEF BatchOnItsWay
  <2>2. \A i \in DOMAIN current : current[i] \in Entries
    BY <2>1, ElementOfSeq
  <2> QED
    BY <1>1, <1>2, <2>2 DEF Core, TypeOK, GroupsOf, Entries
<1>7. Core'
  BY <1>1, <1>2, <1>6, CoreKept DEF Core, TypeOK, OneBatch
<1>8. BoundedLag'
  BY <1>1, <1>4 DEF BoundedLag
<1>9. DriverInStep'
  BY <1>1, <1>2, <1>3 DEF DriverInStep, UpdateDue, HasNext
<1>10. BatchOnItsWay'
  <2>1. WithinLag(<<>>, rolloutId)
    BY <1>4 DEF WithinLag
  <2> QED
    BY <1>1, <1>2, <1>3, <1>4, <1>5, <2>1 DEF BatchOnItsWay
<1>11. EveryGroupPlaced'
  <2>1. Arriving' = Arriving
    BY <1>1, <1>5 DEF Arriving
  <2>2. trained' \cup GroupsOf(current') = trained \cup GroupsOf(current)
    BY <1>1, <1>4
  <2>3. Cardinality(trained' \cup GroupsOf(current')) = Cardinality(trained') + Len(current')
    <3>1. trained' \cup GroupsOf(current') = trained' /\ Len(current') = 0
      BY <1>1, <1>4
    <3>2. Cardinality(trained') \in Nat
      BY <1>6, GroupsAreFinite
    <3>3. Cardinality(trained' \cup GroupsOf(current')) = Cardinality(trained')
      BY <3>1
    <3> DEFINE c == Cardinality(trained')
    <3>4. c \in Nat
      BY <3>2
    <3> HIDE DEF c
    <3>5. c = c + 0
      BY <3>4
    <3>6. Cardinality(trained') = Cardinality(trained') + Len(current')
      BY <3>1, <3>5 DEF c
    <3> QED
      BY <3>3, <3>6
  <2> QED
    BY <1>1, <1>2, <1>3, <2>1, <2>2, <2>3, PlacesUntouched DEF producer
<1>12. DiskOK'
  BY <1>1, <1>2, <1>3, DiskKept
<1> QED
  BY <1>7, <1>8, <1>9, <1>10, <1>11, <1>12 DEF TrainIInv

\* Between training and the weight update the driver only saves.
LEMMA SavingKeeps ==
    ASSUME TrainIInv, driver \in {"save", "saveRollout", "swap"}, driver' \in {"saveRollout", "swap", "update"},
           UNCHANGED <<vars, rolloutId, asked, begun, current, steps, mixed>>
    PROVE  /\ Core' /\ BoundedLag' /\ DriverInStep' /\ Received' = Received /\ Received = rolloutId + 1
           /\ UNCHANGED <<drawn, retryBuffer, running, buffer, dropped, trained, taken>>
           /\ (Loaded' = {} => EveryGroupPlaced')
           /\ (snapshots' = snapshots => BatchOnItsWay')
           /\ Loaded = {} /\ current = <<>> /\ rolloutId \in Nat /\ rolloutId < NumRollout
<1>1. /\ Core /\ BoundedLag /\ DriverInStep /\ BatchOnItsWay /\ EveryGroupPlaced
      /\ UNCHANGED <<producer, retryBuffer, buffer, resumed, admissionChanged, getPending, taken,
                     trained, dropped, version>>
  BY DEF TrainIInv, vars
<1>2. /\ rolloutId \in Nat /\ rolloutId < NumRollout /\ Received = rolloutId + 1 /\ Received' = rolloutId + 1
      /\ TrainedOn = rolloutId + 1 /\ TrainedOn' = rolloutId + 1
  BY <1>1, DriverIs DEF Received, TrainedOn
<1>3. Core'
  BY <1>1, CoreKept DEF Core, TypeOK, OneBatch
<1>4. BoundedLag'
  BY <1>1 DEF BoundedLag
<1>5. DriverInStep'
  BY <1>1, <1>2 DEF DriverInStep, UpdateDue, HasNext
<1>6. Loaded = {} /\ current = <<>>
  BY <1>1 DEF BatchOnItsWay
<1>7. snapshots' = snapshots => BatchOnItsWay'
  <2>1. snapshots' = snapshots => Loaded' = {}
    BY <1>6 DEF Loaded
  <2> QED
    BY <1>1, <1>2, <1>6, <2>1 DEF BatchOnItsWay
<1>8. Loaded' = {} => EveryGroupPlaced'
  <2> SUFFICES ASSUME Loaded' = {} PROVE EveryGroupPlaced'
    OBVIOUS
  <2>1. Arriving' = Arriving
    BY <1>1, <1>6 DEF Arriving
  <2>2. trained' = trained /\ current' = current
    BY <1>1
  <2> QED
    BY <1>1, <2>1, <2>2, PlacesUntouched DEF producer, EveryGroupPlaced
<1> QED
  BY <1>1, <1>2, <1>3, <1>4, <1>5, <1>6, <1>7, <1>8 DEF producer

\* Saving nothing after a rollout keeps the invariant.
LEMMA SkipSaveKeeps == ASSUME TrainIInv, SkipSave PROVE TrainIInv'
<1>1. /\ driver = "save" /\ driver' = "update"
      /\ UNCHANGED <<vars, rolloutId, asked, begun, current, steps, snapshots, diskVars>>
  BY DEF SkipSave
<1>2. mixed' = mixed
  BY <1>1 DEF diskVars
<1>3. /\ Core' /\ BoundedLag' /\ DriverInStep' /\ BatchOnItsWay' /\ rolloutId \in Nat
      /\ Loaded' = {} => EveryGroupPlaced'
      /\ Loaded = {}
  BY <1>1, <1>2, SavingKeeps
<1>4. Loaded' = {}
  BY <1>1, <1>3 DEF Loaded
<1>5. DiskOK'
  BY <1>1, <1>3, DiskKept DEF TrainIInv
<1> QED
  BY <1>3, <1>4, <1>5 DEF TrainIInv

\* A new model checkpoint is of the rollout trained last, whose rollout checkpoint of
\* this attempt is still to be written.
LEMMA SaveModelKeeps == ASSUME TrainIInv, SaveModel PROVE TrainIInv'
<1>1. /\ driver = "save" /\ driver' = "saveRollout"
      /\ UNCHANGED <<vars, rolloutId, asked, begun, current, steps, snapshots, ckpt, crashes, mixed>>
      /\ model' \in {model, pending, ModelNow}
      /\ pending' \in {ModelNow, NoModel}
  BY DEF SaveModel, Published
<1>2. /\ Core' /\ BoundedLag' /\ DriverInStep' /\ BatchOnItsWay' /\ rolloutId \in Nat /\ rolloutId < NumRollout
      /\ Loaded' = {} => EveryGroupPlaced'
      /\ Loaded = {}
      /\ UNCHANGED trained
  BY <1>1, SavingKeeps
<1>3. Loaded' = {}
  BY <1>1, <1>2 DEF Loaded
<1>4. /\ DiskOK /\ crashes \in Nat /\ mixed \in BOOLEAN /\ DriverInStep /\ steps = rolloutId + 1
      /\ NumRollout \in Nat /\ trained \in SUBSET Groups
  BY <1>1, <1>2, DriverAssumption DEF TrainIInv, DiskOK, DriverInStep, TrainedOn, Core, TypeOK
<1> DEFINE Fine(m) == /\ ModelOK(m)
                      /\ m.attempt \in 0..crashes
                      /\ m.start > 0 /\ m.attempt = crashes =>
                            m.start <= rolloutId \/ (m.start = rolloutId + 1 /\ m.trained = trained)
                      /\ ~mixed => AgreesWith(m, ckpt)
<1>5. Fine(model) /\ Fine(pending)
  <2>1. ASSUME NEW m \in {model, pending} PROVE Fine(m)
    BY <1>1, <1>4 DEF DiskOK, ModelWritten
  <2> QED
    BY <2>1
<1>6. Fine(ModelNow)
  <2>1. /\ ModelNow.start = rolloutId + 1 /\ ModelNow.steps = steps /\ ModelNow.trained = trained
        /\ ModelNow.attempt = crashes
    BY DEF ModelNow
  <2>2. rolloutId + 1 \in 0..NumRollout /\ rolloutId + 1 # 0 /\ (rolloutId + 1) - 1 = rolloutId /\ crashes \in 0..crashes
    BY <1>2, <1>4
  <2>3. ModelOK(ModelNow)
    BY <1>4, <2>1, <2>2 DEF ModelOK
  <2>4. rolloutId \in DOMAIN ckpt => ckpt[rolloutId].attempt # crashes
    <3>1. ASSUME rolloutId \in DOMAIN ckpt, ckpt[rolloutId].attempt = crashes PROVE FALSE
      <4>1. rolloutId < rolloutId \/ driver \in {"update", "done"}
        BY <1>4, <3>1 DEF DiskOK, RolloutWritten
      <4> QED
        BY <1>1, <1>2, <4>1
    <3> QED
      BY <3>1
  <2>5. AgreesWith(ModelNow, ckpt)
    BY <2>1, <2>2, <2>4 DEF AgreesWith
  <2> QED
    BY <2>1, <2>2, <2>3, <2>5
<1>7. Fine(NoModel)
  <2>1. /\ NoModel.start = 0 /\ NoModel.steps = 0 /\ NoModel.trained = {} /\ NoModel.attempt = 0
    BY DEF NoModel
  <2>2. ModelOK(NoModel)
    BY <1>4, <2>1 DEF ModelOK
  <2> QED
    BY <1>4, <2>1, <2>2 DEF AgreesWith
<1>8. Fine(model') /\ Fine(pending')
  <2> HIDE DEF Fine
  <2> QED
    BY <1>1, <1>5, <1>6, <1>7
<1>9. ASSUME NEW m \in {model', pending'}
      PROVE  /\ ModelOK(m)
             /\ m.attempt \in 0..crashes' /\ (m.start > 0 /\ m.attempt = crashes' =>
                   \/ m.start <= rolloutId'
                   \/ /\ m.start = rolloutId' + 1 /\ m.trained = trained'
                      /\ driver' \in {"saveRollout", "swap", "update", "done"})
             /\ ~mixed' => AgreesWith(m, ckpt')
  <2>1. Fine(m)
    <3> HIDE DEF Fine
    <3> QED
      BY <1>8
  <2> QED
    BY <1>1, <1>2, <2>1
<1>10. ASSUME NEW id \in DOMAIN ckpt'
       PROVE  /\ id \in 0..(NumRollout - 1) /\ SavedOK(ckpt'[id], id)
              /\ ckpt'[id].attempt \in 0..crashes' /\ (ckpt'[id].attempt = crashes' =>
                    id < rolloutId' \/ (id = rolloutId' /\ driver' \in {"update", "done"}))
  <2>1. /\ id \in 0..(NumRollout - 1) /\ SavedOK(ckpt[id], id)
        /\ ckpt[id].attempt \in 0..crashes /\ (ckpt[id].attempt = crashes => RolloutWritten(id))
    BY <1>1, <1>4, <1>10 DEF DiskOK
  <2> QED
    BY <1>1, <2>1 DEF RolloutWritten
<1>11. DiskOK'
  BY <1>1, <1>4, <1>9, <1>10 DEF DiskOK, RolloutWritten, ModelWritten
<1> QED
  BY <1>2, <1>3, <1>11 DEF TrainIInv

\* Removing the checkpoint that the rollout is about to write again keeps the invariant.
LEMMA ReplaceKeeps == ASSUME TrainIInv, ReplaceOldCheckpoint PROVE TrainIInv'
<1>1. /\ driver = "saveRollout" /\ driver' = "swap" /\ ckpt' = Without(ckpt, rolloutId)
      /\ UNCHANGED <<vars, rolloutId, asked, begun, current, steps, snapshots, pending, model, crashes, mixed>>
  BY DEF ReplaceOldCheckpoint
<1>2. /\ Core' /\ BoundedLag' /\ DriverInStep' /\ BatchOnItsWay' /\ rolloutId \in Nat
      /\ Loaded' = {} => EveryGroupPlaced'
      /\ Loaded = {}
      /\ UNCHANGED trained
  BY <1>1, SavingKeeps
<1>3. Loaded' = {}
  BY <1>1, <1>2 DEF Loaded
<1>4. DOMAIN ckpt' \subseteq DOMAIN ckpt /\ \A id \in DOMAIN ckpt' : ckpt'[id] = ckpt[id]
  BY <1>1 DEF Without
<1>5. DiskOK
  BY <1>1 DEF TrainIInv
<1>6. ASSUME NEW m \in {model', pending'}
      PROVE  /\ ModelOK(m)
             /\ m.attempt \in 0..crashes' /\ (m.start > 0 /\ m.attempt = crashes' =>
                   \/ m.start <= rolloutId'
                   \/ /\ m.start = rolloutId' + 1 /\ m.trained = trained'
                      /\ driver' \in {"saveRollout", "swap", "update", "done"})
             /\ ~mixed' => AgreesWith(m, ckpt')
  <2>1. /\ ModelOK(m) /\ m.attempt \in 0..crashes /\ (m.start > 0 /\ m.attempt = crashes => ModelWritten(m))
        /\ ~mixed => AgreesWith(m, ckpt)
    BY <1>1, <1>5 DEF DiskOK
  <2>2. AgreesWith(m, ckpt) => AgreesWith(m, ckpt')
    BY <1>4 DEF AgreesWith
  <2> QED
    BY <1>1, <1>2, <2>1, <2>2 DEF ModelWritten
<1>7. ASSUME NEW id \in DOMAIN ckpt'
      PROVE  /\ id \in 0..(NumRollout - 1) /\ SavedOK(ckpt'[id], id)
             /\ ckpt'[id].attempt \in 0..crashes' /\ (ckpt'[id].attempt = crashes' =>
                   id < rolloutId' \/ (id = rolloutId' /\ driver' \in {"update", "done"}))
  <2>1. /\ id \in 0..(NumRollout - 1) /\ SavedOK(ckpt[id], id)
        /\ ckpt[id].attempt \in 0..crashes /\ (ckpt[id].attempt = crashes => RolloutWritten(id))
    BY <1>4, <1>5, <1>7 DEF DiskOK
  <2> QED
    BY <1>1, <1>4, <2>1 DEF RolloutWritten
<1>8. DiskOK'
  BY <1>1, <1>5, <1>6, <1>7 DEF DiskOK, RolloutWritten, ModelWritten
<1> QED
  BY <1>2, <1>3, <1>8 DEF TrainIInv

\* What is saved of the rollout side is what is in its places.
LEMMA SavedIsPlaced ==
    ASSUME TypeOK, NEW batch, NEW old,
           AllPlaced(drawn, retryBuffer, running, buffer, batch, old, dropped)
    PROVE  /\ AllPlaced(drawn, retryBuffer \o IdsOf(running), <<>>, buffer, batch, old, dropped)
           /\ IdsOf(running) \in Seq(Groups)
<1>1. retryBuffer \in Seq(Groups) /\ running \in Seq(Tasks) /\ Len(running) \in Nat /\ DOMAIN running = 1..Len(running)
  BY LenProperties DEF TypeOK
<1>2. /\ IdsOf(running) \in Seq(Groups) /\ Len(IdsOf(running)) = Len(running)
      /\ Range(IdsOf(running)) = GroupsOf(running)
  <2> DEFINE n == Len(running)
             t == [i \in 1..n |-> running[i].g]
  <2>1. \A i \in 1..n : running[i] \in Tasks
    BY <1>1, ElementOfSeq
  <2>2. \A i \in 1..n : running[i].g \in Groups
    BY <2>1 DEF Tasks
  <2>3. t \in Seq(Groups) /\ Len(t) = n
    <3>1. n \in Nat
      BY <1>1
    <3> HIDE DEF n
    <3> QED
      BY <2>2, <3>1
  <2>4. IdsOf(running) = t
    BY <1>1 DEF IdsOf
  <2>5. Range(IdsOf(running)) = GroupsOf(running)
    BY DEF IdsOf, Range, GroupsOf
  <2> QED
    BY <2>3, <2>4, <2>5
<1>3. /\ Len(retryBuffer \o IdsOf(running)) = Len(retryBuffer) + Len(running)
      /\ Range(retryBuffer \o IdsOf(running)) = Range(retryBuffer) \cup GroupsOf(running)
  BY <1>1, <1>2, RangeOfConcat
<1>4. Len(<<>>) = 0 /\ GroupsOf(<<>>) = {}
  BY DEF GroupsOf
<1>5. 1..drawn = Places(retryBuffer \o IdsOf(running), <<>>, buffer, batch, old, dropped)
  BY <1>3, <1>4 DEF AllPlaced, Places
<1>6. drawn = Total(retryBuffer \o IdsOf(running), <<>>, buffer, batch, old, dropped)
  <2>1. drawn = Len(retryBuffer) + Len(running) + Len(buffer) + Len(batch) + Cardinality(old) + Cardinality(dropped)
    BY DEF AllPlaced, Total
  <2>2. Total(retryBuffer \o IdsOf(running), <<>>, buffer, batch, old, dropped)
          = (Len(retryBuffer) + Len(running)) + 0 + Len(buffer) + Len(batch) + Cardinality(old) + Cardinality(dropped)
    BY <1>3, <1>4 DEF Total
  <2>3. Len(retryBuffer) \in Nat /\ Len(running) \in Nat
    BY <1>1, LenProperties
  <2>4. (Len(retryBuffer) + Len(running)) + 0 = Len(retryBuffer) + Len(running)
    BY <2>3
  <2> QED
    BY <2>1, <2>2, <2>4
<1> QED
  BY <1>2, <1>5, <1>6 DEF AllPlaced

\* The rollout checkpoint holds the batch of the next rollout, if it has been taken.
LEMMA SaveRolloutKeeps == ASSUME TrainIInv, SaveRollout PROVE TrainIInv'
<1> DEFINE state == [RolloutState EXCEPT !.snapshots = snapshots']
<1>1. /\ driver \in {"saveRollout", "swap"} /\ driver' = "update"
      /\ snapshots' = DiscardCompleted(snapshots, rolloutId)
      /\ ckpt' = [id \in DOMAIN ckpt \cup {rolloutId} |-> IF id = rolloutId THEN state ELSE ckpt[id]]
      /\ UNCHANGED <<vars, rolloutId, asked, begun, current, steps, pending, model, crashes, mixed>>
  BY DEF SaveRollout
<1>2. /\ Core' /\ BoundedLag' /\ DriverInStep' /\ rolloutId \in Nat /\ rolloutId < NumRollout
      /\ Received' = Received /\ Received = rolloutId + 1
      /\ UNCHANGED <<drawn, retryBuffer, running, buffer, dropped, trained, taken>>
      /\ Loaded' = {} => EveryGroupPlaced'
      /\ Loaded = {} /\ current = <<>>
  BY <1>1, SavingKeeps
<1>3. Core /\ DriverInStep /\ BatchOnItsWay /\ EveryGroupPlaced /\ DiskOK /\ TypeOK /\ taken \in Seq(Entries)
  BY <1>1 DEF TrainIInv, Core, TypeOK
<1>4. /\ state.drawn = drawn /\ state.retry = retryBuffer /\ state.running = IdsOf(running)
      /\ state.buffer = buffer /\ state.dropped = dropped /\ state.snapshots = snapshots'
      /\ state.attempt = crashes
  BY DEF RolloutState
<1> HIDE DEF state
<1>5. /\ SnapshotsOK(snapshots') /\ Len(snapshots') <= 1 /\ FirstBatch(snapshots') = taken
      /\ \A i \in DOMAIN snapshots' :
            /\ snapshots'[i].id = rolloutId + 1 /\ taken # <<>> /\ snapshots'[i].batch = taken
            /\ \E j \in DOMAIN snapshots : snapshots'[i] = snapshots[j]
      /\ taken # <<>> => DOMAIN snapshots' = {1}
  <2>1. \A i \in DOMAIN snapshots : snapshots[i].id <= rolloutId \/ (snapshots[i].id = rolloutId + 1 /\ taken # <<>>)
    <3>1. \A i \in DOMAIN snapshots : snapshots[i].id \in Nat
      BY <1>3, SnapshotIs DEF BatchOnItsWay
    <3>2. \A i \in DOMAIN snapshots :
             snapshots[i].id < rolloutId + 1 \/ (snapshots[i].id = rolloutId + 1 /\ taken # <<>>)
      BY <1>2, <1>3 DEF BatchOnItsWay
    <3> QED
      BY <1>2, <3>1, <3>2
  <2>2. taken # <<>> => \E i \in DOMAIN snapshots : snapshots[i].id = rolloutId + 1 /\ snapshots[i].batch = taken
    BY <1>2, <1>3 DEF BatchOnItsWay
  <2>3. SnapshotsOK(snapshots)
    BY <1>3 DEF BatchOnItsWay
  <2> QED
    BY <1>1, <1>2, <1>3, <2>1, <2>2, <2>3, DiscardIs
<1>6. Loaded' = {}
  BY <1>2, <1>5 DEF Loaded
<1>7. BatchOnItsWay'
  <2>1. taken # <<>> => /\ begun' = Received' + 1
                        /\ \E i \in DOMAIN snapshots' : snapshots'[i].id = Received' /\ snapshots'[i].batch = taken'
    BY <1>1, <1>2, <1>3, <1>5 DEF BatchOnItsWay
  <2>2. \A i \in DOMAIN snapshots' : snapshots'[i].id = Received' /\ taken' # <<>>
    BY <1>2, <1>5
  <2>3. /\ current' = current /\ rolloutId' = rolloutId /\ begun' = begun /\ getPending' = getPending
    BY <1>1 DEF vars
  <2>4. /\ current \in Seq(Entries) /\ WithinLag(current, rolloutId)
        /\ getPending => taken = <<>> /\ begun = Received + 1
    BY <1>3 DEF BatchOnItsWay
  <2> QED
    BY <1>2, <1>5, <1>6, <2>1, <2>2, <2>3, <2>4 DEF BatchOnItsWay
<1>8. /\ \E old \in SUBSET Groups : SavedPlaced(state, old)
      /\ ~mixed => SavedPlaced(state, trained)
      /\ IdsOf(running) \in Seq(Groups)
  <2>1. Arriving = taken
    BY <1>2 DEF Arriving
  <2>2. ASSUME NEW old \in SUBSET Groups, Placed(old)
        PROVE  SavedPlaced(state, old) /\ IdsOf(running) \in Seq(Groups)
    BY <1>3, <1>4, <1>5, <2>1, <2>2, SavedIsPlaced DEF SavedPlaced, Placed
  <2>3. trained \in SUBSET Groups /\ trained \cup GroupsOf(current) = trained
    BY <1>2, <1>3 DEF TypeOK, GroupsOf
  <2> QED
    BY <1>3, <2>2, <2>3 DEF EveryGroupPlaced
<1>9. SavedOK(state, rolloutId)
  <2>1. /\ drawn \in 0..MaxDraws /\ retryBuffer \in Seq(Groups) /\ buffer \in Seq(Entries)
        /\ Len(buffer) <= Capacity /\ dropped \in SUBSET Groups
    BY <1>3 DEF Core, TypeOK, BufferBound
  <2>2. \A i \in DOMAIN snapshots' : snapshots'[i].id = rolloutId + 1 /\ rolloutId + 1 < NumRollout
    <3>1. taken # <<>> => begun = Received + 1 /\ begun <= asked /\ asked <= NumRollout /\ begun \in Nat /\ asked \in Nat
      BY <1>3 DEF BatchOnItsWay, DriverInStep
    <3>2. taken # <<>> => rolloutId + 1 < NumRollout
      BY <1>2, <3>1, DriverAssumption
    <3> QED
      BY <1>5, <3>2
  <2> QED
    BY <1>4, <1>5, <1>8, <2>1, <2>2 DEF SavedOK
<1>10. /\ rolloutId \in 0..(NumRollout - 1) /\ crashes \in Nat /\ crashes \in 0..crashes /\ mixed \in BOOLEAN
  BY <1>2, <1>3, DriverAssumption DEF DiskOK
<1>11. /\ \A id \in DOMAIN ckpt' : id = rolloutId \/ (id \in DOMAIN ckpt /\ id # rolloutId)
       /\ rolloutId \in DOMAIN ckpt' /\ ckpt'[rolloutId] = state
       /\ \A id \in DOMAIN ckpt : id # rolloutId => id \in DOMAIN ckpt' /\ ckpt'[id] = ckpt[id]
  BY <1>1
<1>12. ASSUME NEW m \in {model', pending'}
       PROVE  /\ ModelOK(m)
              /\ m.attempt \in 0..crashes' /\ (m.start > 0 /\ m.attempt = crashes' =>
                    \/ m.start <= rolloutId'
                    \/ /\ m.start = rolloutId' + 1 /\ m.trained = trained'
                       /\ driver' \in {"saveRollout", "swap", "update", "done"})
              /\ ~mixed' => AgreesWith(m, ckpt')
  <2>1. /\ ModelOK(m) /\ m.attempt \in 0..crashes /\ (m.start > 0 /\ m.attempt = crashes => ModelWritten(m))
        /\ ~mixed => AgreesWith(m, ckpt)
    BY <1>1, <1>3 DEF DiskOK
  <2>2. m.start \in Nat
    BY <2>1, DriverAssumption DEF ModelOK
  <2>3. ASSUME ~mixed, m.start > 0, m.start - 1 \in DOMAIN ckpt', ckpt'[m.start - 1].attempt = m.attempt
        PROVE  SavedPlaced(ckpt'[m.start - 1], m.trained)
    <3>1. CASE m.start - 1 = rolloutId
      <4>1. m.attempt = crashes
        BY <1>4, <1>11, <2>3, <3>1
      <4>2. ~(m.start <= rolloutId)
        BY <1>2, <2>2, <3>1
      <4>3. m.trained = trained
        BY <2>1, <2>3, <4>1, <4>2 DEF ModelWritten
      <4> QED
        BY <1>8, <1>11, <2>3, <3>1, <4>3
    <3>2. CASE m.start - 1 # rolloutId
      <4>1. m.start - 1 \in DOMAIN ckpt /\ ckpt'[m.start - 1] = ckpt[m.start - 1]
        BY <1>11, <2>3, <3>2
      <4> QED
        BY <2>1, <2>3, <4>1 DEF AgreesWith
    <3> QED
      BY <3>1, <3>2
  <2>4. ~mixed' => AgreesWith(m, ckpt')
    BY <1>1, <2>3 DEF AgreesWith
  <2> QED
    BY <1>1, <1>2, <2>1, <2>4 DEF ModelWritten
<1>13. ASSUME NEW id \in DOMAIN ckpt'
       PROVE  /\ id \in 0..(NumRollout - 1) /\ SavedOK(ckpt'[id], id)
              /\ ckpt'[id].attempt \in 0..crashes' /\ (ckpt'[id].attempt = crashes' =>
                    id < rolloutId' \/ (id = rolloutId' /\ driver' \in {"update", "done"}))
  <2>1. CASE id = rolloutId
    BY <1>1, <1>4, <1>9, <1>10, <1>11, <2>1
  <2>2. CASE id \in DOMAIN ckpt /\ id # rolloutId
    <3>1. /\ id \in 0..(NumRollout - 1) /\ SavedOK(ckpt[id], id)
          /\ ckpt[id].attempt \in 0..crashes /\ (ckpt[id].attempt = crashes => RolloutWritten(id))
      BY <1>3, <2>2 DEF DiskOK
    <3>2. ckpt'[id] = ckpt[id]
      BY <1>11, <2>2
    <3> QED
      BY <1>1, <2>2, <3>1, <3>2 DEF RolloutWritten
  <2> QED
    BY <1>11, <2>1, <2>2
<1>14. DiskOK'
  BY <1>1, <1>10, <1>12, <1>13 DEF DiskOK, RolloutWritten, ModelWritten
<1> QED
  BY <1>2, <1>6, <1>7, <1>14 DEF TrainIInv

\* The weights reach the engines at the end of an interval, before the next get().
LEMMA UpdateKeeps == ASSUME TrainIInv, UpdateWeights PROVE TrainIInv'
<1>1. /\ driver = "update"
      /\ version' = IF UpdateDue THEN steps ELSE version
      /\ \/ HasNext /\ rolloutId' = rolloutId + 1 /\ asked' = rolloutId + 2 /\ driver' = "await"
         \/ ~HasNext /\ driver' = "done" /\ rolloutId' = rolloutId /\ asked' = asked
      /\ UNCHANGED <<producer, retryBuffer, buffer, resumed, admissionChanged, getPending, taken,
                     trained, dropped, begun, current, steps, snapshots, diskVars>>
  BY DEF UpdateWeights, PublishWeights
<1>2. Core /\ BoundedLag /\ DriverInStep /\ BatchOnItsWay /\ EveryGroupPlaced /\ DiskOK
  BY <1>1 DEF TrainIInv
<1>3. /\ rolloutId \in Nat /\ rolloutId < NumRollout /\ NumRollout \in Nat /\ Received = rolloutId + 1
      /\ steps = rolloutId + 1 /\ version \in Nat /\ UNCHANGED mixed
      /\ NumRollout <= MaxVersion /\ MaxVersion \in Nat
  BY <1>1, <1>2, DriverIs, DriverAssumption, SizesAssumption
     DEF Received, TrainedOn, DriverInStep, diskVars, Core, TypeOK, Versions
<1>4. Received' = rolloutId + 1 /\ TrainedOn' = rolloutId + 1
  BY <1>1, <1>3 DEF Received, TrainedOn
<1>5. Loaded = {} /\ Loaded' = {} /\ current = <<>>
  BY <1>1, <1>2 DEF BatchOnItsWay, Loaded
<1>6. Core'
  <2>1. version' \in Versions
    BY <1>1, <1>2, <1>3 DEF Versions, Core, TypeOK
  <2> QED
    BY <1>1, <1>2, <2>1, CoreKept DEF Core, TypeOK, OneBatch
<1>7. BoundedLag'
  BY <1>1, <1>2 DEF BoundedLag
<1>8. DriverInStep'
  <2>1. /\ begun \in Nat /\ asked \in Nat /\ rolloutId + 1 <= begun /\ begun <= asked /\ asked <= rolloutId + 2
        /\ asked <= NumRollout /\ (asked = rolloutId + 2 => ~UpdateDue)
        /\ rolloutId - version <= rolloutId % Interval /\ begun' = begun /\ steps' = rolloutId + 1
    BY <1>1, <1>2, <1>3 DEF DriverInStep
  <2>2. CASE HasNext
    <3>1. rolloutId' = rolloutId + 1 /\ asked' = rolloutId + 2 /\ driver' = "await" /\ rolloutId + 1 < NumRollout
      BY <1>1, <2>2 DEF HasNext
    <3>2. /\ rolloutId' \in 0..NumRollout /\ rolloutId' # NumRollout /\ asked' \in Nat /\ asked' <= NumRollout
          /\ Received' <= begun' /\ begun' <= asked' /\ asked' <= Received' + 1 /\ asked' = rolloutId' + 1
          /\ asked' # rolloutId' + 2
      BY <1>3, <1>4, <2>1, <3>1
    <3>3. rolloutId' - version' <= rolloutId' % Interval
      <4>1. /\ rolloutId % Interval \in 0..(Interval - 1)
            /\ (rolloutId + 1) % Interval # 0 => (rolloutId + 1) % Interval = (rolloutId % Interval) + 1
            /\ (rolloutId + 1) % Interval \in 0..(Interval - 1)
            /\ Interval \in Nat
        <5>1. Interval \in Nat \ {0} /\ rolloutId + 1 \in Nat
          BY <1>3, DriverAssumption
        <5> QED
          BY <1>3, <5>1, NextOfInterval
      <4> DEFINE r == rolloutId % Interval
                 s == (rolloutId + 1) % Interval
      <4>2. /\ r \in Nat /\ s \in Nat /\ (s # 0 => s = r + 1) /\ rolloutId - version <= r
            /\ UpdateDue <=> s = 0
            /\ rolloutId' % Interval = s
        BY <2>1, <3>1, <4>1 DEF UpdateDue
      <4> HIDE DEF r, s
      <4>3. CASE s = 0
        <5>1. version' = rolloutId + 1
          BY <1>1, <1>3, <4>2, <4>3
        <5>2. rolloutId' - version' = 0
          BY <1>3, <3>1, <5>1
        <5> QED
          BY <4>2, <4>3, <5>2
      <4>4. CASE s # 0
        <5>1. version' = version
          BY <1>1, <4>2, <4>4
        <5>2. (rolloutId + 1) - version <= s
          BY <1>3, <4>2, <4>4
        <5>3. rolloutId' = rolloutId + 1
          BY <3>1
        <5> QED
          BY <1>3, <4>2, <5>1, <5>2, <5>3
      <4> QED
        BY <4>3, <4>4
    <3> QED
      BY <1>4, <2>1, <3>1, <3>2, <3>3 DEF DriverInStep
  <2>3. CASE ~HasNext
    <3>1. rolloutId' = rolloutId /\ asked' = asked /\ driver' = "done" /\ ~HasNext'
      BY <1>1, <2>3 DEF HasNext
    <3>2. rolloutId' \in 0..NumRollout /\ rolloutId' # NumRollout /\ (asked' = rolloutId' + 2 => ~UpdateDue')
      BY <1>3, <2>1, <3>1 DEF UpdateDue
    <3>3. Received' <= begun' /\ asked' <= Received' + 1
      BY <1>3, <1>4, <2>1, <3>1
    <3> QED
      BY <1>3, <1>4, <2>1, <3>1, <3>2, <3>3 DEF DriverInStep
  <2> QED
    BY <2>2, <2>3
<1>9. BatchOnItsWay'
  <2>1. WithinLag(<<>>, rolloutId')
    BY DEF WithinLag
  <2> QED
    BY <1>1, <1>2, <1>3, <1>4, <1>5, <2>1 DEF BatchOnItsWay
<1>10. EveryGroupPlaced'
  <2>1. Arriving' = Arriving
    BY <1>1, <1>5 DEF Arriving
  <2> QED
    BY <1>1, <1>2, <1>3, <2>1, PlacesUntouched DEF producer, EveryGroupPlaced
<1>11. DiskOK'
  BY <1>1, <1>2, <1>3, DiskKept
<1> QED
  BY <1>6, <1>7, <1>8, <1>9, <1>10, <1>11 DEF TrainIInv

\* The run that cannot be resumed stays as it is.
LEMMA FailKeeps == ASSUME TrainIInv, NEW m, CrashAndFail(m) PROVE TrainIInv'
<1>1. driver' = "failed" /\ UNCHANGED <<vars, current, steps>>
  BY DEF CrashAndFail
<1>2. Core'
  BY <1>1, CoreKept DEF TrainIInv, Core, TypeOK, OneBatch, vars
<1>3. BoundedLag'
  BY <1>1 DEF TrainIInv, BoundedLag
<1> QED
  BY <1>1, <1>2, <1>3 DEF TrainIInv

\* What a run begins with, if it begins with the model m.
LEMMA RestoredIs ==
    ASSUME DiskOK, NEW m \in {model, pending}, m.start = 0 \/ m.start - 1 \in DOMAIN ckpt
    PROVE  /\ m.start \in Nat /\ m.start <= NumRollout /\ m.steps = m.start /\ m.trained \in SUBSET Groups
           /\ SavedOK(Restored(m), m.start - 1)
           /\ m.start = 0 => m = NoModel /\ Restored(m).snapshots = <<>>
           /\ (~mixed /\ Restored(m).attempt = m.attempt) => SavedPlaced(Restored(m), m.trained)
<1>1. /\ ModelOK(m) /\ m.attempt \in 0..crashes
      /\ ~mixed => AgreesWith(m, ckpt)
  BY DEF DiskOK
<1>2. m.start \in Nat /\ m.start <= NumRollout /\ m.steps = m.start /\ m.trained \in SUBSET Groups
      /\ (m.start = 0 => m = NoModel)
  BY <1>1, DriverAssumption DEF ModelOK
<1>3. CASE m.start = 0
  <2> DEFINE saved == Restored(m)
  <2>1. /\ saved.drawn = 0 /\ saved.retry = <<>> /\ saved.running = <<>> /\ saved.buffer = <<>>
        /\ saved.dropped = {} /\ saved.snapshots = <<>>
    BY <1>3 DEF Restored
  <2>2. m.trained = {}
    BY <1>2, <1>3 DEF NoModel
  <2> HIDE DEF saved
  <2>3. /\ <<>> \in Seq(Groups) /\ <<>> \in Seq(Entries) /\ <<>> \in Seq(Snapshots) /\ Len(<<>>) = 0
        /\ DOMAIN <<>> = {} /\ <<>> \o <<>> = <<>> /\ Range(<<>>) = {} /\ GroupsOf(<<>>) = {}
    <3>1. <<>> \o <<>> = <<>>
      BY EmptySeq, ConcatEmptySeq
    <3> QED
      BY <3>1 DEF Range, GroupsOf
  <2>4. SnapshotsOK(<<>>) /\ FirstBatch(<<>>) = <<>>
    BY <2>3 DEF SnapshotsOK, FirstBatch
  <2>5. SavedPlaced(saved, {})
    <3>1. 1..0 = {} /\ Cardinality({}) = 0
      BY FS_EmptySet
    <3>2. 1..0 = Places(<<>>, <<>>, <<>>, <<>>, {}, {})
      BY <2>3, <3>1 DEF Places
    <3>3. 0 = Total(<<>>, <<>>, <<>>, <<>>, {}, {})
      BY <2>3, <3>1 DEF Total
    <3>4. AllPlaced(0, <<>>, <<>>, <<>>, <<>>, {}, {})
      BY <3>2, <3>3 DEF AllPlaced
    <3> QED
      BY <2>1, <2>3, <2>4, <3>4 DEF SavedPlaced
  <2>6. SavedOK(saved, m.start - 1)
    BY <2>1, <2>3, <2>4, <2>5, SizesAssumption DEF SavedOK
  <2> QED
    BY <1>2, <1>3, <2>1, <2>2, <2>5, <2>6 DEF saved
<1>4. CASE m.start # 0
  <2>1. m.start > 0 /\ m.start - 1 \in DOMAIN ckpt /\ Restored(m) = ckpt[m.start - 1]
    BY <1>2, <1>4 DEF Restored
  <2>2. SavedOK(ckpt[m.start - 1], m.start - 1)
    BY <2>1 DEF DiskOK
  <2>3. (~mixed /\ Restored(m).attempt = m.attempt) => SavedPlaced(Restored(m), m.trained)
    BY <1>1, <2>1 DEF AgreesWith
  <2> QED
    BY <1>2, <1>4, <2>1, <2>2, <2>3
<1> QED
  BY <1>3, <1>4

\* The snapshots of a checkpoint all wait to be replayed after its restart.
LEMMA LoadedAre ==
    ASSUME NEW snaps, SnapshotsOK(snaps), Len(snaps) <= 1, NEW id \in Int,
           \A i \in DOMAIN snaps : snaps[i].id = id + 1
    PROVE  LET now == DiscardCompleted([i \in DOMAIN snaps |-> [snaps[i] EXCEPT !.phase = "loaded"]], id)
           IN  /\ SnapshotsOK(now) /\ Len(now) = Len(snaps) /\ DOMAIN now = DOMAIN snaps
               /\ \A i \in DOMAIN now : now[i].phase = "loaded" /\ now[i].id = snaps[i].id /\ now[i].batch = snaps[i].batch
               /\ FirstBatch(now) = FirstBatch(snaps)
<1> DEFINE t == [i \in DOMAIN snaps |-> [snaps[i] EXCEPT !.phase = "loaded"]]
           K == {i \in DOMAIN t : t[i].id > id}
           n == Len(snaps)
<1>1. /\ n \in Nat /\ DOMAIN snaps = 1..n
      /\ \A i \in DOMAIN snaps : snaps[i] \in Snapshots /\ snaps[i].id \in Nat
  BY SnapshotIs
<1>2. /\ DOMAIN t = 1..n
      /\ \A i \in 1..n : t[i] \in Snapshots /\ t[i].id = snaps[i].id /\ t[i].batch = snaps[i].batch /\ t[i].phase = "loaded"
  <2>1. ASSUME NEW r \in Snapshots
        PROVE  /\ [r EXCEPT !.phase = "loaded"] \in Snapshots /\ [r EXCEPT !.phase = "loaded"].id = r.id
               /\ [r EXCEPT !.phase = "loaded"].batch = r.batch
               /\ [r EXCEPT !.phase = "loaded"].phase = "loaded"
    BY DEF Snapshots, Phases
  <2>2. ASSUME NEW i \in 1..n
        PROVE  t[i] \in Snapshots /\ t[i].id = snaps[i].id /\ t[i].batch = snaps[i].batch /\ t[i].phase = "loaded"
    <3>1. t[i] = [snaps[i] EXCEPT !.phase = "loaded"] /\ snaps[i] \in Snapshots
      BY <1>1
    <3> HIDE DEF t
    <3> QED
      BY <2>1, <3>1
  <2> QED
    BY <1>1, <2>2
<1>3. t \in Seq(Snapshots) /\ Len(t) = n
  <2>1. t = [i \in 1..n |-> [snaps[i] EXCEPT !.phase = "loaded"]]
    BY <1>1
  <2> DEFINE u == [i \in 1..n |-> t[i]]
  <2>2. u = t
    BY <2>1
  <2> HIDE DEF n, t
  <2>3. u \in Seq(Snapshots) /\ Len(u) = n
    BY <1>1, <1>2
  <2> QED
    BY <2>2, <2>3
<1> HIDE DEF t
<1>4. SnapshotsOK(t)
  BY <1>1, <1>2, <1>3 DEF SnapshotsOK
<1>5. K = DOMAIN t
  <2>1. \A i \in DOMAIN t : t[i].id = id + 1
    BY <1>1, <1>2
  <2>2. id + 1 > id
    OBVIOUS
  <2> QED
    BY <2>1, <2>2
<1>6. DiscardCompleted(t, id) = t
  <2>1. DiscardCompleted(t, id) = Selected(t, K)
    BY DEF DiscardCompleted
  <2>2. Selected(t, DOMAIN t) = t
    BY <1>3, SelectedAll
  <2> HIDE DEF K
  <2> QED
    BY <1>5, <2>1, <2>2
<1>7. FirstBatch(t) = FirstBatch(snaps)
  <2>1. snaps \in Seq(Snapshots)
    BY DEF SnapshotsOK
  <2>2. CASE n = 0
    <3>1. t = <<>> /\ snaps = <<>>
      BY <1>3, <2>1, <2>2, EmptySeq
    <3> QED
      BY <3>1
  <2>3. CASE n = 1
    <3>1. 1 \in 1..n
      BY <2>3
    <3>2. t[1].batch = snaps[1].batch
      BY <1>2, <3>1
    <3>3. t # <<>> /\ snaps # <<>>
      BY <1>1, <1>2, <3>1
    <3> QED
      BY <3>2, <3>3 DEF FirstBatch
  <2> QED
    BY <1>1, <2>2, <2>3
<1> QED
  BY <1>1, <1>2, <1>3, <1>4, <1>6, <1>7 DEF t

\* A run that is started again has every group of its checkpoint in one place, and those
\* that its model has learnt from nowhere else.
LEMMA RestartKeeps == ASSUME TrainIInv, NEW m \in {model, pending}, CrashAndRestart(m) PROVE TrainIInv'
<1> DEFINE saved == Restored(m)
<1>1. /\ driver \notin {"failed", "done"} /\ crashes' = crashes + 1 /\ model' = m /\ pending' = NoModel /\ ckpt' = ckpt
      /\ m.start = 0 \/ m.start - 1 \in DOMAIN ckpt
      /\ mixed' = (mixed \/ saved.attempt # m.attempt)
      /\ drawn' = saved.drawn /\ retryBuffer' = saved.retry \o saved.running /\ buffer' = saved.buffer
      /\ dropped' = saved.dropped
      /\ snapshots' = DiscardCompleted([i \in DOMAIN saved.snapshots |->
                            [saved.snapshots[i] EXCEPT !.phase = "loaded"]], m.start - 1)
      /\ trained' = m.trained /\ steps' = m.steps /\ version' = m.steps
      /\ running' = <<>> /\ samplesInFlight' = 0 /\ sampleDone' = FALSE
      /\ worker' = "none" /\ done' = {} /\ putting' = NoGroup
      /\ resumed' = TRUE /\ admissionChanged' = FALSE /\ getPending' = FALSE
      /\ taken' = <<>> /\ current' = <<>>
      /\ rolloutId' = m.start /\ begun' = m.start
      /\ IF m.start < NumRollout
         THEN asked' = m.start + 1 /\ driver' = "await"
         ELSE asked' = m.start /\ driver' = "done"
  BY DEF CrashAndRestart, Crash, Load
<1>2. Core /\ DiskOK /\ crashes \in Nat /\ mixed \in BOOLEAN
  BY <1>1 DEF TrainIInv, DiskOK
<1>3. /\ m.start \in Nat /\ m.start <= NumRollout /\ m.steps = m.start /\ m.trained \in SUBSET Groups
      /\ SavedOK(saved, m.start - 1)
      /\ m.start = 0 => m = NoModel /\ saved.snapshots = <<>>
      /\ (~mixed /\ saved.attempt = m.attempt) => SavedPlaced(saved, m.trained)
  BY <1>1, <1>2, RestoredIs
<1> HIDE DEF saved
<1>4. /\ NumRollout \in Nat /\ NumRollout >= 1 /\ NumRollout <= MaxVersion /\ MaxVersion \in Nat
      /\ Interval \in Nat /\ Interval >= 1 /\ MaxStaleness \in Nat /\ MaxDraws \in Nat
  BY DriverAssumption, SizesAssumption
<1>5. /\ saved.drawn \in 0..MaxDraws /\ saved.retry \in Seq(Groups) /\ saved.running \in Seq(Groups)
      /\ saved.buffer \in Seq(Entries) /\ Len(saved.buffer) <= Capacity /\ saved.dropped \in SUBSET Groups
      /\ SnapshotsOK(saved.snapshots) /\ Len(saved.snapshots) <= 1
      /\ \A i \in DOMAIN saved.snapshots :
            saved.snapshots[i].id = (m.start - 1) + 1 /\ (m.start - 1) + 1 < NumRollout
      /\ \E old \in SUBSET Groups : SavedPlaced(saved, old)
  BY <1>3 DEF SavedOK
<1>6. <<>> \in Seq(Entries) /\ <<>> \in Seq(Tasks) /\ Len(<<>>) = 0 /\ GroupsOf(<<>>) = {} /\ DOMAIN <<>> = {}
  BY DEF GroupsOf
<1>7. /\ SnapshotsOK(snapshots') /\ Len(snapshots') = Len(saved.snapshots) /\ DOMAIN snapshots' = DOMAIN saved.snapshots
      /\ \A i \in DOMAIN snapshots' : snapshots'[i].phase = "loaded" /\ snapshots'[i].id = m.start
      /\ FirstBatch(snapshots') = FirstBatch(saved.snapshots)
  <2>1. m.start - 1 \in Int /\ (m.start - 1) + 1 = m.start
    BY <1>3
  <2>2. \A i \in DOMAIN saved.snapshots : saved.snapshots[i].id = m.start
    BY <1>5, <2>1
  <2> DEFINE snaps == saved.snapshots
             id == m.start - 1
             now == DiscardCompleted([i \in DOMAIN snaps |-> [snaps[i] EXCEPT !.phase = "loaded"]], id)
  <2>3. /\ SnapshotsOK(snaps) /\ Len(snaps) <= 1 /\ id \in Int
        /\ \A i \in DOMAIN snaps : snaps[i].id = id + 1
    BY <1>5, <2>1
  <2>4. snapshots' = now
    BY <1>1
  <2> HIDE DEF snaps, id
  <2>5. /\ SnapshotsOK(now) /\ Len(now) = Len(snaps) /\ DOMAIN now = DOMAIN snaps
        /\ \A i \in DOMAIN now : now[i].phase = "loaded" /\ now[i].id = snaps[i].id
        /\ FirstBatch(now) = FirstBatch(snaps)
    BY <2>3, LoadedAre
  <2> HIDE DEF now
  <2>6. \A i \in DOMAIN snaps : snaps[i].id = m.start
    BY <2>2 DEF snaps
  <2>7. /\ SnapshotsOK(snapshots') /\ Len(snapshots') = Len(snaps) /\ DOMAIN snapshots' = DOMAIN snaps
        /\ \A i \in DOMAIN snapshots' : snapshots'[i].phase = "loaded" /\ snapshots'[i].id = m.start
        /\ FirstBatch(snapshots') = FirstBatch(snaps)
    BY <2>4, <2>5, <2>6
  <2> QED
    BY <2>7 DEF snaps
<1>8. Loaded' = DOMAIN snapshots'
  BY <1>7 DEF Loaded
<1>9. Len(snapshots') \in Nat /\ DOMAIN snapshots' = 1..Len(snapshots') /\ Len(snapshots') <= 1 /\ snapshots' \in Seq(Snapshots)
  BY <1>5, <1>7, SnapshotIs DEF SnapshotsOK
<1>10. Arriving' = FirstBatch(snapshots')
  <2>1. CASE Loaded' = {}
    <3>1. Len(snapshots') = 0
      BY <1>8, <1>9, <2>1
    <3>2. snapshots' = <<>>
      BY <1>9, <3>1, EmptySeq
    <3> QED
      BY <1>1, <2>1, <3>2 DEF Arriving, FirstBatch
  <2>2. CASE Loaded' # {}
    BY <2>2 DEF Arriving
  <2> QED
    BY <2>1, <2>2
<1>11. Core'
  <2>1. /\ retryBuffer' \in Seq(Groups) /\ drawn' \in 0..MaxDraws /\ version' \in Versions
        /\ buffer' \in Seq(Entries) /\ dropped' \subseteq Groups /\ trained' \subseteq Groups
    <3>1. saved.retry \o saved.running \in Seq(Groups)
      BY <1>5, RangeOfConcat
    <3>2. m.start \in 0..MaxVersion
      BY <1>3, <1>4
    <3> QED
      BY <1>1, <1>3, <1>5, <3>1, <3>2 DEF Versions
  <2>2. TypeOK'
    BY <1>1, <1>6, <2>1 DEF TypeOK
  <2>3. FinishedHaveNoneLeft' /\ WorkerPutsFinished' /\ OneBatch'
    BY <1>1, <1>6 DEF FinishedHaveNoneLeft, WorkerPutsFinished, Finished, OneBatch
  <2>4. SampleAccounting'
    <3>1. Unfinished' = {}
      BY <1>1, <1>6 DEF Unfinished
    <3>2. Cardinality(Unfinished') = 0
      BY <3>1, FS_EmptySet
    <3>3. 0 <= Budget * GroupSize
      <4>1. Budget \in Nat /\ GroupSize \in Nat
        BY SizesAssumption
      <4>2. Budget * GroupSize \in Nat
        BY <4>1
      <4> QED
        BY <4>2
    <3> QED
      BY <1>1, <3>2, <3>3 DEF SampleAccounting
  <2>5. BufferBound'
    BY <1>1, <1>5 DEF BufferBound
  <2> QED
    BY <2>2, <2>3, <2>4, <2>5 DEF Core
<1>12. BoundedLag'
  BY <1>1, <1>6 DEF BoundedLag
<1>13. Received' = m.start /\ TrainedOn' = m.start
  BY <1>1, <1>3, <1>4 DEF Received, TrainedOn
<1>14. DriverInStep'
  <2>1. m.start \in 0..NumRollout /\ m.start + 1 \in Nat /\ m.start # m.start + 2 /\ m.start + 1 # m.start + 2
        /\ m.start - m.start = 0
    BY <1>3, <1>4
  <2>2. rolloutId' - version' <= rolloutId' % Interval
    <3>1. m.start % Interval \in 0..(Interval - 1)
      <4>1. Interval \in Nat \ {0}
        BY <1>4
      <4> QED
        BY <1>3, <4>1, NextOfInterval
    <3>2. m.start % Interval >= 0
      BY <1>4, <3>1
    <3>3. rolloutId' = m.start /\ version' = m.start
      BY <1>1, <1>3
    <3> QED
      BY <2>1, <3>2, <3>3
  <2>3. CASE m.start < NumRollout
    BY <1>1, <1>3, <1>4, <1>13, <2>1, <2>2, <2>3 DEF DriverInStep
  <2>4. CASE m.start = NumRollout
    BY <1>1, <1>3, <1>4, <1>13, <2>1, <2>2, <2>4 DEF DriverInStep
  <2> QED
    BY <1>3, <1>4, <2>3, <2>4
<1>15. BatchOnItsWay'
  <2>1. WithinLag(<<>>, rolloutId')
    BY <1>6 DEF WithinLag
  <2>2. Loaded' # {} =>
          /\ driver' = "await" /\ begun' = rolloutId' /\ taken' = <<>> /\ ~getPending'
          /\ worker' = "none" /\ running' = <<>>
          /\ Loaded' = {1} /\ Len(snapshots') = 1 /\ snapshots'[1].id = rolloutId'
    <3> SUFFICES ASSUME Loaded' # {}
                 PROVE  /\ driver' = "await" /\ begun' = rolloutId' /\ taken' = <<>> /\ ~getPending'
                        /\ worker' = "none" /\ running' = <<>>
                        /\ Loaded' = {1} /\ Len(snapshots') = 1 /\ snapshots'[1].id = rolloutId'
      OBVIOUS
    <3>1. Len(snapshots') = 1
      BY <1>8, <1>9
    <3>2. 1..1 = {1}
      OBVIOUS
    <3>3. DOMAIN snapshots' = {1} /\ Loaded' = {1}
      BY <1>8, <1>9, <3>1, <3>2
    <3>4. (m.start - 1) + 1 < NumRollout
      BY <1>5, <1>7, <3>3
    <3>5. m.start < NumRollout
      BY <1>3, <3>4
    <3> QED
      BY <1>1, <1>7, <3>1, <3>3, <3>5
  <2>3. DOMAIN snapshots' \ Loaded' = {}
    BY <1>8
  <2> QED
    BY <1>1, <1>6, <1>7, <2>1, <2>2, <2>3 DEF BatchOnItsWay
<1>16. EveryGroupPlaced'
  <2>1. ASSUME NEW old, SavedPlaced(saved, old)
        PROVE  AllPlaced(drawn', retryBuffer', running', buffer', Arriving', old, dropped')
    BY <1>1, <1>7, <1>10, <2>1 DEF SavedPlaced
  <2>2. \E old \in SUBSET Groups : AllPlaced(drawn', retryBuffer', running', buffer', Arriving', old, dropped')
    BY <1>5, <2>1
  <2>3. trained' \cup GroupsOf(current') = m.trained
    BY <1>1, <1>6
  <2>4. Cardinality(trained' \cup GroupsOf(current')) = Cardinality(trained') + Len(current')
    <3> DEFINE c == Cardinality(m.trained)
    <3>1. c \in Nat
      BY <1>3, GroupsAreFinite
    <3>2. Cardinality(trained' \cup GroupsOf(current')) = c /\ Cardinality(trained') = c /\ Len(current') = 0
      BY <1>1, <1>6, <2>3
    <3> HIDE DEF c
    <3>3. c = c + 0
      BY <3>1
    <3> QED
      BY <3>2, <3>3
  <2>5. ~mixed' => AllPlaced(drawn', retryBuffer', running', buffer', Arriving', trained' \cup GroupsOf(current'), dropped')
    <3>1. ~mixed' => ~mixed /\ saved.attempt = m.attempt
      BY <1>1
    <3> QED
      BY <1>3, <2>1, <2>3, <3>1
  <2> QED
    BY <2>2, <2>4, <2>5 DEF EveryGroupPlaced, Placed
<1>17. DiskOK'
  <2>1. crashes' \in Nat /\ mixed' \in BOOLEAN /\ ~(crashes' \in 0..crashes) /\ 0..crashes \subseteq 0..crashes' /\ 0 \in 0..crashes'
    BY <1>1, <1>2
  <2>2. ASSUME NEW k \in {model', pending'}
        PROVE  /\ ModelOK(k) /\ k.attempt \in 0..crashes'
               /\ ~(k.start > 0 /\ k.attempt = crashes')
               /\ ~mixed' => AgreesWith(k, ckpt')
    <3>1. CASE k = m
      <4>1. ModelOK(m) /\ m.attempt \in 0..crashes /\ (~mixed => AgreesWith(m, ckpt))
        BY <1>2 DEF DiskOK
      <4>2. ~mixed' => ~mixed
        BY <1>1
      <4> QED
        BY <1>1, <2>1, <3>1, <4>1, <4>2
    <3>2. CASE k = NoModel
      <4>1. k.start = 0 /\ k.steps = 0 /\ k.trained = {} /\ k.attempt = 0
        BY <3>2 DEF NoModel
      <4>2. ModelOK(k)
        BY <1>4, <3>2, <4>1 DEF ModelOK
      <4> QED
        BY <2>1, <4>1, <4>2 DEF AgreesWith
    <3> QED
      BY <1>1, <3>1, <3>2
  <2>3. ASSUME NEW id \in DOMAIN ckpt'
        PROVE  /\ id \in 0..(NumRollout - 1) /\ SavedOK(ckpt'[id], id)
               /\ ckpt'[id].attempt \in 0..crashes' /\ ckpt'[id].attempt # crashes'
    <3>1. id \in 0..(NumRollout - 1) /\ SavedOK(ckpt[id], id) /\ ckpt[id].attempt \in 0..crashes
      BY <1>1, <1>2, <2>3 DEF DiskOK
    <3> QED
      BY <1>1, <2>1, <3>1
  <2> QED
    BY <2>1, <2>2, <2>3 DEF DiskOK
<1> QED
  BY <1>11, <1>12, <1>14, <1>15, <1>16, <1>17 DEF TrainIInv

\* A run begins with nothing drawn, saved or trained on, and the first batch asked for.
LEMMA InitTrainIInv == ASSUME TrainInit PROVE TrainIInv
<1>1. /\ Init /\ driver = "await" /\ rolloutId = 0 /\ asked = 1 /\ begun = 0
      /\ current = <<>> /\ steps = 0 /\ snapshots = <<>>
      /\ pending = NoModel /\ model = NoModel /\ ckpt = <<>> /\ crashes = 0 /\ mixed = FALSE
  BY DEF TrainInit
<1>2. drawn = 0 /\ retryBuffer = <<>> /\ running = <<>> /\ buffer = <<>> /\ taken = <<>> /\ dropped = {} /\ trained = {}
      /\ getPending = FALSE /\ version = 0
  BY <1>1 DEF Init
<1>3. /\ <<>> \in Seq(Groups) /\ <<>> \in Seq(Entries) /\ <<>> \in Seq(Snapshots) /\ Len(<<>>) = 0
      /\ DOMAIN <<>> = {} /\ Range(<<>>) = {} /\ GroupsOf(<<>>) = {} /\ Cardinality({}) = 0
  BY FS_EmptySet DEF Range, GroupsOf
<1>4. /\ NumRollout \in Nat /\ NumRollout >= 1 /\ Interval \in Nat \ {0}
  BY DriverAssumption
<1>5. Core
  BY <1>1, InitIInv, IInvIsSound
<1>6. BoundedLag
  BY <1>1, <1>3 DEF BoundedLag
<1>7. Loaded = {} /\ Arriving = <<>>
  BY <1>1, <1>2, <1>3 DEF Loaded, Arriving
<1>8. Received = 0 /\ TrainedOn = 0
  BY <1>1, <1>4 DEF Received, TrainedOn
<1>9. DriverInStep
  <2>1. 0 % Interval \in 0..(Interval - 1)
    BY <1>4, NextOfInterval
  <2>2. 0 - 0 <= 0 % Interval /\ 0 \in 0..NumRollout /\ 0 # NumRollout /\ 1 # 0 + 2 /\ 1 <= NumRollout /\ 1 = 0 + 1
    BY <1>4, <2>1
  <2> QED
    BY <1>1, <1>2, <1>8, <2>2 DEF DriverInStep
<1>10. BatchOnItsWay
  BY <1>1, <1>2, <1>3, <1>7 DEF BatchOnItsWay, WithinLag, SnapshotsOK
<1>11. EveryGroupPlaced
  <2>1. AllPlaced(0, <<>>, <<>>, <<>>, <<>>, {}, {})
    <3>1. 1..0 = {}
      OBVIOUS
    <3>2. 1..0 = Places(<<>>, <<>>, <<>>, <<>>, {}, {})
      BY <1>3, <3>1 DEF Places
    <3>3. 0 = Total(<<>>, <<>>, <<>>, <<>>, {}, {})
      BY <1>3 DEF Total
    <3> QED
      BY <3>2, <3>3 DEF AllPlaced
  <2>2. Placed({})
    BY <1>2, <1>7, <2>1 DEF Placed
  <2>3. trained \cup GroupsOf(current) = {} /\ Cardinality(trained) + Len(current) = 0
    BY <1>1, <1>2, <1>3
  <2> QED
    BY <1>3, <2>2, <2>3 DEF EveryGroupPlaced
<1>12. DiskOK
  <2>1. ModelOK(NoModel) /\ NoModel.attempt = 0 /\ NoModel.start = 0
    BY <1>4 DEF ModelOK, NoModel
  <2>2. 0 \in 0..crashes /\ crashes \in Nat
    BY <1>1
  <2>3. ASSUME NEW m \in {model, pending}
        PROVE  /\ ModelOK(m) /\ m.attempt \in 0..crashes /\ ~(m.start > 0) /\ AgreesWith(m, ckpt)
    <3>1. m = NoModel
      BY <1>1
    <3>2. m.attempt = 0 /\ m.start = 0 /\ ModelOK(m)
      BY <2>1, <3>1
    <3> QED
      BY <2>2, <3>2 DEF AgreesWith
  <2>4. DOMAIN ckpt = {} /\ mixed \in BOOLEAN
    BY <1>1, <1>3
  <2> QED
    BY <2>2, <2>3, <2>4 DEF DiskOK
<1> QED
  BY <1>5, <1>6, <1>9, <1>10, <1>11, <1>12 DEF TrainIInv

\* Every step of the training loop keeps the invariant.
LEMMA StepTrainIInv == ASSUME TrainIInv, [TrainNext]_trainVars PROVE TrainIInv'
<1>1. CASE RolloutStep
  BY <1>1, RolloutStepKeepsTraining
<1>2. CASE ExecutorGet \/ ExecutorGetReturns
  BY <1>2, GetKeeps
<1>3. CASE ExecutorReplay
  BY <1>3, ReplayKeeps
<1>4. CASE AwaitBatch
  BY <1>4, AwaitKeeps
<1>5. CASE Train
  BY <1>5, TrainKeeps
<1>6. CASE SkipSave
  BY <1>6, SkipSaveKeeps
<1>7. CASE SaveModel
  BY <1>7, SaveModelKeeps
<1>8. CASE ReplaceOldCheckpoint
  BY <1>8, ReplaceKeeps
<1>9. CASE SaveRollout
  BY <1>9, SaveRolloutKeeps
<1>10. CASE UpdateWeights
  BY <1>10, UpdateKeeps
<1>11. CASE \E m \in {model, Published} : CrashAndRestart(m) \/ CrashAndFail(m)
  <2>1. PICK m \in {model, Published} : CrashAndRestart(m) \/ CrashAndFail(m)
    BY <1>11
  <2>2. m \in {model, pending}
    BY <2>1 DEF Published
  <2> QED
    BY <2>1, <2>2, RestartKeeps, FailKeeps
<1>12. CASE UNCHANGED trainVars
  <2>1. UNCHANGED <<vars, driver, rolloutId, asked, begun, current, steps, snapshots, pending, model, ckpt, crashes, mixed>>
    BY <1>12 DEF trainVars, driverVars, diskVars
  <2>2. UNCHANGED <<producer, retryBuffer, buffer, resumed, admissionChanged, getPending, taken,
                    trained, dropped, version, drawn, running, worker>>
    BY <2>1 DEF vars, producer
  <2>3. Core' /\ BoundedLag'
    BY <2>1, <2>2, CoreKept DEF TrainIInv, Core, TypeOK, OneBatch, BoundedLag
  <2>4. Loaded' = Loaded /\ Arriving' = Arriving /\ Received' = Received /\ TrainedOn' = TrainedOn
    BY <2>1, <2>2 DEF Loaded, Arriving, Received, TrainedOn
  <2>5. DriverInStep => DriverInStep'
    BY <2>1, <2>2, <2>4 DEF DriverInStep, UpdateDue, HasNext
  <2>6. BatchOnItsWay => BatchOnItsWay'
    BY <2>1, <2>2, <2>4 DEF BatchOnItsWay
  <2>7. EveryGroupPlaced => EveryGroupPlaced'
    BY <2>1, <2>2, <2>4, PlacesUntouched DEF EveryGroupPlaced
  <2>8. (DiskOK /\ DriverInStep) => DiskOK'
    BY <2>1, <2>2, DiskKept, DriverIs DEF diskVars
  <2> QED
    BY <2>1, <2>3, <2>5, <2>6, <2>7, <2>8 DEF TrainIInv
<1> QED
  BY <1>1, <1>2, <1>3, <1>4, <1>5, <1>6, <1>7, <1>8, <1>9, <1>10, <1>11, <1>12 DEF TrainNext

\* All that the training loop's safety rests on, in memory and on disk, holds in every
\* state of it, however often it crashes and is resumed.
THEOREM TrainInvariant == TrainSpec => []TrainIInv
<1>1. TrainInit => TrainIInv
  BY InitTrainIInv
<1>2. TrainIInv /\ [TrainNext]_trainVars => TrainIInv'
  BY StepTrainIInv
<1> QED
  BY <1>1, <1>2, PTL DEF TrainSpec

\* Groups restored for replay are those of the batch that is on its way.
LEMMA InvariantPlaces == ASSUME TrainIInv PROVE NothingLostOrRepeated
<1> SUFFICES ASSUME driver # "failed", ~mixed
             PROVE  /\ 1..drawn = Range(retryBuffer) \cup GroupsOf(running) \cup GroupsOf(buffer)
                                    \cup GroupsOf(taken) \cup GroupsOf(current) \cup LoadedGroups
                                    \cup trained \cup dropped
                    /\ drawn = Len(retryBuffer) + Len(running) + Len(buffer) + Len(taken) + Len(current)
                                 + Cardinality(LoadedGroups) + Cardinality(trained) + Cardinality(dropped)
  BY DEF NothingLostOrRepeated
<1>1. Core /\ BatchOnItsWay /\ EveryGroupPlaced
  BY DEF TrainIInv
<1> DEFINE old == trained \cup GroupsOf(current)
<1>2. /\ AllPlaced(drawn, retryBuffer, running, buffer, Arriving, old, dropped)
      /\ Cardinality(old) = Cardinality(trained) + Len(current)
  BY <1>1 DEF EveryGroupPlaced, Placed
<1>3. /\ drawn \in Nat /\ retryBuffer \in Seq(Groups) /\ running \in Seq(Tasks) /\ buffer \in Seq(Entries)
      /\ taken \in Seq(Entries) /\ trained \in SUBSET Groups /\ dropped \in SUBSET Groups
      /\ current \in Seq(Entries)
  BY <1>1, SizesAssumption DEF Core, TypeOK, BatchOnItsWay
<1>4. old \in SUBSET Groups
  <2>1. DOMAIN current = 1..Len(current)
    BY <1>3, LenProperties
  <2>2. \A i \in DOMAIN current : current[i] \in Entries
    BY <1>3, <2>1, ElementOfSeq
  <2> QED
    BY <1>3, <2>2 DEF GroupsOf, Entries
<1>5. /\ GroupsOf(Arriving) = GroupsOf(taken) \cup LoadedGroups
      /\ Len(Arriving) = Len(taken) + Cardinality(LoadedGroups)
  <2>1. CASE Loaded = {}
    <3>1. LoadedGroups = {} /\ Arriving = taken /\ Cardinality(LoadedGroups) = 0
      BY <2>1, FS_EmptySet DEF LoadedGroups, Arriving
    <3>2. Len(taken) \in Nat
      BY <1>3, LenProperties
    <3>3. Len(taken) + Cardinality(LoadedGroups) = Len(taken)
      BY <3>1, <3>2
    <3> QED
      BY <3>1, <3>3
  <2>2. CASE Loaded # {}
    <3>1. taken = <<>> /\ Loaded = {1} /\ Len(snapshots) = 1 /\ SnapshotsOK(snapshots)
      BY <1>1, <2>2 DEF BatchOnItsWay
    <3>2. 1 \in DOMAIN snapshots /\ snapshots[1].batch \in Seq(Entries)
      BY <3>1, SnapshotIs
    <3>3. snapshots # <<>>
      BY <3>2
    <3> DEFINE b == snapshots[1].batch
    <3>4. Arriving = b /\ LoadedGroups = GroupsOf(b)
      BY <2>2, <3>1, <3>3 DEF Arriving, FirstBatch, LoadedGroups
    <3>5. b \in Seq(Entries) /\ AllPlaced(drawn, retryBuffer, running, buffer, b, old, dropped)
      BY <1>2, <3>2, <3>4
    <3> HIDE DEF b, old
    <3>6. Cardinality(GroupsOf(b)) = Len(b)
      BY <1>3, <1>4, <3>5, BatchTrained
    <3>7. Len(b) \in Nat /\ Len(taken) = 0 /\ GroupsOf(taken) = {}
      BY <3>1, <3>5, LenProperties DEF GroupsOf
    <3>8. GroupsOf(Arriving) = GroupsOf(taken) \cup LoadedGroups
      BY <3>4, <3>7
    <3> DEFINE k == Len(b)
    <3>9. k \in Nat
      BY <3>7
    <3> HIDE DEF k
    <3>10. k = 0 + k
      BY <3>9
    <3> QED
      BY <3>4, <3>6, <3>7, <3>8, <3>10 DEF k
  <2> QED
    BY <2>1, <2>2
<1>6. 1..drawn = Range(retryBuffer) \cup GroupsOf(running) \cup GroupsOf(buffer)
                   \cup GroupsOf(taken) \cup GroupsOf(current) \cup LoadedGroups \cup trained \cup dropped
  BY <1>2, <1>5 DEF AllPlaced, Places
<1>7. drawn = Len(retryBuffer) + Len(running) + Len(buffer) + Len(taken) + Len(current)
                + Cardinality(LoadedGroups) + Cardinality(trained) + Cardinality(dropped)
  <2>1. drawn = Len(retryBuffer) + Len(running) + Len(buffer) + (Len(taken) + Cardinality(LoadedGroups))
                  + (Cardinality(trained) + Len(current)) + Cardinality(dropped)
    BY <1>2, <1>5 DEF AllPlaced, Total
  <2>2. LoadedGroups \in SUBSET Groups
    <3>1. SnapshotsOK(snapshots)
      BY <1>1 DEF BatchOnItsWay
    <3>2. ASSUME NEW i \in DOMAIN snapshots PROVE GroupsOf(snapshots[i].batch) \in SUBSET Groups
      <4>1. snapshots[i].batch \in Seq(Entries)
        BY <3>1, SnapshotIs
      <4> DEFINE b == snapshots[i].batch
      <4>2. b \in Seq(Entries)
        BY <4>1
      <4> HIDE DEF b
      <4>3. DOMAIN b = 1..Len(b) /\ \A j \in DOMAIN b : b[j] \in Entries
        BY <4>2, LenProperties, ElementOfSeq
      <4>4. GroupsOf(b) \in SUBSET Groups
        BY <4>3 DEF GroupsOf, Entries
      <4> QED
        BY <4>4 DEF b
    <3> QED
      BY <3>2 DEF LoadedGroups, Loaded
  <2> DEFINE a == Len(retryBuffer)
             u == Len(running)
             f == Len(buffer)
             t == Len(taken)
             l == Cardinality(LoadedGroups)
             o == Cardinality(trained)
             c == Len(current)
             g == Cardinality(dropped)
  <2>3. a \in Nat /\ u \in Nat /\ f \in Nat /\ t \in Nat /\ l \in Nat /\ o \in Nat /\ c \in Nat /\ g \in Nat
    BY <1>3, <2>2, LenProperties, GroupsAreFinite
  <2>4. drawn = a + u + f + (t + l) + (o + c) + g
    BY <2>1
  <2> HIDE DEF a, u, f, t, l, o, c, g
  <2>5. a + u + f + (t + l) + (o + c) + g = a + u + f + t + c + l + o + g
    BY <2>3
  <2>6. drawn = a + u + f + t + c + l + o + g
    BY <2>4, <2>5
  <2> QED
    BY <2>6 DEF a, u, f, t, l, o, c, g
<1> QED
  BY <1>6, <1>7

\* Whatever crashes, restarts and replays happen, every prompt group drawn is waiting in
\* one place, trained into the current model once, or dropped.
THEOREM NothingIsLostOrRepeated == TrainSpec => []NothingLostOrRepeated
<1>1. TrainIInv => NothingLostOrRepeated
  BY InvariantPlaces
<1> QED
  BY <1>1, TrainInvariant, PTL

\* No batch, replayed or not, is trained further from its oldest token than the staleness
\* limit and the steps of one update interval.
THEOREM LagIsBounded == TrainSpec => []BoundedLag
<1>1. TrainIInv => BoundedLag
  BY DEF TrainIInv
<1> QED
  BY <1>1, TrainInvariant, PTL

=============================================================================
