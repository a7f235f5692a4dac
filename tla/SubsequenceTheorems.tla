------------------------- MODULE SubsequenceTheorems -------------------------
(***************************************************************************)
(* What a subsequence has of its sequence, for sequences of every length.  *)
(* That the positions can be put in ascending order rests on counting: the *)
(* positions up to one are fewer than those up to a later one.             *)
(***************************************************************************)
EXTENDS Subsequences, Integers, FiniteSetTheorems, FunctionTheorems, SequenceTheorems, TLAPS

Distinct(q) == \A j, k \in 1 .. Len(q) : q[j] = q[k] => j = k

Increasing(q) == \A j, k \in DOMAIN q : j < k => q[j] < q[k]

LEMMA IntervalCard ==
    ASSUME NEW n \in Nat
    PROVE  IsFiniteSet(1 .. n) /\ Cardinality(1 .. n) = n
  <1>1. Cardinality(1 .. n) = IF 1 > n THEN 0 ELSE n - 1 + 1
    BY FS_Interval
  <1>2. IsFiniteSet(1 .. n)
    BY FS_Interval
  <1>. QED
    BY <1>1, <1>2

\* The positions can be put in ascending order.
LEMMA AscendingExists ==
    ASSUME NEW I, IsFiniteSet(I), I \subseteq Int
    PROVE  \E q \in [1 .. Cardinality(I) -> I] : Increasing(q)
  <1>. DEFINE UpTo(i) == {j \in I : j <= i}
              R == [i \in I |-> Cardinality(UpTo(i))]
              c == Cardinality(I)
  <1>0. \A i \in I : i \in Int
    OBVIOUS
  <1>1. IsFiniteSet(I) /\ c \in Nat
    BY FS_CardinalityType
  <1>2. \A i \in I : IsFiniteSet(UpTo(i)) /\ Cardinality(UpTo(i)) \in Nat /\ Cardinality(UpTo(i)) <= c
    BY <1>1, FS_Subset, FS_CardinalityType
  <1>3. ASSUME NEW i \in I, NEW j \in I, i < j
        PROVE  R[i] < R[j]
    <2>1. j \notin UpTo(i)
      BY <1>0, <1>3
    <2>2. Cardinality(UpTo(i) \cup {j}) = Cardinality(UpTo(i)) + 1
      BY <1>2, <2>1, FS_AddElement
    <2>3. UpTo(i) \cup {j} \subseteq UpTo(j)
      <3>1. i \in Int /\ j \in Int
        BY <1>0
      <3>2. \A k \in I : k <= i => k <= j
        BY <1>0, <1>3, <3>1
      <3>3. j <= j
        BY <3>1
      <3>4. \A k \in UpTo(i) : k \in I /\ k <= j
        BY <3>2
      <3>5. \A k \in UpTo(i) \cup {j} : k \in I /\ k <= j
        BY <3>3, <3>4
      <3>. QED
        BY <3>5
    <2>4. Cardinality(UpTo(i) \cup {j}) <= Cardinality(UpTo(j))
      BY <1>2, <2>3, FS_Subset
    <2>. QED
      BY <1>2, <2>2, <2>4
  <1>4. \A i \in I : R[i] \in 1 .. c
    <2>1. ASSUME NEW i \in I
          PROVE  Cardinality(UpTo(i)) # 0
      <3>1. i \in UpTo(i)
        BY <1>0
      <3>. QED
        BY <1>2, <3>1, FS_EmptySet
    <2>. QED
      BY <1>1, <1>2, <2>1
  <1>. HIDE DEF R
  <1>5. R \in [I -> 1 .. c]
    BY <1>4 DEF R
  <1>6. R \in Injection(I, 1 .. c)
    BY <1>3, <1>4, <1>5 DEF Injection, IsInjective
  <1>7. R \in Surjection(I, 1 .. c)
    BY <1>1, <1>6, IntervalCard, FS_Injection
  <1>8. \A k \in 1 .. c : \E i \in I : R[i] = k
    BY <1>7 DEF Surjection
  <1>. DEFINE q == [k \in 1 .. c |-> CHOOSE i \in I : R[i] = k]
  <1>9. \A k \in 1 .. c : q[k] \in I /\ R[q[k]] = k
    BY <1>8
  <1>10. q \in [1 .. c -> I]
    BY <1>9
  <1>. HIDE DEF q
  <1>11. ASSUME NEW j \in 1 .. c, NEW k \in 1 .. c, j < k
         PROVE  q[j] < q[k]
    <2>1. /\ q[j] \in I /\ q[k] \in I /\ R[q[j]] = j /\ R[q[k]] = k
          /\ j \in Int /\ k \in Int
      BY <1>9
    <2>4. q[j] \in Int /\ q[k] \in Int
      BY <1>0, <2>1
    <2>2. CASE q[k] < q[j]
      <3>1. R[q[k]] < R[q[j]]
        BY <1>3, <2>1, <2>2
      <3>. QED
        BY <1>11, <2>1, <3>1
    <2>3. CASE q[k] = q[j]
      BY <1>11, <2>1, <2>3
    <2>. QED
      BY <2>1, <2>2, <2>3, <2>4
  <1>. QED
    BY <1>10, <1>11 DEF Increasing

\* What the ascending order of some numbers is.
LEMMA AscendingOf ==
    ASSUME NEW I, IsFiniteSet(I), I \subseteq Int
    PROVE  /\ Cardinality(I) \in Nat
           /\ I # {} => Cardinality(I) > 0
           /\ Ascending(I) \in [1 .. Cardinality(I) -> I]
           /\ Increasing(Ascending(I))
           /\ \A i \in I : \E k \in 1 .. Cardinality(I) : Ascending(I)[k] = i
  <1>. DEFINE q == Ascending(I)
              c == Cardinality(I)
  <1>1. c \in Nat /\ (I # {} => c > 0)
    BY FS_CardinalityType, FS_EmptySet
  <1>2. q \in [1 .. c -> I] /\ Increasing(q)
    BY AscendingExists DEF Ascending, Increasing
  <1>. HIDE DEF q
  <1>3. q \in Injection(1 .. c, I)
    <2>1. ASSUME NEW j \in 1 .. c, NEW k \in 1 .. c, j < k
          PROVE  q[j] # q[k]
      <3>0. q[j] \in I /\ q[k] \in I /\ DOMAIN q = 1 .. c
        BY <1>2
      <3>1. q[j] < q[k]
        BY <1>2, <2>1, <3>0 DEF Increasing
      <3>2. \A x, y \in I : x < y => x # y
        OBVIOUS
      <3>. QED
        BY <3>0, <3>1, <3>2
    <2>2. \A j, k \in 1 .. c : q[j] = q[k] => j = k
      BY <1>1, <2>1
    <2>. QED
      BY <1>2, <2>2 DEF Injection, IsInjective
  <1>4. q \in Surjection(1 .. c, I)
    BY <1>1, <1>3, IntervalCard, FS_Injection
  <1>5. \A i \in I : \E k \in 1 .. c : q[k] = i
    BY <1>4 DEF Surjection
  <1>. QED
    BY <1>1, <1>2, <1>5 DEF q

LEMMA AscendingFacts ==
    ASSUME NEW n \in Nat, NEW I \in SUBSET (1 .. n)
    PROVE  /\ Cardinality(I) \in Nat
           /\ I # {} => Cardinality(I) > 0
           /\ Ascending(I) \in [1 .. Cardinality(I) -> I]
           /\ Increasing(Ascending(I))
           /\ \A i \in I : \E k \in 1 .. Cardinality(I) : Ascending(I)[k] = i
  <1>1. IsFiniteSet(I)
    BY IntervalCard, FS_Subset
  <1>2. I \subseteq Int
    OBVIOUS
  <1>. QED
    BY <1>1, <1>2, AscendingOf

\* A subsequence has the elements at its positions and no other, each once if
\* the sequence has it once.
LEMMA SubsequenceFacts ==
    ASSUME NEW S, NEW s \in Seq(S), NEW I \in SUBSET (1 .. Len(s))
    PROVE  /\ Subsequence(s, I) \in Seq(S)
           /\ I # {} => Subsequence(s, I) # <<>>
           /\ \A k \in 1 .. Len(Subsequence(s, I)) : \E i \in I : Subsequence(s, I)[k] = s[i]
           /\ \A i \in I : \E k \in 1 .. Len(Subsequence(s, I)) : Subsequence(s, I)[k] = s[i]
           /\ Distinct(s) => Distinct(Subsequence(s, I))
  <1>. DEFINE q == Ascending(I)
              c == Cardinality(I)
              r == Subsequence(s, I)
  <1>0. Len(s) \in Nat
    OBVIOUS
  <1>1. /\ c \in Nat /\ (I # {} => c > 0)
        /\ q \in [1 .. c -> I] /\ Increasing(q)
        /\ \A i \in I : \E k \in 1 .. c : q[k] = i
    BY <1>0, AscendingFacts
  <1>. HIDE DEF q, c
  <1>2. r = [k \in 1 .. c |-> s[q[k]]]
    <2>1. r = [k \in DOMAIN q |-> s[q[k]]]
      BY DEF Subsequence, q
    <2>2. DOMAIN q = 1 .. c
      BY <1>1
    <2>. HIDE DEF r
    <2>. QED
      BY <2>1, <2>2
  <1>. HIDE DEF r
  <1>3. \A k \in 1 .. c : q[k] \in I /\ q[k] \in 1 .. Len(s) /\ s[q[k]] \in S /\ r[k] = s[q[k]]
    <2>1. \A k \in 1 .. c : q[k] \in I /\ r[k] = s[q[k]]
      BY <1>1, <1>2
    <2>2. \A i \in I : i \in 1 .. Len(s) /\ s[i] \in S
      OBVIOUS
    <2>. QED
      BY <2>1, <2>2
  <1>4. r \in Seq(S) /\ Len(r) = c
    BY <1>1, <1>2, <1>3
  <1>5. ASSUME Distinct(s), NEW j \in 1 .. Len(r), NEW k \in 1 .. Len(r), r[j] = r[k]
        PROVE  j = k
    <2>1. j \in 1 .. c /\ k \in 1 .. c
      BY <1>4, <1>5
    <2>2. q[j] \in 1 .. Len(s) /\ q[k] \in 1 .. Len(s) /\ s[q[j]] = s[q[k]]
      BY <1>3, <1>5, <2>1
    <2>3. q[j] = q[k]
      BY <1>5, <2>2 DEF Distinct
    <2>4. j \in DOMAIN q /\ k \in DOMAIN q /\ q[j] \in Int /\ j \in Int /\ k \in Int
      BY <1>1, <2>1, <2>2
    <2>5. ~(j < k) /\ ~(k < j)
      <3>1. j < k => q[j] < q[k]
        BY <1>1, <2>4 DEF Increasing
      <3>2. k < j => q[k] < q[j]
        BY <1>1, <2>4 DEF Increasing
      <3>. QED
        BY <2>3, <2>4, <3>1, <3>2
    <2>. QED
      BY <2>4, <2>5
  <1>5a. Distinct(s) => Distinct(r)
    BY <1>5 DEF Distinct
  <1>6. I # {} => r # <<>>
    BY <1>1, <1>4
  <1>7. \A k \in 1 .. Len(r) : \E i \in I : r[k] = s[i]
    BY <1>3, <1>4
  <1>8. \A i \in I : \E k \in 1 .. Len(r) : r[k] = s[i]
    BY <1>1, <1>3, <1>4
  <1>. QED
    BY <1>4, <1>5a, <1>6, <1>7, <1>8 DEF r

\* One of the positions is the last.
LEMMA LastExists ==
    ASSUME NEW n \in Nat, NEW I \in SUBSET (1 .. n), I # {}
    PROVE  \E m \in I : \A i \in I : i <= m
  <1>. DEFINE q == Ascending(I)
              c == Cardinality(I)
  <1>1. /\ c \in Nat /\ c > 0 /\ q \in [1 .. c -> I] /\ Increasing(q)
        /\ \A i \in I : \E k \in 1 .. c : q[k] = i
    BY AscendingFacts
  <1>. HIDE DEF q, c
  <1>2. c \in 1 .. c /\ q[c] \in I
    BY <1>1
  <1>3. ASSUME NEW i \in I
        PROVE  i <= q[c]
    <2>1. PICK k \in 1 .. c : q[k] = i
      BY <1>1
    <2>2. i \in Int /\ q[c] \in Int
      <3>1. I \subseteq Int
        OBVIOUS
      <3>. QED
        BY <1>2, <3>1
    <2>3. k = c \/ k < c
      BY <1>1
    <2>4. k < c => q[k] < q[c]
      BY <1>1, <1>2 DEF Increasing
    <2>. QED
      BY <2>1, <2>2, <2>3, <2>4
  <1>. QED
    BY <1>2, <1>3

\* One of the positions is the first.
LEMMA FirstExists ==
    ASSUME NEW n \in Nat, NEW I \in SUBSET (1 .. n), I # {}
    PROVE  \E m \in I : \A i \in I : m <= i
  <1>. DEFINE q == Ascending(I)
              c == Cardinality(I)
  <1>1. /\ c \in Nat /\ c > 0 /\ q \in [1 .. c -> I] /\ Increasing(q)
        /\ \A i \in I : \E k \in 1 .. c : q[k] = i
    BY AscendingFacts
  <1>. HIDE DEF q, c
  <1>2. 1 \in 1 .. c /\ q[1] \in I
    BY <1>1
  <1>3. ASSUME NEW i \in I
        PROVE  q[1] <= i
    <2>1. PICK k \in 1 .. c : q[k] = i
      BY <1>1
    <2>2. i \in Int /\ q[1] \in Int
      <3>1. I \subseteq Int
        OBVIOUS
      <3>. QED
        BY <1>2, <3>1
    <2>3. k = 1 \/ 1 < k
      BY <1>1
    <2>4. 1 < k => q[1] < q[k]
      BY <1>1, <1>2 DEF Increasing
    <2>. QED
      BY <2>1, <2>2, <2>3, <2>4
  <1>. QED
    BY <1>2, <1>3

\* Induction over the numbers up to n, for a set.
LEMMA IntervalInduction ==
    ASSUME NEW n \in Nat, NEW S,
           0 \in S,
           \A k \in 0 .. n - 1 : k \in S => k + 1 \in S
    PROVE  \A k \in 0 .. n : k \in S
  <1>. DEFINE Out == {k \in 1 .. n : k \notin S}
  <1>. SUFFICES ASSUME Out # {}
                PROVE  FALSE
    OBVIOUS
  <1>1. PICK m \in Out : \A i \in Out : m <= i
    BY FirstExists
  <1>2. m \in 1 .. n /\ m \notin S /\ m - 1 \in 0 .. n - 1 /\ m - 1 \notin Out
    BY <1>1
  <1>3. m - 1 \in S
    BY <1>2
  <1>4. (m - 1) + 1 \in S
    BY <1>2, <1>3
  <1>. QED
    BY <1>2, <1>4

\* All the positions in order are 1, 2, ...
LEMMA AscendingAll ==
    ASSUME NEW n \in Nat
    PROVE  Ascending(1 .. n) = [k \in 1 .. n |-> k]
  <1>. DEFINE q == Ascending(1 .. n)
              S == {k \in 0 .. n : \A j \in 1 .. k : q[j] = j}
  <1>1. /\ q \in [1 .. n -> 1 .. n] /\ Increasing(q)
        /\ \A i \in 1 .. n : \E k \in 1 .. n : q[k] = i
    BY AscendingFacts, IntervalCard
  <1>. HIDE DEF q
  <1>2. 0 \in S
    OBVIOUS
  <1>3. ASSUME NEW k \in 0 .. n - 1, k \in S
        PROVE  k + 1 \in S
    <2>1. k + 1 \in 1 .. n /\ q[k + 1] \in 1 .. n /\ \A j \in 1 .. k : q[j] = j
      BY <1>1, <1>3
    <2>2. q[k + 1] >= k + 1
      <3>1. CASE k = 0
        BY <2>1, <3>1
      <3>2. CASE k > 0
        <4>1. k \in 1 .. n /\ k < k + 1 /\ q[k] = k
          BY <2>1, <3>2
        <4>2. q[k] < q[k + 1]
          BY <1>1, <2>1, <4>1 DEF Increasing
        <4>. QED
          BY <2>1, <4>1, <4>2
      <3>. QED
        BY <3>1, <3>2
    <2>3. PICK j \in 1 .. n : q[j] = k + 1
      BY <1>1, <2>1
    <2>4. ~(j <= k)
      BY <2>1, <2>3
    <2>5. ~(k + 1 < j)
      <3>1. k + 1 < j => q[k + 1] < q[j]
        BY <1>1, <2>1 DEF Increasing
      <3>. QED
        BY <2>1, <2>2, <2>3, <3>1
    <2>6. j = k + 1
      BY <2>1, <2>4, <2>5
    <2>7. \A i \in 1 .. k + 1 : i \in 1 .. k \/ i = k + 1
      OBVIOUS
    <2>. QED
      BY <2>1, <2>3, <2>6, <2>7
  <1>4. n \in S
    <2>. HIDE DEF S
    <2>1. \A k \in 0 .. n : k \in S
      BY <1>2, <1>3, IntervalInduction
    <2>. QED
      BY <2>1
  <1>. QED
    BY <1>1, <1>4 DEF q

\* To keep all of a sequence is to keep it as it is.
LEMMA SubsequenceAll ==
    ASSUME NEW S, NEW s \in Seq(S)
    PROVE  Subsequence(s, 1 .. Len(s)) = s
  <1>. DEFINE n == Len(s)
              q == Ascending(1 .. n)
  <1>1. n \in Nat /\ s \in [1 .. n -> S]
    OBVIOUS
  <1>2. Subsequence(s, 1 .. n) = [k \in DOMAIN q |-> s[q[k]]]
    BY DEF Subsequence
  <1>3. q = [k \in 1 .. n |-> k]
    BY <1>1, AscendingAll
  <1>4. DOMAIN q = 1 .. n /\ \A k \in 1 .. n : q[k] = k
    BY <1>3
  <1>. HIDE DEF q, n
  <1>5. [k \in DOMAIN q |-> s[q[k]]] = [k \in 1 .. n |-> s[k]]
    BY <1>4
  <1>6. s = [k \in 1 .. n |-> s[k]]
    BY <1>1
  <1>. QED
    BY <1>2, <1>5, <1>6 DEF n
=============================================================================
