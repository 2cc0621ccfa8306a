------------------------ MODULE ConversationsProofs ------------------------
(***************************************************************************)
(* What the transcript merge of Conversations guarantees for any texts,    *)
(* runs, copies, times and bounds, events that share a signature or a time *)
(* included.                                                               *)
(***************************************************************************)
EXTENDS Conversations, FiniteSetTheorems, SequenceTheorems, TLAPS

----------------------------------------------------------------------------
(* Arranging a sequence.  No induction is needed: the ranks of the         *)
(* positions are an injection into as many numbers, hence onto them.       *)

(* upto gives a linear order of its domain, by its lower sets.             *)
Linear(upto) ==
  /\ \A i \in DOMAIN upto : i \in upto[i] /\ upto[i] \in SUBSET (DOMAIN upto)
  /\ \A i, j \in DOMAIN upto : i \in upto[j] => upto[i] \in SUBSET upto[j]
  /\ \A i, j \in DOMAIN upto : i \in upto[j] \/ j \in upto[i]
  /\ \A i, j \in DOMAIN upto : i \in upto[j] /\ j \in upto[i] => i = j

(* p lists the domain of upto in its order.                                *)
Lists(p, n, upto) ==
  /\ n \in Nat
  /\ p \in [1 .. n -> DOMAIN upto]
  /\ \A i \in DOMAIN upto : \E k \in 1 .. n : p[k] = i
  /\ \A k, m \in 1 .. n : k < m => p[k] # p[m] /\ p[k] \in upto[p[m]]

LEMMA RankGrows ==
  ASSUME NEW upto, IsFiniteSet(DOMAIN upto), Linear(upto)
  PROVE  /\ \A i \in DOMAIN upto : Cardinality(upto[i]) \in 1 .. Cardinality(DOMAIN upto)
         /\ \A i, j \in DOMAIN upto :
              i # j /\ i \in upto[j] => Cardinality(upto[i]) < Cardinality(upto[j])
<1>1. ASSUME NEW i \in DOMAIN upto
      PROVE  IsFiniteSet(upto[i]) /\ Cardinality(upto[i]) \in 1 .. Cardinality(DOMAIN upto)
  <2>1. i \in upto[i] /\ upto[i] \in SUBSET (DOMAIN upto)
    BY DEF Linear
  <2>2. IsFiniteSet(upto[i]) /\ Cardinality(upto[i]) <= Cardinality(DOMAIN upto)
    BY <2>1, FS_Subset
  <2>3. Cardinality(upto[i]) \in Nat /\ Cardinality(DOMAIN upto) \in Nat
    BY <2>2, FS_CardinalityType
  <2>4. Cardinality(upto[i]) # 0
    BY <2>1, <2>2, FS_EmptySet
  <2>5. QED
    BY <2>2, <2>3, <2>4
<1>2. ASSUME NEW i \in DOMAIN upto, NEW j \in DOMAIN upto, i # j, i \in upto[j]
      PROVE  Cardinality(upto[i]) < Cardinality(upto[j])
  <2>1. upto[i] \in SUBSET upto[j]
    BY <1>2 DEF Linear
  <2>2. j \notin upto[i] /\ j \in upto[j]
    BY <1>2 DEF Linear
  <2>3. /\ Cardinality(upto[i]) <= Cardinality(upto[j])
        /\ Cardinality(upto[j]) # Cardinality(upto[i])
    BY <1>1, <2>1, <2>2, FS_Subset
  <2>4. Cardinality(upto[i]) \in Nat /\ Cardinality(upto[j]) \in Nat
    BY <1>1, FS_CardinalityType
  <2>5. QED
    BY <2>3, <2>4
<1>3. QED
  BY <1>1, <1>2

LEMMA ArrangedLists ==
  ASSUME NEW upto, IsFiniteSet(DOMAIN upto), Linear(upto), NEW s
  PROVE  \E p, n : Lists(p, n, upto) /\ Arranged(s, upto) = [k \in 1 .. n |-> s[p[k]]]
<1> DEFINE D == DOMAIN upto
           n == Cardinality(D)
           rank == [i \in D |-> Cardinality(upto[i])]
           p == [k \in 1 .. n |-> CHOOSE i \in D : Cardinality(upto[i]) = k]
<1>1. n \in Nat
  BY FS_CardinalityType
<1>2. IsFiniteSet(1 .. n) /\ Cardinality(1 .. n) = n
  BY <1>1, FS_Interval
<1>3. /\ \A i \in D : rank[i] \in 1 .. n
      /\ \A i, j \in D : i # j /\ i \in upto[j] => rank[i] < rank[j]
  BY RankGrows
<1>4. \A i, j \in D : i \in upto[j] \/ j \in upto[i]
  BY DEF Linear
<1>5. \A i, j \in D : rank[i] = rank[j] => i = j
  BY <1>1, <1>3, <1>4
<1>6. rank \in Injection(D, 1 .. n)
  BY <1>3, <1>5 DEF Injection, IsInjective
<1>7. rank \in Surjection(D, 1 .. n)
  BY <1>2, <1>6, FS_Injection
<1>8. \A k \in 1 .. n : \E i \in D : Cardinality(upto[i]) = k
  BY <1>7 DEF Surjection
<1>9. \A k \in 1 .. n : p[k] \in D /\ rank[p[k]] = k
  BY <1>8
<1>10. Arranged(s, upto) = [k \in 1 .. n |-> s[p[k]]]
  BY DEF Arranged
<1> HIDE DEF p, n, rank
<1>11. p \in [1 .. n -> D]
  BY <1>9 DEF p
<1>12. \A i \in D : \E k \in 1 .. n : p[k] = i
  <2> TAKE i \in D
  <2>1. rank[i] \in 1 .. n
    BY <1>3
  <2>2. p[rank[i]] \in D /\ rank[p[rank[i]]] = rank[i]
    BY <1>9, <2>1
  <2>3. QED
    BY <1>5, <2>1, <2>2
<1>13. ASSUME NEW k \in 1 .. n, NEW m \in 1 .. n, k < m
       PROVE  p[k] # p[m] /\ p[k] \in upto[p[m]]
  <2>1. p[k] \in D /\ p[m] \in D /\ rank[p[k]] = k /\ rank[p[m]] = m
    BY <1>9
  <2>2. p[k] # p[m]
    BY <1>1, <1>13, <2>1
  <2>3. p[m] \notin upto[p[k]]
    BY <1>1, <1>3, <1>13, <2>1, <2>2
  <2>4. QED
    BY <1>4, <2>1, <2>2, <2>3
<1>14. Lists(p, n, upto)
  BY <1>1, <1>11, <1>12, <1>13 DEF Lists
<1>15. QED
  BY <1>10, <1>14

(* t has the elements of s at the positions of I, in their order.          *)
Subsequence(t, s, I) ==
  /\ \A i \in I : \E k \in DOMAIN t : t[k] = s[i]
  /\ \A k \in DOMAIN t : \E i \in I : t[k] = s[i]
  /\ \A k, m \in DOMAIN t : k < m =>
       \E i, j \in I : i < j /\ t[k] = s[i] /\ t[m] = s[j]

LEMMA PositionsFinite ==
  ASSUME NEW S, NEW s \in Seq(S), NEW I \in SUBSET (DOMAIN s)
  PROVE  IsFiniteSet(I) /\ I \in SUBSET Nat
<1>1. DOMAIN s = 1 .. Len(s) /\ Len(s) \in Nat
  OBVIOUS
<1>2. IsFiniteSet(DOMAIN s)
  BY <1>1, FS_Interval
<1>3. QED
  BY <1>1, <1>2, FS_Subset

LEMMA Numbers ==
  ASSUME NEW I \in SUBSET Nat
  PROVE  Linear([i \in I |-> {j \in I : j <= i}])
<1> DEFINE upto == [i \in I |-> {j \in I : j <= i}]
<1>1. \A i \in I : i \in upto[i] /\ upto[i] \in SUBSET I
  OBVIOUS
<1>2. \A i, j \in I : i \in upto[j] <=> i <= j
  OBVIOUS
<1>3. \A i, j \in I : i \in upto[j] => upto[i] \in SUBSET upto[j]
  <2> TAKE i, j \in I
  <2> HAVE i \in upto[j]
  <2>1. \A k \in I : k <= i => k <= j
    BY <1>2
  <2>2. QED
    BY <2>1
<1>4. DOMAIN upto = I
  OBVIOUS
<1> HIDE DEF upto
<1>5. QED
  BY <1>1, <1>2, <1>3, <1>4 DEF Linear, upto

(* Pick keeps the elements at I and their order.                           *)
LEMMA PickKeeps ==
  ASSUME NEW S, NEW s \in Seq(S), NEW I \in SUBSET (DOMAIN s)
  PROVE  Pick(s, I) \in Seq(S) /\ Subsequence(Pick(s, I), s, I)
<1> DEFINE upto == [i \in I |-> {j \in I : j <= i}]
<1>1. IsFiniteSet(I) /\ I \in SUBSET Nat
  BY PositionsFinite
<1>2. DOMAIN upto = I /\ Linear(upto) /\ Pick(s, I) = Arranged(s, upto)
  BY <1>1, Numbers DEF Pick
<1>3. \A i, j \in I : i \in upto[j] => i <= j
  OBVIOUS
<1> HIDE DEF upto
<1>4. PICK p, n : Lists(p, n, upto) /\ Arranged(s, upto) = [k \in 1 .. n |-> s[p[k]]]
  BY <1>1, <1>2, ArrangedLists
<1> DEFINE t == [k \in 1 .. n |-> s[p[k]]]
<1>5. /\ n \in Nat /\ p \in [1 .. n -> I]
      /\ \A i \in I : \E k \in 1 .. n : p[k] = i
      /\ \A k, m \in 1 .. n : k < m => p[k] < p[m]
  <2>1. /\ n \in Nat /\ p \in [1 .. n -> I]
        /\ \A i \in I : \E k \in 1 .. n : p[k] = i
        /\ \A k, m \in 1 .. n : k < m => p[k] # p[m] /\ p[k] <= p[m]
    BY <1>2, <1>3, <1>4 DEF Lists
  <2>2. \A i, j \in I : i # j /\ i <= j => i < j
    BY <1>1
  <2>3. \A k \in 1 .. n : p[k] \in I
    BY <2>1
  <2>4. \A k, m \in 1 .. n : k < m => p[k] < p[m]
    BY <2>1, <2>2, <2>3
  <2>5. QED
    BY <2>1, <2>4
<1>6. t \in Seq(S)
  <2>1. \A i \in I : s[i] \in S
    OBVIOUS
  <2>2. \A k \in 1 .. n : p[k] \in I
    BY <1>5
  <2>3. t \in [1 .. n -> S]
    BY <2>1, <2>2
  <2>4. QED
    BY <1>5, <2>3
<1>7. Subsequence(t, s, I)
  BY <1>5 DEF Subsequence
<1>8. QED
  BY <1>2, <1>4, <1>6, <1>7

(* The largest of a nonempty set of positions.                             *)
LEMMA LargestPosition ==
  ASSUME NEW S, NEW s \in Seq(S), NEW I \in SUBSET (DOMAIN s), I # {}
  PROVE  \E i \in I : \A j \in I : j <= i
<1> DEFINE upto == [i \in I |-> {j \in I : j <= i}]
<1>1. IsFiniteSet(I) /\ I \in SUBSET Nat
  BY PositionsFinite
<1>2. DOMAIN upto = I /\ Linear(upto)
  BY <1>1, Numbers
<1>3. \A i, j \in I : i \in upto[j] => i <= j
  OBVIOUS
<1> HIDE DEF upto
<1>4. PICK p, n : Lists(p, n, upto)
  BY <1>1, <1>2, ArrangedLists
<1>5. /\ n \in Nat /\ p \in [1 .. n -> I]
      /\ \A i \in I : \E k \in 1 .. n : p[k] = i
      /\ \A k, m \in 1 .. n : k < m => p[k] <= p[m]
  BY <1>2, <1>3, <1>4 DEF Lists
<1>6. n \in 1 .. n
  BY <1>5
<1>7. p[n] \in I /\ \A j \in I : j <= p[n]
  BY <1>1, <1>5, <1>6
<1>8. QED
  BY <1>7

(* Sorted keeps every element and puts them in the order of their times.   *)
SortedBy(t, s) ==
  /\ \A i \in DOMAIN s : \E k \in DOMAIN t : t[k] = s[i]
  /\ \A k \in DOMAIN t : \E i \in DOMAIN s : t[k] = s[i]
  /\ \A k, m \in DOMAIN t : k < m =>
       \E i, j \in DOMAIN s :
         i # j /\ t[k] = s[i] /\ t[m] = s[j] /\ t[k].at <= t[m].at

LEMMA TimesLinear ==
  ASSUME NEW S, NEW s \in Seq(S), \A e \in S : e.at \in Nat, NEW owned
  PROVE  Linear([i \in DOMAIN s |-> {j \in DOMAIN s : Before(s, owned, j, i)}])
<1> DEFINE D == DOMAIN s
           upto == [i \in D |-> {j \in D : Before(s, owned, j, i)}]
<1>1. D \in SUBSET Nat /\ \A i \in D : s[i].at \in Nat
  OBVIOUS
<1>2. \A i, j \in D : i \in upto[j] <=> Before(s, owned, i, j)
  OBVIOUS
<1>3. DOMAIN upto = D /\ \A i \in D : upto[i] \in SUBSET D
  OBVIOUS
<1> HIDE DEF D, upto
<1>4. \A i \in D : Before(s, owned, i, i)
  BY <1>1 DEF Before
<1>5. \A i, j \in D : Before(s, owned, i, j) \/ Before(s, owned, j, i)
  BY <1>1 DEF Before
<1>6. \A i, j \in D : Before(s, owned, i, j) /\ Before(s, owned, j, i) => i = j
  BY <1>1 DEF Before
<1>7. \A i, j, k \in D :
        Before(s, owned, i, j) /\ Before(s, owned, j, k) => Before(s, owned, i, k)
  <2> TAKE i, j, k \in D
  <2> HAVE Before(s, owned, i, j) /\ Before(s, owned, j, k)
  <2>1. s[i].at <= s[j].at /\ s[j].at <= s[k].at
    BY <1>1 DEF Before
  <2>2. CASE s[i].at < s[k].at
    BY <2>2 DEF Before
  <2>3. CASE s[i].at = s[j].at /\ s[j].at = s[k].at
    <3>1. \/ signature(s[i]) \in owned /\ signature(s[j]) \notin owned
          \/ (signature(s[i]) \in owned <=> signature(s[j]) \in owned) /\ i <= j
      BY <1>1, <2>3 DEF Before
    <3>2. \/ signature(s[j]) \in owned /\ signature(s[k]) \notin owned
          \/ (signature(s[j]) \in owned <=> signature(s[k]) \in owned) /\ j <= k
      BY <1>1, <2>3 DEF Before
    <3>3. i <= j /\ j <= k => i <= k
      BY <1>1
    <3>4. QED
      BY <2>3, <3>1, <3>2, <3>3 DEF Before
  <2>4. QED
    BY <1>1, <2>1, <2>2, <2>3
<1>8. \A i, j \in D : i \in upto[j] => upto[i] \in SUBSET upto[j]
  BY <1>2, <1>3, <1>7
<1>9. Linear(upto)
  BY <1>2, <1>3, <1>4, <1>5, <1>6, <1>8 DEF Linear
<1>10. QED
  BY <1>9 DEF upto, D

LEMMA SortedSorts ==
  ASSUME NEW S, NEW s \in Seq(S), \A e \in S : e.at \in Nat, NEW owned
  PROVE  Sorted(s, owned) \in Seq(S) /\ SortedBy(Sorted(s, owned), s)
<1> DEFINE D == DOMAIN s
           upto == [i \in D |-> {j \in D : Before(s, owned, j, i)}]
<1>1. IsFiniteSet(D) /\ D \in SUBSET Nat
  BY PositionsFinite
<1>2. DOMAIN upto = D /\ Linear(upto) /\ Sorted(s, owned) = Arranged(s, upto)
  BY TimesLinear DEF Sorted
<1>3. \A i, j \in D : i \in upto[j] => s[i].at <= s[j].at
  BY DEF Before
<1> HIDE DEF upto
<1>4. PICK p, n : Lists(p, n, upto) /\ Arranged(s, upto) = [k \in 1 .. n |-> s[p[k]]]
  BY <1>1, <1>2, ArrangedLists
<1> DEFINE t == [k \in 1 .. n |-> s[p[k]]]
<1>5. /\ n \in Nat /\ p \in [1 .. n -> D]
      /\ \A i \in D : \E k \in 1 .. n : p[k] = i
      /\ \A k, m \in 1 .. n : k < m => p[k] # p[m] /\ s[p[k]].at <= s[p[m]].at
  <2>1. /\ n \in Nat /\ p \in [1 .. n -> D]
        /\ \A i \in D : \E k \in 1 .. n : p[k] = i
        /\ \A k, m \in 1 .. n : k < m => p[k] # p[m] /\ p[k] \in upto[p[m]]
    BY <1>2, <1>4 DEF Lists
  <2>2. \A k \in 1 .. n : p[k] \in D
    BY <2>1
  <2>3. \A k, m \in 1 .. n : k < m => s[p[k]].at <= s[p[m]].at
    BY <1>3, <2>1, <2>2
  <2>4. QED
    BY <2>1, <2>3
<1>6. t \in Seq(S)
  <2>1. \A i \in D : s[i] \in S
    OBVIOUS
  <2>2. \A k \in 1 .. n : p[k] \in D
    BY <1>5
  <2>3. t \in [1 .. n -> S]
    BY <2>1, <2>2
  <2>4. QED
    BY <1>5, <2>3
<1>7. SortedBy(t, s)
  BY <1>5 DEF SortedBy
<1>8. QED
  BY <1>2, <1>4, <1>6, <1>7

----------------------------------------------------------------------------
(* Counting, whatever the times and the texts are.                         *)

(* How many positions of s have an event of E.                             *)
CountIn(s, E) == Cardinality({i \in DOMAIN s : s[i] \in E})

LEMMA CountType ==
  ASSUME NEW S, NEW s \in Seq(S), NEW E
  PROVE  CountIn(s, E) \in Nat
<1>1. {i \in DOMAIN s : s[i] \in E} \in SUBSET (DOMAIN s)
  OBVIOUS
<1>2. QED
  BY <1>1, PositionsFinite, FS_CardinalityType DEF CountIn

LEMMA CountMonotone ==
  ASSUME NEW S, NEW s \in Seq(S), NEW E, NEW F,
         \A e \in S : e \in E => e \in F
  PROVE  CountIn(s, E) <= CountIn(s, F)
<1> DEFINE A == {i \in DOMAIN s : s[i] \in E}
           B == {i \in DOMAIN s : s[i] \in F}
<1>1. A \in SUBSET B /\ B \in SUBSET (DOMAIN s)
  OBVIOUS
<1> HIDE DEF A, B
<1>2. Cardinality(A) <= Cardinality(B)
  BY <1>1, PositionsFinite, FS_Subset
<1>3. QED
  BY <1>2 DEF CountIn, A, B

(* The events of one signature.                                            *)
OfSignature(S, sig) == {e \in S : signature(e) = sig}

LEMMA CountOfSignature ==
  ASSUME NEW S, NEW s \in Seq(S), NEW sig
  PROVE  Count(s, sig) = CountIn(s, OfSignature(S, sig)) /\ Count(s, sig) \in Nat
<1>1. \A i \in DOMAIN s : s[i] \in S
  OBVIOUS
<1>2. {i \in DOMAIN s : signature(s[i]) = sig}
        = {i \in DOMAIN s : s[i] \in OfSignature(S, sig)}
  BY <1>1 DEF OfSignature
<1>3. QED
  BY <1>2, CountType DEF Count, CountIn

(* What is arranged is counted where it was.                               *)
LEMMA ArrangedCounts ==
  ASSUME NEW upto, IsFiniteSet(DOMAIN upto), Linear(upto), NEW s, NEW E
  PROVE  CountIn(Arranged(s, upto), E) = Cardinality({i \in DOMAIN upto : s[i] \in E})
<1>1. PICK p, n : Lists(p, n, upto) /\ Arranged(s, upto) = [k \in 1 .. n |-> s[p[k]]]
  BY ArrangedLists
<1> DEFINE t == Arranged(s, upto)
           A == {k \in DOMAIN t : t[k] \in E}
           B == {i \in DOMAIN upto : s[i] \in E}
           f == [k \in A |-> p[k]]
<1>2. /\ n \in Nat /\ \A k \in 1 .. n : p[k] \in DOMAIN upto
      /\ \A i \in DOMAIN upto : \E k \in 1 .. n : p[k] = i
      /\ \A k, m \in 1 .. n : k < m => p[k] # p[m]
  BY <1>1 DEF Lists
<1>3. \A k, m \in 1 .. n : p[k] = p[m] => k = m
  BY <1>2
<1>4. DOMAIN t = 1 .. n /\ \A k \in 1 .. n : t[k] = s[p[k]]
  BY <1>1
<1> HIDE DEF t
<1>5. IsFiniteSet(B)
  BY FS_Subset
<1>6. \A k \in A : k \in 1 .. n /\ f[k] = p[k] /\ f[k] \in B
  BY <1>2, <1>4
<1>7. \A i \in B : \E k \in A : f[k] = i
  <2> TAKE i \in B
  <2>1. PICK k \in 1 .. n : p[k] = i
    BY <1>2
  <2>2. k \in A
    BY <1>4, <2>1
  <2>3. QED
    BY <2>1, <2>2
<1>8. \A k, m \in A : f[k] = f[m] => k = m
  BY <1>3, <1>6
<1>9. DOMAIN f = A
  OBVIOUS
<1> HIDE DEF A, B
<1>10. f \in [A -> B]
  BY <1>6
<1> HIDE DEF f
<1>11. f \in Injection(A, B) /\ f \in Surjection(A, B)
  BY <1>7, <1>8, <1>9, <1>10 DEF Injection, IsInjective, Surjection
<1>12. Cardinality(A) = Cardinality(B)
  BY <1>5, <1>11, FS_Injection
<1>13. QED
  BY <1>12 DEF CountIn, A, B, t

LEMMA PickCounts ==
  ASSUME NEW S, NEW s \in Seq(S), NEW I \in SUBSET (DOMAIN s), NEW E
  PROVE  CountIn(Pick(s, I), E) = Cardinality({i \in I : s[i] \in E})
<1> DEFINE upto == [i \in I |-> {j \in I : j <= i}]
<1>1. IsFiniteSet(I) /\ I \in SUBSET Nat
  BY PositionsFinite
<1>2. DOMAIN upto = I /\ Linear(upto) /\ Pick(s, I) = Arranged(s, upto)
  BY <1>1, Numbers DEF Pick
<1> HIDE DEF upto
<1>3. QED
  BY <1>1, <1>2, ArrangedCounts

(* Dropping positions drops only what stands there.                        *)
LEMMA PickBounds ==
  ASSUME NEW S, NEW s \in Seq(S), NEW I \in SUBSET (DOMAIN s), NEW E
  PROVE  /\ CountIn(Pick(s, I), E) <= CountIn(s, E)
         /\ (\A i \in DOMAIN s : s[i] \in E => i \in I)
              => CountIn(Pick(s, I), E) = CountIn(s, E)
         /\ (\A i \in I : s[i] \notin E) => CountIn(Pick(s, I), E) = 0
<1> DEFINE A == {i \in I : s[i] \in E}
           B == {i \in DOMAIN s : s[i] \in E}
<1>1. CountIn(Pick(s, I), E) = Cardinality(A)
  BY PickCounts
<1>2. CountIn(s, E) = Cardinality(B)
  BY DEF CountIn
<1>3. A \in SUBSET B /\ B \in SUBSET (DOMAIN s)
  OBVIOUS
<1>4. (\A i \in DOMAIN s : s[i] \in E => i \in I) => A = B
  OBVIOUS
<1>5. (\A i \in I : s[i] \notin E) => A = {}
  OBVIOUS
<1> HIDE DEF A, B
<1>6. Cardinality(A) <= Cardinality(B)
  BY <1>3, PositionsFinite, FS_Subset
<1>7. QED
  BY <1>1, <1>2, <1>4, <1>5, <1>6, FS_EmptySet

LEMMA SortedCounts ==
  ASSUME NEW S, NEW s \in Seq(S), \A e \in S : e.at \in Nat, NEW owned, NEW E
  PROVE  CountIn(Sorted(s, owned), E) = CountIn(s, E)
<1> DEFINE upto == [i \in DOMAIN s |-> {j \in DOMAIN s : Before(s, owned, j, i)}]
<1>1. IsFiniteSet(DOMAIN s)
  BY PositionsFinite
<1>2. DOMAIN upto = DOMAIN s /\ Linear(upto) /\ Sorted(s, owned) = Arranged(s, upto)
  BY TimesLinear DEF Sorted
<1> HIDE DEF upto
<1>3. CountIn(Sorted(s, owned), E) = Cardinality({i \in DOMAIN s : s[i] \in E})
  BY <1>1, <1>2, ArrangedCounts
<1>4. QED
  BY <1>3 DEF CountIn

LEMMA ConcatCounts ==
  ASSUME NEW S, NEW s \in Seq(S), NEW t \in Seq(S), NEW E
  PROVE  CountIn(s \o t, E) = CountIn(s, E) + CountIn(t, E)
<1> DEFINE u == s \o t
           n == Len(s)
           A == {i \in DOMAIN s : s[i] \in E}
           B == {k \in DOMAIN t : t[k] \in E}
           C == {i \in DOMAIN u : i > n /\ u[i] \in E}
           f == [k \in B |-> n + k]
<1>1. /\ n \in Nat /\ Len(t) \in Nat /\ u \in Seq(S)
      /\ DOMAIN u = 1 .. (n + Len(t)) /\ DOMAIN s = 1 .. n /\ DOMAIN t = 1 .. Len(t)
      /\ \A i \in 1 .. n : u[i] = s[i]
      /\ \A k \in 1 .. Len(t) : u[n + k] = t[k]
  OBVIOUS
<1> HIDE DEF u, n
<1>2. A \in SUBSET (DOMAIN s) /\ B \in SUBSET (DOMAIN t) /\ C \in SUBSET (DOMAIN u)
  OBVIOUS
<1>3. IsFiniteSet(A) /\ IsFiniteSet(B) /\ IsFiniteSet(C)
  BY <1>1, <1>2, PositionsFinite
<1>4. {i \in DOMAIN u : u[i] \in E} = A \cup C /\ A \cap C = {}
  <2>1. \A i \in 1 .. n : i \in DOMAIN u /\ ~(i > n) /\ u[i] = s[i]
    BY <1>1
  <2>2. \A i \in DOMAIN u : i > n \/ i \in 1 .. n
    BY <1>1
  <2>3. QED
    BY <1>1, <2>1, <2>2
<1>5. \A k \in B : f[k] = n + k /\ f[k] \in C /\ k \in Nat
  <2> TAKE k \in B
  <2>1. n + k \in DOMAIN u /\ n + k > n /\ k \in Nat
    BY <1>1
  <2>2. u[n + k] \in E
    BY <1>1
  <2>3. QED
    BY <2>1, <2>2
<1>6. \A i \in C : \E k \in B : f[k] = i
  <2> TAKE i \in C
  <2>1. i - n \in 1 .. Len(t) /\ n + (i - n) = i
    BY <1>1
  <2>2. i - n \in B
    BY <1>1, <2>1
  <2>3. f[i - n] = i
    BY <2>1, <2>2
  <2>4. QED
    BY <2>2, <2>3
<1>7. DOMAIN f = B
  OBVIOUS
<1> HIDE DEF A, B, C
<1>8. f \in [B -> C]
  BY <1>5
<1>9. \A k, m \in B : f[k] = f[m] => k = m
  <2>1. \A k, m \in B : k \in Nat /\ m \in Nat /\ n + k = n + m => k = m
    BY <1>1
  <2>2. QED
    BY <1>5, <2>1
<1> HIDE DEF f
<1>10. f \in Injection(B, C) /\ f \in Surjection(B, C)
  BY <1>6, <1>7, <1>8, <1>9 DEF Injection, IsInjective, Surjection
<1>11. Cardinality(B) = Cardinality(C)
  BY <1>3, <1>10, FS_Injection
<1>12. Cardinality(A \cup C) = Cardinality(A) + Cardinality(C)
  <2>1. Cardinality(A \cap C) = 0
    BY <1>4, FS_EmptySet
  <2>2. Cardinality(A) \in Nat /\ Cardinality(C) \in Nat
    BY <1>3, FS_CardinalityType
  <2>3. Cardinality(A \cup C) = Cardinality(A) + Cardinality(C) - Cardinality(A \cap C)
    BY <1>3, FS_Union
  <2>4. QED
    BY <2>1, <2>2, <2>3
<1>13. QED
  BY <1>4, <1>11, <1>12 DEF CountIn, u, A, B

----------------------------------------------------------------------------
(* What every merge does, whatever the times and the texts are.            *)

Terminal(e) == terminalRun(e.name) # NoRun
Fragment(e) == e.kind = "assistant" /\ replacementRun(e.name) = NoRun /\ e.run # NoRun
Covers(x, e) ==
  /\ x.kind = "assistant" /\ replacementRun(x.name) = e.run
  /\ x.text # e.text /\ e.text \subseteq x.text

(* e is a fragment that something in s supersedes.                         *)
Gone(e, s) == Fragment(e) /\ \E j \in DOMAIN s : Covers(s[j], e)

LEMMA SupersededGone ==
  ASSUME NEW t PROVE Superseded(t) = {i \in DOMAIN t : Gone(t[i], t)}
BY DEF Superseded, Gone, Fragment, Covers

(* The two sides together, before they are sorted.                         *)
Joint(s, c) == s \o Pick(c, Unmatched(s, c))
Larger(m, n) == IF m > n THEN m ELSE n

(* Of a signature as many occurrences are unmatched as the copy has more.  *)
LEMMA UnmatchedCount ==
  ASSUME NEW S, NEW s \in Seq(S), NEW c \in Seq(S), NEW sig
  PROVE  Cardinality({j \in Unmatched(s, c) : signature(c[j]) = sig})
           = Larger(Count(c, sig), Count(s, sig)) - Count(s, sig)
<1> DEFINE A == {j \in DOMAIN c : signature(c[j]) = sig}
           upto == [i \in A |-> {j \in A : j <= i}]
           U == {j \in Unmatched(s, c) : signature(c[j]) = sig}
           n == Count(s, sig)
           m == Count(c, sig)
           rank == [i \in A |-> Cardinality(upto[i])]
<1>1. n \in Nat /\ m \in Nat
  BY CountOfSignature
<1>2. A \in SUBSET (DOMAIN c)
  OBVIOUS
<1>3. m = Cardinality(A)
  BY DEF Count
<1>4. ASSUME NEW j \in A PROVE Count(SubSeq(c, 1, j), sig) = rank[j]
  <2>1. DOMAIN c = 1 .. Len(c) /\ Len(c) \in Nat /\ j \in 1 .. Len(c)
    OBVIOUS
  <2>2. DOMAIN SubSeq(c, 1, j) = 1 .. j /\ \A i \in 1 .. j : SubSeq(c, 1, j)[i] = c[i]
    BY <2>1
  <2>3. {i \in DOMAIN SubSeq(c, 1, j) : signature(SubSeq(c, 1, j)[i]) = sig}
          = {i \in 1 .. j : signature(c[i]) = sig}
    BY <2>2
  <2>4. {i \in 1 .. j : signature(c[i]) = sig} = {i \in A : i <= j}
    BY <2>1
  <2>5. QED
    BY <2>3, <2>4 DEF Count
<1>5. U = {j \in A : Count(SubSeq(c, 1, j), sig) > n}
  BY DEF Unmatched
<1>6. DOMAIN upto = A
  OBVIOUS
<1>7. \A i, j \in A : i \in upto[j] \/ j \in upto[i]
  <2>1. \A i, j \in A : i <= j \/ j <= i
    BY <1>2, PositionsFinite
  <2>2. QED
    BY <2>1
<1>8. IsFiniteSet(A) /\ A \in SUBSET Nat
  BY <1>2, PositionsFinite
<1>9. Linear(upto)
  BY <1>8, Numbers
<1> HIDE DEF upto, A, n, m
<1>10. /\ \A i \in A : rank[i] \in 1 .. m
       /\ \A i, j \in A : i # j /\ i \in upto[j] => rank[i] < rank[j]
  BY <1>3, <1>6, <1>8, <1>9, RankGrows
<1>11. U = {j \in A : rank[j] > n}
  BY <1>4, <1>5
<1> HIDE DEF U, rank
<1>12. \A i, j \in A : rank[i] = rank[j] => i = j
  <2>1. \A i, j \in A : rank[i] \in Int /\ rank[j] \in Int
    BY <1>1, <1>10
  <2>2. QED
    BY <1>7, <1>10, <2>1
<1> DEFINE M == {j \in A : rank[j] <= n}
           f == [j \in M |-> rank[j]]
           g == [j \in U |-> rank[j]]
<1>13. U \in SUBSET A /\ M \in SUBSET A
  BY <1>11
<1>14. /\ IsFiniteSet(U) /\ IsFiniteSet(M)
       /\ Cardinality(U) \in Nat /\ Cardinality(M) \in Nat
  BY <1>8, <1>13, FS_Subset, FS_CardinalityType
<1>15. Cardinality(A) = Cardinality(U) + Cardinality(M)
  <2>1. A = U \cup M
    BY <1>1, <1>10, <1>11
  <2>2. U \cap M = {}
    BY <1>1, <1>10, <1>11
  <2> HIDE DEF M
  <2>3. Cardinality(U \cap M) = 0
    BY <2>2, FS_EmptySet
  <2>4. Cardinality(U \cup M) = Cardinality(U) + Cardinality(M) - Cardinality(U \cap M)
    BY <1>14, FS_Union
  <2>5. QED
    BY <1>14, <2>1, <2>3, <2>4
<1>16. Cardinality(M) <= n
  <2>1. \A j \in M : f[j] = rank[j] /\ rank[j] \in 1 .. n /\ j \in A
    BY <1>1, <1>10
  <2>2. DOMAIN f = M
    OBVIOUS
  <2> HIDE DEF f, M
  <2>3. f \in [M -> 1 .. n]
    BY <2>1, <2>2 DEF f
  <2>4. f \in Injection(M, 1 .. n)
    BY <1>12, <2>1, <2>2, <2>3 DEF Injection, IsInjective
  <2>5. IsFiniteSet(1 .. n) /\ Cardinality(1 .. n) = n
    BY <1>1, FS_Interval
  <2>6. QED
    BY <2>4, <2>5, FS_Injection
<1>17. Cardinality(U) <= Larger(m, n) - n
  <2>1. \A j \in U : g[j] = rank[j] /\ rank[j] \in (n + 1) .. m /\ j \in A
    BY <1>1, <1>10, <1>11
  <2>2. DOMAIN g = U
    OBVIOUS
  <2> HIDE DEF g
  <2>3. g \in [U -> (n + 1) .. m]
    BY <2>1, <2>2 DEF g
  <2>4. g \in Injection(U, (n + 1) .. m)
    BY <1>12, <2>1, <2>2, <2>3 DEF Injection, IsInjective
  <2>5. /\ IsFiniteSet((n + 1) .. m)
        /\ Cardinality((n + 1) .. m) = IF n + 1 > m THEN 0 ELSE m - (n + 1) + 1
    BY <1>1, FS_Interval
  <2>6. Cardinality(U) <= Cardinality((n + 1) .. m)
    BY <2>4, <2>5, FS_Injection
  <2>7. QED
    BY <1>1, <2>5, <2>6 DEF Larger
<1>18. Cardinality(U) = Larger(m, n) - n
  BY <1>1, <1>3, <1>14, <1>15, <1>16, <1>17 DEF Larger
<1>19. QED
  BY <1>18 DEF U, n, m, A

(* Together they have as many occurrences of a signature as either side.   *)
LEMMA JointCounts ==
  ASSUME NEW S, NEW s \in Seq(S), NEW c \in Seq(S)
  PROVE  /\ Joint(s, c) \in Seq(S)
         /\ \A sig : Count(Joint(s, c), sig) = Larger(Count(c, sig), Count(s, sig))
         /\ \A E : CountIn(s, E) <= CountIn(Joint(s, c), E)
         /\ ToSet(s) \subseteq ToSet(Joint(s, c))
         /\ ToSet(Joint(s, c)) \subseteq ToSet(s) \cup ToSet(c)
<1> DEFINE U == Unmatched(s, c)
           P == Pick(c, U)
<1>1. U \in SUBSET (DOMAIN c)
  BY DEF Unmatched
<1>2. P \in Seq(S) /\ Subsequence(P, c, U)
  BY <1>1, PickKeeps
<1>3. ASSUME NEW sig PROVE Count(s \o P, sig) = Larger(Count(c, sig), Count(s, sig))
  <2> DEFINE E == OfSignature(S, sig)
  <2>1. CountIn(P, E) = Cardinality({j \in U : c[j] \in E})
    BY <1>1, PickCounts
  <2>2. {j \in U : c[j] \in E} = {j \in U : signature(c[j]) = sig}
    <3>1. \A j \in U : c[j] \in S
      BY <1>1
    <3>2. QED
      BY <3>1 DEF OfSignature
  <2>3. CountIn(P, E) = Larger(Count(c, sig), Count(s, sig)) - Count(s, sig)
    BY <2>1, <2>2, UnmatchedCount
  <2> HIDE DEF P, E
  <2>4. CountIn(s \o P, E) = CountIn(s, E) + CountIn(P, E) /\ s \o P \in Seq(S)
    BY <1>2, ConcatCounts
  <2>5. Count(s, sig) = CountIn(s, E) /\ Count(s \o P, sig) = CountIn(s \o P, E)
    BY <2>4, CountOfSignature DEF E
  <2>6. Count(s, sig) \in Nat /\ Count(c, sig) \in Nat
    BY CountOfSignature
  <2>7. QED
    BY <2>3, <2>4, <2>5, <2>6 DEF Larger
<1> HIDE DEF U, P
<1>4. ASSUME NEW E PROVE CountIn(s, E) <= CountIn(s \o P, E)
  <2>1. CountIn(s \o P, E) = CountIn(s, E) + CountIn(P, E)
    BY <1>2, ConcatCounts
  <2>2. CountIn(s, E) \in Nat /\ CountIn(P, E) \in Nat
    BY <1>2, CountType
  <2>3. QED
    BY <2>1, <2>2
<1>5. /\ s \o P \in Seq(S)
      /\ DOMAIN (s \o P) = 1 .. (Len(s) + Len(P)) /\ Len(s) \in Nat /\ Len(P) \in Nat
      /\ DOMAIN s = 1 .. Len(s) /\ DOMAIN P = 1 .. Len(P)
      /\ \A i \in 1 .. Len(s) : (s \o P)[i] = s[i]
      /\ \A k \in 1 .. Len(P) : (s \o P)[Len(s) + k] = P[k]
  BY <1>2
<1> DEFINE out == s \o P
<1> HIDE DEF out
<1>6. ToSet(s) \subseteq ToSet(out)
  <2>1. \A i \in DOMAIN s : i \in DOMAIN out /\ out[i] = s[i]
    BY <1>5 DEF out
  <2>2. QED
    BY <2>1 DEF ToSet
<1>7. ToSet(out) \subseteq ToSet(s) \cup ToSet(c)
  <2>1. \A k \in DOMAIN P : P[k] \in ToSet(c)
    BY <1>1, <1>2 DEF Subsequence, ToSet
  <2>2. ASSUME NEW i \in DOMAIN out PROVE out[i] \in ToSet(s) \cup ToSet(c)
    <3>1. CASE i \in 1 .. Len(s)
      BY <1>5, <3>1 DEF out, ToSet
    <3>2. CASE i \notin 1 .. Len(s)
      <4>1. i - Len(s) \in 1 .. Len(P) /\ Len(s) + (i - Len(s)) = i
        BY <1>5, <3>2 DEF out
      <4>2. out[i] = P[i - Len(s)]
        BY <1>5, <4>1 DEF out
      <4>3. QED
        BY <1>5, <2>1, <4>1, <4>2
    <3>3. QED
      BY <3>1, <3>2
  <2>3. QED
    BY <2>2 DEF ToSet
<1>8. QED
  BY <1>3, <1>4, <1>5, <1>6, <1>7 DEF Joint, U, P, out

(* How two events of the result stand to each other.                       *)
Precedes(x, y, owned) ==
  \/ x.at < y.at
  \/ x.at = y.at /\ (signature(x) \in owned \/ signature(y) \notin owned)

LEMMA SortedOrder ==
  ASSUME NEW S, NEW s \in Seq(S), \A e \in S : e.at \in Nat, NEW owned
  PROVE  \A k, m \in DOMAIN Sorted(s, owned) :
           k < m => Precedes(Sorted(s, owned)[k], Sorted(s, owned)[m], owned)
<1> DEFINE D == DOMAIN s
           upto == [i \in D |-> {j \in D : Before(s, owned, j, i)}]
           t == Sorted(s, owned)
<1>1. IsFiniteSet(D)
  BY PositionsFinite
<1>2. DOMAIN upto = D /\ Linear(upto) /\ t = Arranged(s, upto)
  BY TimesLinear DEF Sorted
<1>3. \A i, j \in D : i \in upto[j] => Precedes(s[i], s[j], owned)
  BY DEF Before, Precedes
<1> HIDE DEF upto, t
<1>4. PICK p, n : Lists(p, n, upto) /\ Arranged(s, upto) = [k \in 1 .. n |-> s[p[k]]]
  BY <1>1, <1>2, ArrangedLists
<1>5. \A k, m \in 1 .. n : k < m => p[k] \in D /\ p[m] \in D /\ p[k] \in upto[p[m]]
  BY <1>2, <1>4 DEF Lists
<1>6. DOMAIN t = 1 .. n /\ \A k \in 1 .. n : t[k] = s[p[k]]
  BY <1>2, <1>4
<1>7. \A k, m \in DOMAIN t : k < m => Precedes(t[k], t[m], owned)
  BY <1>3, <1>5, <1>6
<1>8. QED
  BY <1>7 DEF t

(* What a merge m of the two sides together, out, may drop and how it is   *)
(* ordered; S are the events there are.                                    *)
Reduces(m, out, owned, S) ==
  /\ m \in Seq(S) /\ ToSet(m) \subseteq ToSet(out)
  /\ \A E : CountIn(m, E) <= CountIn(out, E)
  /\ \A E : (\A e \in E : ~Accounted(e, m)) => CountIn(m, E) = CountIn(out, E)
  /\ \A E : (\A e \in E : Gone(e, out)) => CountIn(m, E) = 0
  /\ \A E : (\A e \in E : ~Terminal(e) /\ ~Gone(e, out)) => CountIn(m, E) = CountIn(out, E)
  /\ \A x \in ToSet(out) : replacementRun(x.name) # NoRun => x \in ToSet(m)
  /\ \A k, l \in DOMAIN m : k < l => Precedes(m[k], m[l], owned)
  /\ \A x \in ToSet(out) : Terminal(x) /\ x.kind # "assistant" =>
       \E y \in ToSet(m) : terminalRun(y.name) = terminalRun(x.name) /\ x.at <= y.at

LEMMA MergeReduces ==
  ASSUME NEW S, \A e \in S : e.at \in Nat, NEW s \in Seq(S), NEW c \in Seq(S)
  PROVE  Reduces(MergeEvents(s, c), Joint(s, c), {signature(s[i]) : i \in DOMAIN s}, S)
<1> DEFINE out == Joint(s, c)
           owned == {signature(s[i]) : i \in DOMAIN s}
           t == Sorted(out, owned)
           I == DOMAIN t \ Superseded(t)
           u == Pick(t, I)
           J == DOMAIN u \ Stale(u)
           m == Pick(u, J)
<1>1. MergeEvents(s, c) = m
  BY DEF MergeEvents, supersedeReplacements, supersedeTerminals, Joint
<1>2. out \in Seq(S)
  BY JointCounts
<1> HIDE DEF out, owned
<1>3. /\ t \in Seq(S) /\ SortedBy(t, out) /\ \A E : CountIn(t, E) = CountIn(out, E)
      /\ \A k, l \in DOMAIN t : k < l => Precedes(t[k], t[l], owned)
  BY <1>2, SortedSorts, SortedCounts, SortedOrder
<1> HIDE DEF t
<1>4. I \in SUBSET (DOMAIN t) /\ \A i \in DOMAIN t : i \in I <=> ~Gone(t[i], t)
  BY SupersededGone
<1> HIDE DEF I
<1>5. u \in Seq(S) /\ Subsequence(u, t, I)
  BY <1>3, <1>4, PickKeeps
<1>6. /\ \A E : CountIn(u, E) <= CountIn(t, E)
      /\ \A E : (\A i \in DOMAIN t : t[i] \in E => i \in I) => CountIn(u, E) = CountIn(t, E)
      /\ \A E : (\A i \in I : t[i] \notin E) => CountIn(u, E) = 0
  BY <1>3, <1>4, PickBounds
<1> HIDE DEF u
<1>7. /\ J \in SUBSET (DOMAIN u)
      /\ \A i \in DOMAIN u : i \in J <=>
           ~(Terminal(u[i]) /\ \E j \in DOMAIN u :
               j > i /\ terminalRun(u[j].name) = terminalRun(u[i].name))
  BY DEF Stale, Terminal
<1> HIDE DEF J
<1>8. m \in Seq(S) /\ Subsequence(m, u, J)
  BY <1>5, <1>7, PickKeeps
<1>9. /\ \A E : CountIn(m, E) <= CountIn(u, E)
      /\ \A E : (\A i \in DOMAIN u : u[i] \in E => i \in J) => CountIn(m, E) = CountIn(u, E)
      /\ \A E : (\A i \in J : u[i] \notin E) => CountIn(m, E) = 0
  BY <1>5, <1>7, PickBounds
<1> HIDE DEF m
<1>10. /\ ToSet(t) = ToSet(out) /\ ToSet(u) \subseteq ToSet(t) /\ ToSet(m) \subseteq ToSet(u)
  BY <1>3, <1>4, <1>5, <1>7, <1>8 DEF SortedBy, Subsequence, ToSet
<1>11. \A e : Gone(e, t) <=> Gone(e, out)
  <2> TAKE e
  <2>1. Gone(e, t) <=> Fragment(e) /\ \E x \in ToSet(t) : Covers(x, e)
    BY DEF Gone, ToSet
  <2>2. Gone(e, out) <=> Fragment(e) /\ \E x \in ToSet(out) : Covers(x, e)
    BY DEF Gone, ToSet
  <2>3. QED
    BY <1>10, <2>1, <2>2
<1>12. ASSUME NEW x \in ToSet(out), ~Gone(x, out) PROVE x \in ToSet(u)
  <2>1. PICK i \in DOMAIN t : t[i] = x
    BY <1>10 DEF ToSet
  <2>2. i \in I
    BY <1>4, <1>11, <1>12, <2>1
  <2>3. QED
    BY <1>5, <2>1, <2>2 DEF Subsequence, ToSet
<1>13. ASSUME NEW x \in ToSet(u), ~Terminal(x) PROVE x \in ToSet(m)
  <2>1. PICK i \in DOMAIN u : u[i] = x
    BY DEF ToSet
  <2>2. i \in J
    BY <1>7, <1>13, <2>1
  <2>3. QED
    BY <1>8, <2>1, <2>2 DEF Subsequence, ToSet
<1>14. ASSUME NEW x \in ToSet(out), replacementRun(x.name) # NoRun PROVE x \in ToSet(m)
  <2>1. Len(x.name) = 2
    BY <1>14 DEF replacementRun
  <2>2. ~Terminal(x)
    BY <2>1 DEF Terminal, terminalRun
  <2>3. ~Gone(x, out)
    BY <1>14 DEF Gone, Fragment
  <2>4. QED
    BY <1>12, <1>13, <2>2, <2>3
<1>15. ASSUME NEW i \in DOMAIN u, Terminal(u[i])
       PROVE  \E y \in ToSet(m) : /\ terminalRun(y.name) = terminalRun(u[i].name)
                                  /\ u[i].at <= y.at
  <2> DEFINE K == {j \in DOMAIN u : terminalRun(u[j].name) = terminalRun(u[i].name)}
  <2>1. K \in SUBSET (DOMAIN u) /\ i \in K
    OBVIOUS
  <2>2. \A j \in K : terminalRun(u[j].name) = terminalRun(u[i].name)
    OBVIOUS
  <2>3. \A j \in DOMAIN u : terminalRun(u[j].name) = terminalRun(u[i].name) => j \in K
    OBVIOUS
  <2> HIDE DEF K
  <2>4. PICK k \in K : \A j \in K : j <= k
    BY <1>5, <2>1, LargestPosition
  <2>5. k \in DOMAIN u /\ i <= k /\ i \in Nat /\ k \in Nat
    BY <1>5, <2>1, <2>4
  <2>6. k \in J
    <3>1. ASSUME NEW j \in DOMAIN u, terminalRun(u[j].name) = terminalRun(u[k].name)
          PROVE  ~(j > k)
      <4>1. j \in K /\ j \in Nat
        BY <1>5, <2>2, <2>3, <2>4, <3>1
      <4>2. QED
        BY <2>4, <2>5, <4>1
    <3>2. QED
      BY <1>7, <2>5, <3>1
  <2>7. u[k] \in ToSet(m)
    BY <1>8, <2>6 DEF Subsequence, ToSet
  <2>8. u[i].at <= u[k].at
    <3>1. CASE i = k
      <4>1. u[i].at \in Nat
        BY <1>5
      <4>2. QED
        BY <3>1, <4>1
    <3>2. CASE i < k
      <4>1. PICK p \in I, q \in I : p < q /\ u[i] = t[p] /\ u[k] = t[q]
        BY <1>5, <2>5, <3>2 DEF Subsequence
      <4>2. Precedes(t[p], t[q], owned)
        BY <1>3, <1>4, <4>1
      <4>3. u[i].at \in Nat /\ u[k].at \in Nat
        BY <1>5, <2>5
      <4>4. QED
        BY <4>1, <4>2, <4>3 DEF Precedes
    <3>3. QED
      BY <2>5, <3>1, <3>2
  <2>9. QED
    BY <2>2, <2>4, <2>7, <2>8
<1>16. ASSUME NEW E, \A e \in E : ~Accounted(e, m) PROVE CountIn(m, E) = CountIn(out, E)
  <2>1. ASSUME NEW i \in DOMAIN t, t[i] \in E PROVE i \in I
    <3> SUFFICES ASSUME Gone(t[i], t) PROVE FALSE
      BY <1>4
    <3>1. PICK j \in DOMAIN t : Covers(t[j], t[i])
      BY DEF Gone
    <3>2. Fragment(t[i])
      BY DEF Gone
    <3>3. t[j] \in ToSet(m)
      BY <1>10, <1>14, <3>1, <3>2 DEF ToSet, Covers, Fragment
    <3>4. Accounted(t[i], m)
      BY <3>1, <3>2, <3>3 DEF Accounted, Covers, Fragment
    <3>5. QED
      BY <1>16, <2>1, <3>4
  <2>2. ASSUME NEW i \in DOMAIN u, u[i] \in E PROVE i \in J
    <3> SUFFICES ASSUME Terminal(u[i]) PROVE FALSE
      BY <1>7
    <3>1. Accounted(u[i], m)
      BY <1>15 DEF Accounted, Terminal
    <3>2. QED
      BY <1>16, <2>2, <3>1
  <2>3. QED
    BY <1>3, <1>6, <1>9, <2>1, <2>2
<1>17. ASSUME NEW E, \A e \in E : Gone(e, out) PROVE CountIn(m, E) = 0
  <2>1. CountIn(u, E) = 0
    BY <1>4, <1>6, <1>11, <1>17
  <2>2. CountIn(m, E) <= CountIn(u, E) /\ CountIn(m, E) \in Nat
    BY <1>8, <1>9, CountType
  <2>3. QED
    BY <2>1, <2>2
<1>18. ASSUME NEW E, \A e \in E : ~Terminal(e) /\ ~Gone(e, out)
       PROVE  CountIn(m, E) = CountIn(out, E)
  <2>1. CountIn(u, E) = CountIn(t, E)
    BY <1>4, <1>6, <1>11, <1>18
  <2>2. CountIn(m, E) = CountIn(u, E)
    BY <1>7, <1>9, <1>18
  <2>3. QED
    BY <1>3, <2>1, <2>2
<1>19. ASSUME NEW E PROVE CountIn(m, E) <= CountIn(out, E)
  <2>1. CountIn(m, E) <= CountIn(u, E) /\ CountIn(u, E) <= CountIn(t, E)
    BY <1>6, <1>9
  <2>2. CountIn(m, E) \in Nat /\ CountIn(u, E) \in Nat /\ CountIn(t, E) \in Nat
    BY <1>3, <1>5, <1>8, CountType
  <2>3. QED
    BY <1>3, <2>1, <2>2
<1>20. ASSUME NEW k \in DOMAIN m, NEW l \in DOMAIN m, k < l
       PROVE  Precedes(m[k], m[l], owned)
  <2>1. PICK i \in J, j \in J : i < j /\ m[k] = u[i] /\ m[l] = u[j]
    BY <1>8, <1>20 DEF Subsequence
  <2>2. i \in DOMAIN u /\ j \in DOMAIN u
    BY <1>7
  <2>3. PICK p \in I, q \in I : p < q /\ u[i] = t[p] /\ u[j] = t[q]
    BY <1>5, <2>1, <2>2 DEF Subsequence
  <2>4. QED
    BY <1>3, <1>4, <2>1, <2>3
<1>21. ASSUME NEW x \in ToSet(out), Terminal(x), x.kind # "assistant"
       PROVE  \E y \in ToSet(m) : terminalRun(y.name) = terminalRun(x.name) /\ x.at <= y.at
  <2>1. x \in ToSet(u)
    BY <1>12, <1>21 DEF Gone, Fragment
  <2>2. PICK i \in DOMAIN u : u[i] = x
    BY <2>1 DEF ToSet
  <2>3. QED
    BY <1>15, <1>21, <2>2
<1>22. ToSet(m) \subseteq ToSet(out)
  BY <1>10
<1>23. Reduces(m, out, owned, S)
  BY <1>8, <1>14, <1>16, <1>17, <1>18, <1>19, <1>20, <1>21, <1>22 DEF Reduces
<1>24. QED
  BY <1>1, <1>23 DEF out, owned

----------------------------------------------------------------------------
(* Types.                                                                  *)

LEMMA AppendFacts ==
  ASSUME NEW S, NEW s \in Seq(S), NEW e
  PROVE  /\ Append(s, e) \in Seq(S \cup {e}) /\ Len(Append(s, e)) = Len(s) + 1
         /\ DOMAIN Append(s, e) = 1 .. (Len(s) + 1) /\ DOMAIN s = 1 .. Len(s) /\ Len(s) \in Nat
         /\ Append(s, e)[Len(s) + 1] = e
         /\ \A i \in DOMAIN s : Append(s, e)[i] = s[i] /\ i \in DOMAIN Append(s, e)
         /\ \A i \in DOMAIN Append(s, e) : i \in DOMAIN s \/ i = Len(s) + 1
         /\ ToSet(Append(s, e)) = ToSet(s) \cup {e}
<1>1. s \in Seq(S \cup {e})
  BY SeqMonotonic
<1>2. /\ Append(s, e) \in Seq(S \cup {e}) /\ Len(Append(s, e)) = Len(s) + 1
      /\ DOMAIN Append(s, e) = 1 .. (Len(s) + 1) /\ DOMAIN s = 1 .. Len(s) /\ Len(s) \in Nat
      /\ Append(s, e)[Len(s) + 1] = e
      /\ \A i \in 1 .. Len(s) : Append(s, e)[i] = s[i]
  BY <1>1
<1>3. \A i \in 1 .. (Len(s) + 1) : i \in 1 .. Len(s) \/ i = Len(s) + 1
  BY <1>2
<1>4. \A i \in 1 .. Len(s) : i \in 1 .. (Len(s) + 1)
  BY <1>2
<1>5. Len(s) + 1 \in 1 .. (Len(s) + 1)
  BY <1>2
<1> DEFINE t == Append(s, e)
           n == Len(s) + 1
<1> HIDE DEF t
<1>6. ToSet(t) = ToSet(s) \cup {e}
  <2>1. \A i \in DOMAIN t : t[i] \in ToSet(s) \cup {e}
    BY <1>2, <1>3 DEF ToSet, t
  <2>2. \A i \in DOMAIN s : s[i] \in ToSet(t)
    BY <1>2, <1>4 DEF ToSet, t
  <2>3. e \in ToSet(t)
    BY <1>2, <1>5 DEF ToSet, t
  <2>4. QED
    BY <2>1, <2>2, <2>3 DEF ToSet
<1>7. QED
  BY <1>2, <1>3, <1>4, <1>6 DEF t

TypeInv ==
  /\ now \in Nat /\ seen \in 0 .. Len(said) /\ Len(said) <= MaxEvents
  /\ said \in Seq(ToSet(said)) /\ \A e \in ToSet(said) : e.at \in Nat
  /\ server \in Seq(ToSet(said)) /\ browser \in Seq(ToSet(said))
  /\ \A s \in sent : s \in Seq(ToSet(said))
  /\ IsFiniteSet(sent) /\ Cardinality(sent) <= MaxCopies

LEMMA MergeType ==
  ASSUME NEW S, \A e \in S : e.at \in Nat, NEW s \in Seq(S), NEW c \in Seq(S)
  PROVE  MergeEvents(s, c) \in Seq(S)
BY MergeReduces DEF Reduces

(* Something is said and one copy takes it up.                             *)
LEMMA SayType ==
  ASSUME TypeInv, NEW e, e.at = now, Len(said) < MaxEvents,
         said' = Append(said, e), now' \in Later, sent' = sent, seen' \in {seen, seen + 1},
         server' \in {server, Append(server, e)}, browser' \in {browser, Append(browser, e)}
  PROVE  TypeInv'
<1> DEFINE S == ToSet(said)
<1>1. /\ now \in Nat /\ seen \in 0 .. Len(said) /\ said \in Seq(S) /\ \A x \in S : x.at \in Nat
      /\ server \in Seq(S) /\ browser \in Seq(S) /\ \A s \in sent : s \in Seq(S)
      /\ IsFiniteSet(sent) /\ Cardinality(sent) <= MaxCopies
  BY DEF TypeInv
<1> HIDE DEF S
<1>2. said' \in Seq(S \cup {e}) /\ Len(said') = Len(said) + 1 /\ ToSet(said') = S \cup {e}
  BY <1>1, AppendFacts DEF S
<1>3. \A s \in Seq(S) : s \in Seq(S \cup {e}) /\ Append(s, e) \in Seq(S \cup {e})
  <2> TAKE s \in Seq(S)
  <2>1. s \in Seq(S \cup {e})
    BY SeqMonotonic
  <2>2. QED
    BY <2>1, AppendFacts
<1>4. /\ server' \in Seq(S \cup {e}) /\ browser' \in Seq(S \cup {e})
      /\ \A s \in sent' : s \in Seq(S \cup {e})
  BY <1>1, <1>3
<1>5. now' \in Nat
  BY <1>1 DEF Later
<1>6. Len(said) \in Nat
  BY <1>1
<1>7. seen' \in 0 .. Len(said') /\ Len(said') <= MaxEvents
  BY <1>1, <1>2, <1>6, BoundAssumption
<1>8. QED
  BY <1>1, <1>2, <1>4, <1>5, <1>7 DEF TypeInv

LEMMA NextType == TypeInv /\ [Next]_vars => TypeInv'
<1> SUFFICES ASSUME TypeInv, [Next]_vars PROVE TypeInv'
  OBVIOUS
<1> DEFINE S == ToSet(said)
<1>1. /\ now \in Nat /\ seen \in 0 .. Len(said) /\ said \in Seq(S) /\ \A x \in S : x.at \in Nat
      /\ server \in Seq(S) /\ browser \in Seq(S) /\ \A s \in sent : s \in Seq(S)
      /\ IsFiniteSet(sent) /\ Cardinality(sent) <= MaxCopies /\ Len(said) <= MaxEvents
  BY DEF TypeInv
<1>2. Len(said) \in Nat /\ DOMAIN said = 1 .. Len(said)
  BY <1>1
<1>3. ASSUME NEW e \in AgentEvents, AgentSays(e) PROVE TypeInv'
  <2>1. e.at = now
    BY DEF AgentEvents, Event
  <2>2. QED
    BY <1>3, <2>1, SayType DEF AgentSays
<1>4. ASSUME NEW t \in UserTexts, UserSays(t) PROVE TypeInv'
  <2>1. PICK e : e = Event("user", t, <<>>, NoRun)
    OBVIOUS
  <2>2. e.at = now
    BY <2>1 DEF Event
  <2>3. /\ Len(said) < MaxEvents /\ said' = Append(said, e) /\ browser' = Append(browser, e)
        /\ seen' = seen + 1 /\ now' \in Later /\ server' = server /\ sent' = sent
    BY <1>4, <2>1 DEF UserSays
  <2>4. QED
    BY <2>2, <2>3, SayType
<1>5. CASE See
  <2>1. /\ seen < Len(said) /\ browser' = Append(browser, said[seen + 1]) /\ seen' = seen + 1
        /\ server' = server /\ said' = said /\ now' = now /\ sent' = sent
    BY <1>5 DEF See
  <2>2. seen' \in 0 .. Len(said) /\ seen + 1 \in DOMAIN said
    BY <1>1, <1>2, <2>1
  <2>3. said[seen + 1] \in S
    BY <2>2 DEF ToSet
  <2>4. browser' \in Seq(S)
    BY <1>1, <2>1, <2>3
  <2>5. QED
    BY <1>1, <2>1, <2>2, <2>4 DEF TypeInv
<1>6. CASE Send
  <2>1. /\ Cardinality(sent) < MaxCopies /\ browser \notin sent /\ sent' = sent \cup {browser}
        /\ server' = server /\ browser' = browser /\ said' = said /\ seen' = seen /\ now' = now
    BY <1>6 DEF Send
  <2>2. IsFiniteSet(sent') /\ Cardinality(sent') = Cardinality(sent) + 1
    BY <1>1, <2>1, FS_AddElement
  <2>3. Cardinality(sent) \in Nat
    BY <1>1, FS_CardinalityType
  <2>4. Cardinality(sent') <= MaxCopies
    BY <2>1, <2>2, <2>3, BoundAssumption
  <2>5. QED
    BY <1>1, <2>1, <2>2, <2>4 DEF TypeInv
<1>7. CASE Reload
  <2>1. /\ browser' = MergeEvents(server, browser) /\ server' = browser' /\ seen' = Len(said)
        /\ said' = said /\ now' = now /\ sent' = sent
    BY <1>7 DEF Reload
  <2>2. browser' \in Seq(S) /\ server' \in Seq(S)
    BY <1>1, <2>1, MergeType
  <2>3. seen' \in 0 .. Len(said)
    BY <1>2, <2>1
  <2>4. QED
    BY <1>1, <2>1, <2>2, <2>3 DEF TypeInv
<1>8. ASSUME NEW c \in sent, Arrive(c) PROVE TypeInv'
  <2>1. /\ server' = MergeEvents(server, c) /\ browser' = browser /\ said' = said
        /\ seen' = seen /\ now' = now /\ sent' = sent
    BY <1>8 DEF Arrive
  <2>2. server' \in Seq(S)
    BY <1>1, <2>1, MergeType
  <2>3. QED
    BY <1>1, <2>1, <2>2 DEF TypeInv
<1>9. CASE UNCHANGED vars
  BY <1>9 DEF vars, TypeInv
<1>10. QED
  BY <1>3, <1>4, <1>5, <1>6, <1>7, <1>8, <1>9 DEF Next

LEMMA InitTypes == Init => TypeInv
<1> SUFFICES ASSUME Init PROVE TypeInv
  OBVIOUS
<1>1. ToSet(<<>>) = {} /\ Len(<<>>) = 0 /\ <<>> \in Seq({})
  BY DEF ToSet
<1>2. IsFiniteSet({}) /\ Cardinality({}) = 0
  BY FS_EmptySet
<1>3. QED
  BY <1>1, <1>2, BoundAssumption DEF Init, TypeInv

LEMMA TypesHold == Spec => []TypeInv
BY InitTypes, NextType, PTL DEF Spec

(* Neither the server nor the browser, nor a copy on its way, ever has an  *)
(* event that was not said: MergeEvents makes nothing up, even when times  *)
(* tie and runs stream the same text.                                      *)
THEOREM NothingMadeUp == Spec => []TypeOK
<1>1. TypeInv => TypeOK
  <2> SUFFICES ASSUME TypeInv, NEW s \in {server, browser} \cup sent, NEW x \in ToSet(s)
               PROVE  x \in ToSet(said)
    BY DEF TypeInv, TypeOK
  <2>1. s \in Seq(ToSet(said))
    BY DEF TypeInv
  <2>2. QED
    BY <2>1 DEF ToSet
<1>2. QED
  BY <1>1, TypesHold, PTL

(* A merge into the server's transcript.                                   *)
Merges(c) == server' = MergeEvents(server, c)

LEMMA MergeKeepsBoth ==
  ASSUME TypeInv, NEW c \in Seq(ToSet(said)), Merges(c)
  PROVE  Keeps(c) /\ ServerWins
<1> DEFINE S == ToSet(said)
           out == Joint(server, c)
           owned == {signature(server[i]) : i \in DOMAIN server}
<1>1. PICK m : m = server'
  OBVIOUS
<1>2. (\A e \in S : e.at \in Nat) /\ server \in Seq(S)
  BY DEF TypeInv
<1>3. Reduces(m, out, owned, S)
  BY <1>1, <1>2, MergeReduces DEF Merges
<1>4. /\ out \in Seq(S) /\ \A E : CountIn(server, E) <= CountIn(out, E)
      /\ \A sig : Count(out, sig) = Larger(Count(c, sig), Count(server, sig))
      /\ ToSet(out) \subseteq ToSet(server) \cup ToSet(c)
  BY <1>2, JointCounts
<1> HIDE DEF S, out
<1>5. /\ m \in Seq(S)
      /\ \A E : (\A e \in E : ~Accounted(e, m)) => CountIn(m, E) = CountIn(out, E)
      /\ \A k, l \in DOMAIN m : k < l => Precedes(m[k], m[l], owned)
  BY <1>3 DEF Reduces
<1>6. ASSUME NEW sig
      PROVE  Cardinality({i \in DOMAIN server : signature(server[i]) = sig
                                               /\ ~Accounted(server[i], m)}) <= Count(m, sig)
  <2> DEFINE F == {x \in S : signature(x) = sig /\ ~Accounted(x, m)}
  <2>1. \A i \in DOMAIN server : server[i] \in S
    BY <1>2
  <2>2. {i \in DOMAIN server : signature(server[i]) = sig /\ ~Accounted(server[i], m)}
          = {i \in DOMAIN server : server[i] \in F}
    BY <2>1
  <2>3. \A x \in F : x \in OfSignature(S, sig) /\ ~Accounted(x, m)
    BY DEF OfSignature
  <2> HIDE DEF F
  <2>4. CountIn(m, F) = CountIn(out, F) /\ CountIn(server, F) <= CountIn(out, F)
    BY <1>4, <1>5, <2>3
  <2>5. CountIn(m, F) <= CountIn(m, OfSignature(S, sig))
    BY <1>5, <2>3, CountMonotone
  <2>6. CountIn(m, OfSignature(S, sig)) = Count(m, sig)
    BY <1>5, CountOfSignature
  <2>7. CountIn(server, F) \in Nat /\ CountIn(m, F) \in Nat /\ Count(m, sig) \in Nat
    BY <1>2, <1>5, CountType, CountOfSignature
  <2>8. Cardinality({i \in DOMAIN server : signature(server[i]) = sig
                                         /\ ~Accounted(server[i], m)}) = CountIn(server, F)
    BY <2>2 DEF CountIn
  <2>9. QED
    BY <2>4, <2>5, <2>6, <2>7, <2>8
<1>7. ASSUME NEW sig, \A f \in ToSet(server) \cup ToSet(c) :
                        signature(f) = sig => ~Accounted(f, m)
      PROVE  Count(c, sig) <= Count(m, sig)
  <2> DEFINE F == {x \in ToSet(out) : signature(x) = sig}
  <2>1. \A x \in F : ~Accounted(x, m)
    BY <1>4, <1>7
  <2>2. \A x \in F : x \in OfSignature(S, sig)
    BY <1>4 DEF OfSignature, ToSet
  <2>3. \A i \in DOMAIN out : out[i] \in OfSignature(S, sig) <=> out[i] \in F
    BY <1>4 DEF OfSignature, ToSet
  <2> HIDE DEF F
  <2>4. CountIn(m, F) = CountIn(out, F)
    BY <1>5, <2>1
  <2>5. CountIn(out, F) = Count(out, sig)
    <3>1. CountIn(out, F) = CountIn(out, OfSignature(S, sig))
      BY <2>3 DEF CountIn
    <3>2. QED
      BY <1>4, <3>1, CountOfSignature
  <2>6. CountIn(m, F) <= Count(m, sig)
    <3>1. CountIn(m, F) <= CountIn(m, OfSignature(S, sig))
      BY <1>5, <2>2, CountMonotone
    <3>2. QED
      BY <1>5, <3>1, CountOfSignature
  <2>7. Count(out, sig) = Larger(Count(c, sig), Count(server, sig))
    BY <1>4
  <2>8. Count(c, sig) \in Nat /\ Count(server, sig) \in Nat /\ Count(m, sig) \in Nat
    BY <1>2, <1>5, CountOfSignature DEF S
  <2>9. QED
    BY <2>4, <2>5, <2>6, <2>7, <2>8 DEF Larger
<1>8. Keeps(c)
  <2>1. ASSUME NEW e \in ToSet(c)
        PROVE  \/ Count(c, signature(e)) <= Count(m, signature(e))
               \/ \E f \in ToSet(server) \cup ToSet(c) :
                    signature(f) = signature(e) /\ Accounted(f, m)
    BY <1>7
  <2>2. QED
    BY <1>1, <1>6, <2>1 DEF Keeps
<1>9. ServerWins
  <2>1. ASSUME NEW i \in DOMAIN m, NEW j \in DOMAIN m, i < j
        PROVE  \/ m[i].at < m[j].at
               \/ /\ m[i].at = m[j].at
                  /\ \/ \E k \in DOMAIN server : signature(server[k]) = signature(m[i])
                     \/ \A k \in DOMAIN server : signature(server[k]) # signature(m[j])
    <3>1. Precedes(m[i], m[j], owned)
      BY <1>5, <2>1
    <3>2. QED
      BY <3>1 DEF Precedes
  <2>2. QED
    BY <1>1, <2>1 DEF ServerWins
<1>10. QED
  BY <1>8, <1>9

(* No merge takes an occurrence of the server's away, nor one of the       *)
(* copy's, but for what a replacement of the run or another terminal       *)
(* marker accounts for; and the result is in the order of the times, the   *)
(* server's events first of each (MergeEvents, supersedeReplacements,      *)
(* supersedeTerminals).                                                    *)
THEOREM MergesKeep == Spec => MergeKeeps
<1>1. TypeInv /\ [Next]_vars =>
        [/\ \A c \in sent : Arrive(c) => Keeps(c) /\ ServerWins
         /\ Reload => Keeps(browser) /\ ServerWins]_vars
  <2> SUFFICES ASSUME TypeInv
               PROVE  /\ \A c \in sent : Arrive(c) => Keeps(c) /\ ServerWins
                      /\ Reload => Keeps(browser) /\ ServerWins
    OBVIOUS
  <2>1. ASSUME NEW c \in sent, Arrive(c) PROVE Keeps(c) /\ ServerWins
    BY <2>1, MergeKeepsBoth DEF Arrive, Merges, TypeInv
  <2>2. ASSUME Reload PROVE Keeps(browser) /\ ServerWins
    BY <2>2, MergeKeepsBoth DEF Reload, Merges, TypeInv
  <2>3. QED
    BY <2>1, <2>2
<1>2. QED
  BY <1>1, TypesHold, PTL DEF Spec, MergeKeeps

----------------------------------------------------------------------------
(* How often what was said is held.                                        *)

(* How many of the first n events of a have a signature.                   *)
Upto(a, n, sig) == Cardinality({i \in DOMAIN a : i <= n /\ signature(a[i]) = sig})

(* No transcript has more occurrences of a signature than were said, and   *)
(* the browser no more than it took note of.                               *)
Counted ==
  \A sig :
    /\ Count(server, sig) <= Count(said, sig)
    /\ Count(browser, sig) <= Upto(said, seen, sig)
    /\ \A c \in sent : Count(c, sig) <= Count(said, sig)

One(e, sig) == IF signature(e) = sig THEN 1 ELSE 0

LEMMA AppendCounts ==
  ASSUME NEW S, NEW s \in Seq(S), NEW e, NEW sig
  PROVE  /\ Count(Append(s, e), sig) = Count(s, sig) + One(e, sig)
         /\ Count(s, sig) \in Nat
<1> DEFINE t == Append(s, e)
           n == Len(s) + 1
           A == {i \in DOMAIN s : signature(s[i]) = sig}
<1>1. /\ DOMAIN s = 1 .. Len(s) /\ Len(s) \in Nat /\ t[n] = e
      /\ \A i \in DOMAIN s : t[i] = s[i] /\ i \in DOMAIN t
      /\ \A i \in DOMAIN t : i \in DOMAIN s \/ i = n
      /\ DOMAIN t = 1 .. n
  BY AppendFacts
<1>2. n \notin DOMAIN s /\ n \in DOMAIN t
  BY <1>1
<1> HIDE DEF t, n
<1>3. {i \in DOMAIN t : signature(t[i]) = sig}
        = IF signature(e) = sig THEN A \cup {n} ELSE A
  BY <1>1, <1>2
<1>4. n \notin A /\ A \in SUBSET (DOMAIN s)
  BY <1>2
<1>5. IsFiniteSet(A) /\ Cardinality(A) \in Nat
  BY <1>4, PositionsFinite, FS_CardinalityType
<1>6. Count(s, sig) = Cardinality(A)
  BY DEF Count
<1> HIDE DEF A
<1>7. Cardinality(A \cup {n}) = Cardinality(A) + 1
  BY <1>4, <1>5, FS_AddElement
<1>8. Count(t, sig) = Cardinality(A) + One(e, sig)
  <2>1. CASE signature(e) = sig
    BY <1>3, <1>7, <2>1 DEF Count, One
  <2>2. CASE signature(e) # sig
    <3>1. Count(t, sig) = Cardinality(A)
      BY <1>3, <2>2 DEF Count
    <3>2. QED
      BY <1>5, <2>2, <3>1 DEF One
  <2>3. QED
    BY <2>1, <2>2
<1>9. QED
  BY <1>5, <1>6, <1>8 DEF t

LEMMA UptoFacts ==
  ASSUME NEW S, NEW a \in Seq(S), NEW n \in Nat, NEW sig
  PROVE  /\ Upto(a, n, sig) \in Nat /\ Upto(a, n, sig) <= Count(a, sig)
         /\ n = Len(a) => Upto(a, n, sig) = Count(a, sig)
         /\ n < Len(a) => Upto(a, n + 1, sig) = Upto(a, n, sig) + One(a[n + 1], sig)
         /\ n <= Len(a) => \A e : Upto(Append(a, e), n, sig) = Upto(a, n, sig)
<1> DEFINE A(k) == {i \in DOMAIN a : i <= k /\ signature(a[i]) = sig}
           B == {i \in DOMAIN a : signature(a[i]) = sig}
<1>1. DOMAIN a = 1 .. Len(a) /\ Len(a) \in Nat
  OBVIOUS
<1>2. A(n) \in SUBSET B /\ B \in SUBSET (DOMAIN a) /\ A(n) \in SUBSET (DOMAIN a)
  OBVIOUS
<1>3. /\ IsFiniteSet(A(n)) /\ IsFiniteSet(B) /\ Cardinality(A(n)) \in Nat
      /\ Cardinality(A(n)) <= Cardinality(B)
  <2>1. IsFiniteSet(A(n)) /\ IsFiniteSet(B)
    BY <1>2, PositionsFinite
  <2> HIDE DEF A, B
  <2>2. QED
    BY <1>2, <2>1, FS_Subset, FS_CardinalityType
<1>4. Upto(a, n, sig) = Cardinality(A(n)) /\ Count(a, sig) = Cardinality(B)
  BY DEF Upto, Count
<1>5. ASSUME n = Len(a) PROVE A(n) = B
  BY <1>1, <1>5
<1>6. ASSUME n < Len(a) PROVE Upto(a, n + 1, sig) = Upto(a, n, sig) + One(a[n + 1], sig)
  <2>1. n + 1 \in DOMAIN a /\ n + 1 \notin A(n)
    BY <1>1, <1>6
  <2>2. \A i \in DOMAIN a : i <= n + 1 <=> i <= n \/ i = n + 1
    BY <1>1
  <2>3. A(n + 1) = IF signature(a[n + 1]) = sig THEN A(n) \cup {n + 1} ELSE A(n)
    BY <2>1, <2>2
  <2>4. Upto(a, n + 1, sig) = Cardinality(A(n + 1))
    BY DEF Upto
  <2> HIDE DEF A
  <2>5. Cardinality(A(n) \cup {n + 1}) = Cardinality(A(n)) + 1
    BY <1>3, <2>1, FS_AddElement
  <2>6. CASE signature(a[n + 1]) = sig
    BY <1>4, <2>3, <2>4, <2>5, <2>6 DEF One
  <2>7. CASE signature(a[n + 1]) # sig
    BY <1>3, <1>4, <2>3, <2>4, <2>7 DEF One
  <2>8. QED
    BY <2>6, <2>7
<1>7. ASSUME n <= Len(a), NEW e PROVE Upto(Append(a, e), n, sig) = Upto(a, n, sig)
  <2> DEFINE b == Append(a, e)
  <2>1. /\ \A i \in DOMAIN a : b[i] = a[i] /\ i \in DOMAIN b
        /\ \A i \in DOMAIN b : i \in DOMAIN a \/ i = Len(a) + 1
    BY AppendFacts
  <2>2. ~(Len(a) + 1 <= n)
    BY <1>1, <1>7
  <2> HIDE DEF b
  <2>3. {i \in DOMAIN b : i <= n /\ signature(b[i]) = sig} = A(n)
    BY <2>1, <2>2
  <2>4. QED
    BY <1>4, <2>3 DEF Upto, b
<1> HIDE DEF A, B
<1>8. QED
  BY <1>3, <1>4, <1>5, <1>6, <1>7

LEMMA MergeBound ==
  ASSUME NEW S, \A e \in S : e.at \in Nat, NEW s \in Seq(S), NEW c \in Seq(S), NEW sig
  PROVE  /\ Count(MergeEvents(s, c), sig) <= Larger(Count(c, sig), Count(s, sig))
         /\ Count(MergeEvents(s, c), sig) \in Nat
<1> DEFINE out == Joint(s, c)
           owned == {signature(s[i]) : i \in DOMAIN s}
           E == OfSignature(S, sig)
<1>1. PICK m : m = MergeEvents(s, c)
  OBVIOUS
<1>2. Reduces(m, out, owned, S)
  BY <1>1, MergeReduces
<1>3. out \in Seq(S) /\ Count(out, sig) = Larger(Count(c, sig), Count(s, sig))
  BY JointCounts
<1> HIDE DEF out
<1>4. m \in Seq(S) /\ CountIn(m, E) <= CountIn(out, E)
  BY <1>2 DEF Reduces
<1>5. Count(m, sig) = CountIn(m, E) /\ Count(out, sig) = CountIn(out, E) /\ Count(m, sig) \in Nat
  BY <1>3, <1>4, CountOfSignature
<1>6. QED
  BY <1>1, <1>3, <1>4, <1>5

LEMMA CountedNext == ASSUME TypeInv, Counted, [Next]_vars PROVE Counted'
<1> DEFINE S == ToSet(said)
<1>1. /\ seen \in 0 .. Len(said) /\ said \in Seq(S) /\ \A x \in S : x.at \in Nat
      /\ server \in Seq(S) /\ browser \in Seq(S) /\ \A s \in sent : s \in Seq(S)
  BY DEF TypeInv
<1>2. Len(said) \in Nat /\ seen \in Nat /\ seen <= Len(said)
  BY <1>1
<1> HIDE DEF S
<1>3. ASSUME NEW sig
      PROVE  /\ Count(server, sig) <= Count(said, sig)
             /\ Count(browser, sig) <= Upto(said, seen, sig)
             /\ \A c \in sent : Count(c, sig) <= Count(said, sig) /\ Count(c, sig) \in Nat
             /\ Count(server, sig) \in Nat /\ Count(browser, sig) \in Nat
             /\ Count(said, sig) \in Nat /\ Upto(said, seen, sig) \in Nat
             /\ Upto(said, seen, sig) <= Count(said, sig)
  <2>1. /\ Count(server, sig) \in Nat /\ Count(browser, sig) \in Nat /\ Count(said, sig) \in Nat
        /\ \A c \in sent : Count(c, sig) \in Nat
    BY <1>1, CountOfSignature
  <2>2. Upto(said, seen, sig) \in Nat /\ Upto(said, seen, sig) <= Count(said, sig)
    BY <1>1, <1>2, UptoFacts
  <2>3. QED
    BY <2>1, <2>2 DEF Counted
<1>4. ASSUME NEW e \in AgentEvents, AgentSays(e) PROVE Counted'
  <2>1. /\ server' = Append(server, e) /\ said' = Append(said, e)
        /\ browser' = browser /\ seen' = seen /\ sent' = sent
    BY <1>4 DEF AgentSays
  <2> SUFFICES ASSUME NEW sig
               PROVE  /\ Count(server', sig) <= Count(said', sig)
                      /\ Count(browser, sig) <= Upto(said', seen, sig)
                      /\ \A c \in sent : Count(c, sig) <= Count(said', sig)
    BY <2>1 DEF Counted
  <2>2. /\ Count(server', sig) = Count(server, sig) + One(e, sig)
        /\ Count(said', sig) = Count(said, sig) + One(e, sig)
    BY <1>1, <2>1, AppendCounts
  <2>3. Upto(said', seen, sig) = Upto(said, seen, sig)
    BY <1>1, <1>2, <2>1, UptoFacts
  <2>4. One(e, sig) \in Nat
    BY DEF One
  <2>5. QED
    BY <1>3, <2>2, <2>3, <2>4
<1>5. ASSUME NEW t \in UserTexts, UserSays(t) PROVE Counted'
  <2>1. PICK e : e = Event("user", t, <<>>, NoRun)
    OBVIOUS
  <2>2. /\ said' = Append(said, e) /\ browser' = Append(browser, e) /\ seen = Len(said)
        /\ seen' = seen + 1 /\ server' = server /\ sent' = sent
    BY <1>5, <2>1 DEF UserSays
  <2> SUFFICES ASSUME NEW sig
               PROVE  /\ Count(server, sig) <= Count(said', sig)
                      /\ Count(browser', sig) <= Upto(said', seen', sig)
                      /\ \A c \in sent : Count(c, sig) <= Count(said', sig)
    BY <2>2 DEF Counted
  <2>3. /\ Count(browser', sig) = Count(browser, sig) + One(e, sig)
        /\ Count(said', sig) = Count(said, sig) + One(e, sig)
    BY <1>1, <2>2, AppendCounts
  <2>4. Upto(said', seen', sig) = Count(said', sig) /\ Upto(said, seen, sig) = Count(said, sig)
    <3>1. said' \in Seq(S \cup {e}) /\ Len(said') = Len(said) + 1
      BY <1>1, <2>2, AppendFacts
    <3>2. Upto(said, seen, sig) = Count(said, sig)
      BY <1>1, <1>2, <2>2, UptoFacts
    <3>3. seen' = Len(said') /\ seen' \in Nat
      BY <1>2, <2>2, <3>1
    <3> HIDE DEF S
    <3>4. PICK b : b = said'
      OBVIOUS
    <3>5. Upto(b, Len(b), sig) = Count(b, sig)
      BY <3>1, <3>3, <3>4, UptoFacts
    <3>6. QED
      BY <3>2, <3>3, <3>4, <3>5
  <2>5. One(e, sig) \in Nat
    BY DEF One
  <2>6. QED
    BY <1>3, <2>3, <2>4, <2>5
<1>6. CASE See
  <2>1. /\ seen < Len(said) /\ browser' = Append(browser, said[seen + 1]) /\ seen' = seen + 1
        /\ server' = server /\ said' = said /\ sent' = sent
    BY <1>6 DEF See
  <2> SUFFICES ASSUME NEW sig PROVE Count(browser', sig) <= Upto(said, seen + 1, sig)
    BY <2>1 DEF Counted
  <2>2. Count(browser', sig) = Count(browser, sig) + One(said[seen + 1], sig)
    BY <1>1, <2>1, AppendCounts
  <2>3. Upto(said, seen + 1, sig) = Upto(said, seen, sig) + One(said[seen + 1], sig)
    BY <1>1, <1>2, <2>1, UptoFacts
  <2>4. One(said[seen + 1], sig) \in Nat
    BY DEF One
  <2>5. QED
    BY <1>3, <2>2, <2>3, <2>4
<1>7. CASE Send
  <2>1. /\ sent' = sent \cup {browser} /\ server' = server /\ browser' = browser
        /\ said' = said /\ seen' = seen
    BY <1>7 DEF Send
  <2>2. \A sig : Count(browser, sig) <= Count(said, sig)
    BY <1>3
  <2>3. QED
    BY <2>1, <2>2 DEF Counted
<1>8. CASE Reload
  <2>1. /\ browser' = MergeEvents(server, browser) /\ server' = MergeEvents(server, browser)
        /\ seen' = Len(said) /\ said' = said /\ sent' = sent
    BY <1>8 DEF Reload
  <2> SUFFICES ASSUME NEW sig
               PROVE  /\ Count(server', sig) <= Count(said, sig)
                      /\ Count(server', sig) <= Upto(said, Len(said), sig)
    BY <2>1 DEF Counted
  <2>2. /\ Count(server', sig) <= Larger(Count(browser, sig), Count(server, sig))
        /\ Count(server', sig) \in Nat
    BY <1>1, <2>1, MergeBound
  <2>3. Upto(said, Len(said), sig) = Count(said, sig)
    BY <1>1, <1>2, UptoFacts
  <2>4. QED
    BY <1>3, <2>2, <2>3 DEF Larger
<1>9. ASSUME NEW c \in sent, Arrive(c) PROVE Counted'
  <2>1. /\ server' = MergeEvents(server, c) /\ browser' = browser /\ said' = said
        /\ seen' = seen /\ sent' = sent
    BY <1>9 DEF Arrive
  <2> SUFFICES ASSUME NEW sig PROVE Count(server', sig) <= Count(said, sig)
    BY <2>1 DEF Counted
  <2>2. /\ Count(server', sig) <= Larger(Count(c, sig), Count(server, sig))
        /\ Count(server', sig) \in Nat
    BY <1>1, <2>1, MergeBound
  <2>3. QED
    BY <1>3, <2>2 DEF Larger
<1>10. CASE UNCHANGED vars
  BY <1>10 DEF vars, Counted
<1>11. QED
  BY <1>4, <1>5, <1>6, <1>7, <1>8, <1>9, <1>10 DEF Next

----------------------------------------------------------------------------
(* The last terminal marker of a run.                                      *)

Chronological(s) == \A i, j \in DOMAIN s : i < j => s[i].at <= s[j].at

(* The server is in the order of the times, and it has the last marker of  *)
(* every run, unless that one has the time of another of the run.          *)
MarkersKept ==
  /\ Chronological(said) /\ Chronological(server) /\ \A e \in ToSet(said) : e.at <= now
  /\ \A e \in ToSet(said) : Terminal(e) => e.kind # "assistant"
  /\ \A r : r # NoRun => \A i \in DOMAIN said :
       IsLatest(said, i, r) /\ ~Tied(i, r) => said[i] \in ToSet(server)

LEMMA AppendChronological ==
  ASSUME NEW S, NEW s \in Seq(S), Chronological(s), NEW e, \A i \in DOMAIN s : s[i].at <= e.at
  PROVE  Chronological(Append(s, e))
<1> DEFINE t == Append(s, e)
<1>1. /\ \A i \in DOMAIN s : t[i] = s[i] /\ t[Len(s) + 1] = e
      /\ \A i \in DOMAIN t : i \in DOMAIN s \/ i = Len(s) + 1
      /\ DOMAIN t = 1 .. (Len(s) + 1) /\ DOMAIN s = 1 .. Len(s) /\ Len(s) \in Nat
  BY AppendFacts
<1> HIDE DEF t
<1>2. ASSUME NEW i \in DOMAIN t, NEW j \in DOMAIN t, i < j PROVE t[i].at <= t[j].at
  <2>1. i \in DOMAIN s
    BY <1>1, <1>2
  <2>2. CASE j \in DOMAIN s
    BY <1>1, <1>2, <2>1, <2>2 DEF Chronological
  <2>3. CASE j = Len(s) + 1
    BY <1>1, <2>1, <2>3
  <2>4. QED
    BY <1>1, <2>2, <2>3
<1>3. QED
  BY <1>2 DEF Chronological, t

(* An event of a run that is not before its last marker is that marker.    *)
LEMMA NotBeforeLast ==
  ASSUME NEW i \in DOMAIN said, NEW r, IsLatest(said, i, r), ~Tied(i, r), Chronological(said),
         said \in Seq(ToSet(said)), \A e \in ToSet(said) : e.at \in Nat,
         NEW y \in ToSet(said), terminalRun(y.name) = r, said[i].at <= y.at
  PROVE  y = said[i]
<1>1. PICK q \in DOMAIN said : said[q] = y
  BY DEF ToSet
<1>2. q <= i
  BY <1>1 DEF IsLatest
<1>3. said[i].at \in Nat /\ said[q].at \in Nat /\ i \in Nat /\ q \in Nat
  BY DEF ToSet
<1>4. said[q].at <= said[i].at
  BY <1>2, <1>3 DEF Chronological
<1>5. said[q].at = said[i].at
  BY <1>1, <1>3, <1>4
<1>6. q = i
  BY <1>1, <1>5 DEF Tied
<1>7. QED
  BY <1>1, <1>6

(* A merge keeps the last markers and the order of the times.              *)
LEMMA MergeMarkers ==
  ASSUME TypeInv, MarkersKept, NEW c \in Seq(ToSet(said)), Merges(c), said' = said, now' = now
  PROVE  MarkersKept'
<1> DEFINE S == ToSet(said)
           out == Joint(server, c)
           owned == {signature(server[i]) : i \in DOMAIN server}
<1>1. PICK m : m = server'
  OBVIOUS
<1>2. (\A e \in S : e.at \in Nat) /\ server \in Seq(S) /\ said \in Seq(S)
  BY DEF TypeInv
<1>3. Reduces(m, out, owned, S)
  BY <1>1, <1>2, MergeReduces DEF Merges
<1>4. out \in Seq(S) /\ ToSet(server) \subseteq ToSet(out)
  BY <1>2, JointCounts
<1> HIDE DEF out, owned
<1>5. /\ m \in Seq(S)
      /\ \A k, l \in DOMAIN m : k < l => Precedes(m[k], m[l], owned)
      /\ \A x \in ToSet(out) : Terminal(x) /\ x.kind # "assistant" =>
           \E y \in ToSet(m) : terminalRun(y.name) = terminalRun(x.name) /\ x.at <= y.at
  BY <1>3 DEF Reduces
<1>6. Chronological(m)
  <2>1. \A k \in DOMAIN m : m[k].at \in Nat
    BY <1>2, <1>5
  <2>2. QED
    BY <1>5, <2>1 DEF Chronological, Precedes
<1>7. ASSUME NEW r, r # NoRun, NEW i \in DOMAIN said, IsLatest(said, i, r), ~Tied(i, r)
      PROVE  said[i] \in ToSet(m)
  <2>1. said[i] \in ToSet(out)
    BY <1>4, <1>7 DEF MarkersKept
  <2>2. terminalRun(said[i].name) = r /\ said[i] \in S
    BY <1>7 DEF IsLatest, ToSet
  <2>3. Terminal(said[i]) /\ said[i].kind # "assistant"
    BY <1>7, <2>2 DEF Terminal, MarkersKept
  <2>4. PICK y \in ToSet(m) : terminalRun(y.name) = r /\ said[i].at <= y.at
    BY <1>5, <2>1, <2>2, <2>3
  <2>5. y \in S
    BY <1>5 DEF ToSet
  <2>6. y = said[i]
    BY <1>2, <1>7, <2>4, <2>5, NotBeforeLast DEF MarkersKept
  <2>7. QED
    BY <2>4, <2>6
<1>8. \A i, r : Tied(i, r)' <=> Tied(i, r)
  BY DEF Tied
<1>9. QED
  BY <1>1, <1>6, <1>7, <1>8 DEF MarkersKept

(* Something is said, on the server or, by the user, in the browser.       *)
LEMMA SayMarkers ==
  ASSUME TypeInv, MarkersKept, NEW e, e.at = now, Terminal(e) => e.kind # "assistant",
         said' = Append(said, e), now' \in Later,
         \/ server' = Append(server, e)
         \/ server' = server /\ ~Terminal(e)
  PROVE  MarkersKept'
<1> DEFINE S == ToSet(said)
<1>1. /\ (\A x \in S : x.at \in Nat) /\ server \in Seq(S) /\ said \in Seq(S) /\ now \in Nat
      /\ \A x \in S : x.at <= now
  BY DEF TypeInv, MarkersKept
<1>2. /\ \A i \in DOMAIN said : said'[i] = said[i] /\ i \in DOMAIN said'
      /\ said'[Len(said) + 1] = e
      /\ \A i \in DOMAIN said' : i \in DOMAIN said \/ i = Len(said) + 1
      /\ Len(said) + 1 \in DOMAIN said'
      /\ DOMAIN said = 1 .. Len(said) /\ Len(said) \in Nat
      /\ ToSet(said') = S \cup {e}
  <2> DEFINE b == Append(said, e)
  <2>1. /\ \A i \in DOMAIN said : b[i] = said[i] /\ i \in DOMAIN b
        /\ b[Len(said) + 1] = e /\ DOMAIN b = 1 .. (Len(said) + 1)
        /\ \A i \in DOMAIN b : i \in DOMAIN said \/ i = Len(said) + 1
        /\ DOMAIN said = 1 .. Len(said) /\ Len(said) \in Nat
        /\ ToSet(b) = ToSet(said) \cup {e}
    BY <1>1, AppendFacts
  <2>2. Len(said) + 1 \in DOMAIN b
    BY <2>1
  <2> HIDE DEF b
  <2>3. said' = b
    BY DEF b
  <2>4. QED
    BY <2>1, <2>2, <2>3
<1>3. (\A i \in DOMAIN said : said[i].at <= e.at) /\ \A i \in DOMAIN server : server[i].at <= e.at
  BY <1>1 DEF ToSet
<1>4. Chronological(said')
  BY <1>1, <1>3, AppendChronological DEF MarkersKept
<1>5. Chronological(server') /\ ToSet(server) \subseteq ToSet(server')
  <2>1. CASE server' = Append(server, e)
    <3>1. ToSet(server') = ToSet(server) \cup {e}
      BY <1>1, <2>1, AppendFacts
    <3>2. QED
      BY <1>1, <1>3, <2>1, <3>1, AppendChronological DEF MarkersKept
  <2>2. CASE server' = server
    BY <2>2 DEF MarkersKept
  <2>3. QED
    BY <2>1, <2>2
<1>6. now' \in Nat /\ now <= now'
  BY <1>1 DEF Later
<1>7. \A x \in ToSet(said') : x.at <= now' /\ (Terminal(x) => x.kind # "assistant")
  BY <1>1, <1>2, <1>6 DEF MarkersKept
<1>8. ASSUME NEW r, r # NoRun, NEW i \in DOMAIN said', IsLatest(said', i, r), ~Tied(i, r)'
      PROVE  said'[i] \in ToSet(server')
  <2>1. CASE i = Len(said) + 1
    <3>1. Terminal(e)
      BY <1>2, <1>8, <2>1 DEF IsLatest, Terminal
    <3>2. server' = Append(server, e)
      BY <3>1
    <3>3. ToSet(server') = ToSet(server) \cup {e}
      BY <1>1, <3>2, AppendFacts
    <3>4. QED
      BY <1>2, <2>1, <3>3
  <2>2. CASE i \in DOMAIN said
    <3>1. IsLatest(said, i, r)
      BY <1>2, <1>8, <2>2 DEF IsLatest
    <3>2. ~Tied(i, r)
      BY <1>2, <1>8, <2>2 DEF Tied
    <3>3. said[i] \in ToSet(server)
      BY <1>8, <2>2, <3>1, <3>2 DEF MarkersKept
    <3>4. QED
      BY <1>2, <1>5, <2>2, <3>3
  <2>3. QED
    BY <1>2, <2>1, <2>2
<1>9. QED
  BY <1>4, <1>5, <1>7, <1>8 DEF MarkersKept

LEMMA MarkersNext == ASSUME TypeInv, MarkersKept, [Next]_vars PROVE MarkersKept'
<1>1. ASSUME NEW e \in AgentEvents, AgentSays(e) PROVE MarkersKept'
  <2>1. /\ e.at = now
        /\ e.name = <<>> \/ (\E r : e.name = <<"repl", r>>) \/ e.kind = "done"
    BY DEF AgentEvents, Event
  <2>2. Terminal(e) => e.kind # "assistant"
    <3>1. CASE e.name = <<>>
      <4>1. terminalRun(e.name) = NoRun
        BY <3>1 DEF terminalRun
      <4>2. QED
        BY <4>1 DEF Terminal
    <3>2. ASSUME NEW r, e.name = <<"repl", r>> PROVE ~Terminal(e)
      <4>1. Len(<<"repl", r>>) = 2
        OBVIOUS
      <4>2. terminalRun(e.name) = NoRun
        BY <3>2, <4>1 DEF terminalRun
      <4>3. QED
        BY <4>2 DEF Terminal
    <3>3. CASE e.kind = "done"
      BY <3>3
    <3>4. QED
      BY <2>1, <3>1, <3>2, <3>3
  <2>3. QED
    BY <1>1, <2>1, <2>2, SayMarkers DEF AgentSays
<1>2. ASSUME NEW t \in UserTexts, UserSays(t) PROVE MarkersKept'
  <2>1. PICK e : e = Event("user", t, <<>>, NoRun)
    OBVIOUS
  <2>2. e.at = now /\ ~Terminal(e)
    BY <2>1 DEF Event, Terminal, terminalRun
  <2>3. said' = Append(said, e) /\ now' \in Later /\ server' = server
    BY <1>2, <2>1 DEF UserSays
  <2>4. QED
    BY <2>2, <2>3, SayMarkers
<1>3. ASSUME server' = server, said' = said, now' = now PROVE MarkersKept'
  BY <1>3 DEF MarkersKept, Tied
<1>4. CASE See \/ Send \/ UNCHANGED vars
  BY <1>3, <1>4 DEF See, Send, vars
<1>5. CASE Reload
  <2>1. Merges(browser) /\ said' = said /\ now' = now /\ browser \in Seq(ToSet(said))
    BY <1>5 DEF Reload, Merges, TypeInv
  <2>2. QED
    BY <2>1, MergeMarkers
<1>6. ASSUME NEW c \in sent, Arrive(c) PROVE MarkersKept'
  <2>1. Merges(c) /\ said' = said /\ now' = now /\ c \in Seq(ToSet(said))
    BY <1>6 DEF Arrive, Merges, TypeInv
  <2>2. QED
    BY <2>1, MergeMarkers
<1>7. QED
  BY <1>1, <1>2, <1>4, <1>5, <1>6 DEF Next

LEMMA LatestStays == TypeInv /\ MarkersKept => LatestTerminal
<1> SUFFICES ASSUME TypeInv, MarkersKept, NEW t \in Terminals, NEW i \in DOMAIN said,
                    IsLatest(said, i, t[1]), ~Tied(i, t[1])
             PROVE  LatestOnServer(i, t[1])
  BY DEF LatestTerminal
<1> DEFINE r == t[1]
           K == {k \in DOMAIN server : terminalRun(server[k].name) = r}
<1>1. /\ r # NoRun /\ terminalRun(said[i].name) = r
      /\ server \in Seq(ToSet(said)) /\ said \in Seq(ToSet(said))
      /\ \A e \in ToSet(said) : e.at \in Nat
  BY RunAssumption DEF IsLatest, TypeInv
<1>2. PICK k0 \in DOMAIN server : server[k0] = said[i]
  BY <1>1 DEF MarkersKept, ToSet
<1>3. K \in SUBSET (DOMAIN server) /\ k0 \in K
      /\ \A k \in DOMAIN server : k \in K <=> terminalRun(server[k].name) = r
  BY <1>1, <1>2
<1> HIDE DEF K
<1>4. PICK k \in K : \A j \in K : j <= k
  BY <1>1, <1>3, LargestPosition
<1>5. said[i].at <= server[k].at
  <2>1. k0 <= k /\ k0 \in Nat /\ k \in Nat /\ server[k].at \in Nat
    BY <1>1, <1>3, <1>4
  <2>2. QED
    BY <1>2, <1>3, <1>4, <2>1 DEF MarkersKept, Chronological
<1>6. server[k] \in ToSet(said) /\ terminalRun(server[k].name) = r
  BY <1>1, <1>3, <1>4
<1>7. server[k] = said[i]
  BY <1>1, <1>5, <1>6, NotBeforeLast DEF MarkersKept
<1>8. IsLatest(server, k, r)
  BY <1>3, <1>4 DEF IsLatest
<1>9. QED
  BY <1>3, <1>4, <1>7, <1>8 DEF LatestOnServer

----------------------------------------------------------------------------
(* The order of arrival.                                                   *)

LEMMA SameGone ==
  ASSUME NEW a, TellsRun(a), NEW e \in ToSet(a), NEW f \in ToSet(a),
         signature(e) = signature(f), NEW s
  PROVE  (Gone(e, s) <=> Gone(f, s)) /\ (Terminal(e) <=> Terminal(f))
<1>1. e.kind = f.kind /\ e.text = f.text /\ e.name = f.name
  BY DEF signature
<1>2. e.run = f.run
  BY DEF TellsRun
<1>3. QED
  BY <1>1, <1>2 DEF Gone, Fragment, Covers, Terminal

(* What covers an event is told by its signature.                          *)
LEMMA GoneBySignature ==
  ASSUME NEW s, NEW t, NEW e, Gone(e, s),
         \A j \in DOMAIN s : \E k \in DOMAIN t : signature(t[k]) = signature(s[j])
  PROVE  Gone(e, t)
<1>1. PICK j \in DOMAIN s : Covers(s[j], e)
  BY DEF Gone
<1>2. PICK k \in DOMAIN t : signature(t[k]) = signature(s[j])
  OBVIOUS
<1>3. t[k].kind = s[j].kind /\ t[k].text = s[j].text /\ t[k].name = s[j].name
  BY <1>2 DEF signature
<1>4. QED
  BY <1>1, <1>3 DEF Gone, Covers

LEMMA CountPositive ==
  ASSUME NEW S, NEW s \in Seq(S), NEW sig
  PROVE  Count(s, sig) # 0 <=> \E k \in DOMAIN s : signature(s[k]) = sig
<1> DEFINE A == {k \in DOMAIN s : signature(s[k]) = sig}
<1>1. A \in SUBSET (DOMAIN s)
  OBVIOUS
<1>2. A # {} <=> \E k \in DOMAIN s : signature(s[k]) = sig
  OBVIOUS
<1> HIDE DEF A
<1>3. Cardinality(A) # 0 <=> A # {}
  BY <1>1, PositionsFinite, FS_EmptySet
<1>4. QED
  BY <1>2, <1>3 DEF Count, A

(* Which fragments a merge supersedes, and how many events of a signature  *)
(* it has otherwise: both symmetric in the two sides.                      *)
LEMMA MergeContents ==
  ASSUME NEW a, TellsRun(a), \A x \in ToSet(a) : x.at \in Nat,
         NEW s \in Seq(ToSet(a)), NEW c \in Seq(ToSet(a)),
         NEW e \in ToSet(a), ~Terminal(e)
  PROVE  /\ MergeEvents(s, c) \in Seq(ToSet(a))
         /\ Gone(e, MergeEvents(s, c)) <=> Gone(e, s) \/ Gone(e, c)
         /\ Count(MergeEvents(s, c), signature(e)) =
              IF Gone(e, s) \/ Gone(e, c) THEN 0
              ELSE Larger(Count(c, signature(e)), Count(s, signature(e)))
<1> DEFINE S == ToSet(a)
           out == Joint(s, c)
           owned == {signature(s[i]) : i \in DOMAIN s}
           sig == signature(e)
           E == OfSignature(S, sig)
<1>1. PICK m : m = MergeEvents(s, c)
  OBVIOUS
<1>2. Reduces(m, out, owned, S)
  BY <1>1, MergeReduces
<1>3. /\ out \in Seq(S) /\ ToSet(s) \subseteq ToSet(out)
      /\ ToSet(out) \subseteq ToSet(s) \cup ToSet(c)
      /\ \A z : Count(out, z) = Larger(Count(c, z), Count(s, z))
  BY JointCounts
<1> HIDE DEF out, owned
<1>4. /\ m \in Seq(S) /\ ToSet(m) \subseteq ToSet(out)
      /\ (\A x \in E : Gone(x, out)) => CountIn(m, E) = 0
      /\ (\A x \in E : ~Terminal(x) /\ ~Gone(x, out)) => CountIn(m, E) = CountIn(out, E)
      /\ \A x \in ToSet(out) : replacementRun(x.name) # NoRun => x \in ToSet(m)
  BY <1>2 DEF Reduces
<1>5. Gone(e, s) \/ Gone(e, c) => Gone(e, out)
  <2>1. Gone(e, s) => Gone(e, out)
    BY <1>3 DEF Gone, ToSet
  <2>2. ASSUME Gone(e, c) PROVE Gone(e, out)
    <3>1. ASSUME NEW j \in DOMAIN c
          PROVE  \E k \in DOMAIN out : signature(out[k]) = signature(c[j])
      <4>1. Count(c, signature(c[j])) # 0
        BY CountPositive
      <4>2. /\ Count(c, signature(c[j])) \in Nat /\ Count(s, signature(c[j])) \in Nat
        BY CountOfSignature
      <4>3. Count(out, signature(c[j])) # 0
        BY <1>3, <4>1, <4>2 DEF Larger
      <4>4. QED
        BY <1>3, <4>3, CountPositive
    <3>2. QED
      BY <2>2, <3>1, GoneBySignature
  <2>3. QED
    BY <2>1, <2>2
<1>6. Gone(e, out) => Gone(e, s) \/ Gone(e, c)
  BY <1>3 DEF Gone, ToSet
<1>7. Gone(e, m) <=> Gone(e, out)
  <2>1. Gone(e, m) => Gone(e, out)
    BY <1>4 DEF Gone, ToSet
  <2>2. ASSUME Gone(e, out) PROVE Gone(e, m)
    <3>1. PICK j \in DOMAIN out : Covers(out[j], e)
      BY <2>2 DEF Gone
    <3>2. replacementRun(out[j].name) # NoRun /\ out[j] \in ToSet(out)
      BY <2>2, <3>1 DEF Gone, Fragment, Covers, ToSet
    <3>3. out[j] \in ToSet(m)
      BY <1>4, <3>2
    <3>4. QED
      BY <2>2, <3>1, <3>3 DEF Gone, ToSet
  <2>3. QED
    BY <2>1, <2>2
<1>8. \A x \in E : (Gone(x, out) <=> Gone(e, out)) /\ ~Terminal(x)
  BY SameGone DEF OfSignature
<1>9. Count(m, sig) = CountIn(m, E) /\ Count(out, sig) = CountIn(out, E)
  BY <1>3, <1>4, CountOfSignature
<1>10. Count(m, sig) = IF Gone(e, out) THEN 0 ELSE Larger(Count(c, sig), Count(s, sig))
  <2>1. CASE Gone(e, out)
    BY <1>4, <1>8, <1>9, <2>1
  <2>2. CASE ~Gone(e, out)
    BY <1>3, <1>4, <1>8, <1>9, <2>2
  <2>3. QED
    BY <2>1, <2>2
<1>11. QED
  BY <1>1, <1>4, <1>5, <1>6, <1>7, <1>10

(* Merging again and merging in another order give the same events, except *)
(* for terminal markers, and in the order of the times.                    *)
LEMMA ContentsAgree ==
  ASSUME TypeInv, TellsRun(said), NEW c \in Seq(ToSet(said)), NEW d \in Seq(ToSet(said))
  PROVE  /\ SameContents(MergeEvents(MergeEvents(server, c), c), MergeEvents(server, c))
         /\ SameContents(MergeEvents(MergeEvents(server, c), d),
                         MergeEvents(MergeEvents(server, d), c))
<1> SUFFICES ASSUME NEW e \in ToSet(said), ~Terminal(e)
             PROVE  /\ Count(MergeEvents(MergeEvents(server, c), c), signature(e))
                         = Count(MergeEvents(server, c), signature(e))
                    /\ Count(MergeEvents(MergeEvents(server, c), d), signature(e))
                         = Count(MergeEvents(MergeEvents(server, d), c), signature(e))
  BY DEF SameContents, Terminal
<1> DEFINE S == ToSet(said)
           sig == signature(e)
<1>1. (\A x \in S : x.at \in Nat) /\ server \in Seq(S)
  BY DEF TypeInv
<1>2. PICK m, n : m = MergeEvents(server, c) /\ n = MergeEvents(server, d)
  OBVIOUS
<1>3. PICK u, v, w : /\ u = MergeEvents(m, c) /\ v = MergeEvents(m, d)
                     /\ w = MergeEvents(n, c)
  OBVIOUS
<1>4. /\ m \in Seq(S)
      /\ Gone(e, m) <=> Gone(e, server) \/ Gone(e, c)
      /\ Count(m, sig) = IF Gone(e, server) \/ Gone(e, c) THEN 0
                         ELSE Larger(Count(c, sig), Count(server, sig))
  BY <1>1, <1>2, MergeContents
<1>5. /\ n \in Seq(S)
      /\ Gone(e, n) <=> Gone(e, server) \/ Gone(e, d)
      /\ Count(n, sig) = IF Gone(e, server) \/ Gone(e, d) THEN 0
                         ELSE Larger(Count(d, sig), Count(server, sig))
  BY <1>1, <1>2, MergeContents
<1> HIDE DEF S
<1>6. /\ Count(u, sig) = IF Gone(e, m) \/ Gone(e, c) THEN 0
                         ELSE Larger(Count(c, sig), Count(m, sig))
      /\ Count(v, sig) = IF Gone(e, m) \/ Gone(e, d) THEN 0
                         ELSE Larger(Count(d, sig), Count(m, sig))
      /\ Count(w, sig) = IF Gone(e, n) \/ Gone(e, c) THEN 0
                         ELSE Larger(Count(c, sig), Count(n, sig))
  BY <1>1, <1>3, <1>4, <1>5, MergeContents DEF S
<1>7. Count(c, sig) \in Nat /\ Count(d, sig) \in Nat /\ Count(server, sig) \in Nat
  BY <1>1, CountOfSignature
<1>8. Count(u, sig) = Count(m, sig)
  <2>1. CASE Gone(e, server) \/ Gone(e, c)
    BY <1>4, <1>6, <2>1
  <2>2. CASE ~(Gone(e, server) \/ Gone(e, c))
    BY <1>4, <1>6, <1>7, <2>2 DEF Larger
  <2>3. QED
    BY <2>1, <2>2
<1>9. Count(v, sig) = Count(w, sig)
  <2>1. CASE Gone(e, server) \/ Gone(e, c) \/ Gone(e, d)
    BY <1>4, <1>5, <1>6, <2>1
  <2>2. CASE ~(Gone(e, server) \/ Gone(e, c) \/ Gone(e, d))
    <3>1. /\ Count(v, sig) = Larger(Count(d, sig), Larger(Count(c, sig), Count(server, sig)))
          /\ Count(w, sig) = Larger(Count(c, sig), Larger(Count(d, sig), Count(server, sig)))
      BY <1>4, <1>5, <1>6, <2>2
    <3>2. QED
      BY <1>7, <3>1 DEF Larger
  <2>3. QED
    BY <2>1, <2>2
<1>10. QED
  BY <1>2, <1>3, <1>8, <1>9

----------------------------------------------------------------------------
(* The invariant while times and signatures tell the events apart.         *)

Clear(a) == TellsRun(a) /\ TimesDiffer(a)

Ordered(s) == \A i, j \in DOMAIN s : i < j => s[i].at < s[j].at

(* What a merge may not drop while a is what was said.                     *)
Durable(e, a) == ~Terminal(e) /\ ~Gone(e, a)

(* What was said: in the order of its times, a run to each text.           *)
Spoken(a) ==
  /\ a \in Seq(ToSet(a)) /\ Ordered(a)
  /\ \A e \in ToSet(a) : e.at \in Nat /\ (Terminal(e) => e.kind # "assistant")
  /\ TellsRun(a)

(* Of the durable occurrences of one signature a transcript has the first  *)
(* ones: this is what makes counting them as good as comparing them.       *)
Closed(s, a) ==
  \A i, j \in DOMAIN a :
    /\ i < j /\ signature(a[i]) = signature(a[j])
    /\ Durable(a[j], a) /\ a[j] \in ToSet(s)
    => a[i] \in ToSet(s)

Transcript(s, a) == s \in Seq(ToSet(a)) /\ Ordered(s) /\ Closed(s, a)

(* The server has what the agent said, but for what may be dropped, and    *)
(* the last terminal marker of every run.                                  *)
Recorded(s, a) ==
  /\ \A i \in DOMAIN a : a[i].kind # "user" /\ Durable(a[i], a) => a[i] \in ToSet(s)
  /\ \A i \in DOMAIN a :
       Terminal(a[i]) /\ IsLatest(a, i, terminalRun(a[i].name)) => a[i] \in ToSet(s)

(* The browser has what it took note of, but for what may be dropped.      *)
Noted ==
  /\ \A e \in ToSet(browser) : \E i \in 1 .. seen : said[i] = e
  /\ \A i \in 1 .. seen : Durable(said[i], said) => said[i] \in ToSet(browser)
  /\ \A i \in DOMAIN said : said[i].kind = "user" => i <= seen

(* The kinds of events: a user's, a fragment, a replacement, a marker.     *)
Shaped(e) ==
  \/ e.kind = "user" /\ e.name = <<>>
  \/ e.kind = "assistant" /\ e.name = <<>>
  \/ e.kind = "assistant" /\ \E r : e.name = <<"repl", r>>
  \/ e.kind = "done"

Inv ==
  /\ now \in Nat /\ seen \in 0 .. Len(said)
  /\ Spoken(said) /\ \A e \in ToSet(said) : e.at <= now /\ Shaped(e)
  /\ \A s \in {server, browser} \cup sent : Transcript(s, said)
  /\ Recorded(server, said)
  /\ Noted

----------------------------------------------------------------------------
(* What was said and what is held of it.                                   *)

LEMMA SpokenFacts ==
  ASSUME NEW a, Spoken(a)
  PROVE  /\ \A e, f \in ToSet(a) : e.at = f.at => e = f
         /\ \A i, j \in DOMAIN a : a[i].at <= a[j].at => i <= j
         /\ \A i, j \in DOMAIN a : a[i].at < a[j].at => i < j
         /\ \A e \in ToSet(a) : e.at \in Nat
         /\ DOMAIN a \in SUBSET Nat
<1>1. a \in Seq(ToSet(a)) /\ Ordered(a) /\ \A e \in ToSet(a) : e.at \in Nat
  BY DEF Spoken
<1>2. DOMAIN a \in SUBSET Nat /\ \A i \in DOMAIN a : a[i].at \in Nat
  BY <1>1 DEF ToSet
<1>3. \A i, j \in DOMAIN a : i < j => a[i].at < a[j].at
  BY <1>1 DEF Ordered
<1>4. \A i, j \in DOMAIN a : a[i].at <= a[j].at => i <= j
  BY <1>2, <1>3
<1>5. \A i, j \in DOMAIN a : a[i].at < a[j].at => i < j
  BY <1>2, <1>3
<1>6. \A i, j \in DOMAIN a : a[i].at = a[j].at => i = j
  BY <1>2, <1>3
<1>7. \A e, f \in ToSet(a) : e.at = f.at => e = f
  BY <1>6 DEF ToSet
<1>8. QED
  BY <1>1, <1>2, <1>4, <1>5, <1>7

LEMMA TranscriptFacts ==
  ASSUME NEW a, Spoken(a), NEW s, Transcript(s, a)
  PROVE  /\ \A i \in DOMAIN s : s[i] \in ToSet(a) /\ s[i].at \in Nat
         /\ \A i, j \in DOMAIN s : s[i].at < s[j].at => i < j
         /\ \A i, j \in DOMAIN s : s[i] = s[j] => i = j
         /\ DOMAIN s \in SUBSET Nat /\ Len(s) \in Nat /\ DOMAIN s = 1 .. Len(s)
<1>1. s \in Seq(ToSet(a)) /\ Ordered(s)
  BY DEF Transcript
<1>2. DOMAIN s \in SUBSET Nat /\ Len(s) \in Nat /\ DOMAIN s = 1 .. Len(s)
      /\ \A i \in DOMAIN s : s[i] \in ToSet(a)
  BY <1>1
<1>3. \A i \in DOMAIN s : s[i].at \in Nat
  BY <1>2, SpokenFacts
<1>4. \A i, j \in DOMAIN s : i < j => s[i].at < s[j].at
  BY <1>1 DEF Ordered
<1>5. \A i, j \in DOMAIN s : s[i].at < s[j].at => i < j
  BY <1>2, <1>3, <1>4
<1>6. \A i, j \in DOMAIN s : s[i] = s[j] => i = j
  BY <1>2, <1>3, <1>4
<1>7. QED
  BY <1>2, <1>3, <1>5, <1>6

(* Whether an event may be dropped is told by its signature.               *)
LEMMA SignatureTells ==
  ASSUME NEW a, Spoken(a), NEW e \in ToSet(a), NEW f \in ToSet(a),
         signature(e) = signature(f)
  PROVE  Durable(e, a) => Durable(f, a)
<1>1. e.kind = f.kind /\ e.text = f.text /\ e.name = f.name
  BY DEF signature
<1>2. Terminal(e) <=> Terminal(f)
  BY <1>1 DEF Terminal
<1>3. Gone(f, a) => Gone(e, a)
  <2> HAVE Gone(f, a)
  <2>1. e.run = f.run
    BY <1>1 DEF Spoken, TellsRun
  <2>2. QED
    BY <1>1, <2>1 DEF Gone, Fragment, Covers
<1>4. QED
  BY <1>2, <1>3 DEF Durable

(* Of two transcripts, one that has a durable event has every earlier one  *)
(* of that signature that the other has.                                   *)
LEMMA EarlierHeld ==
  ASSUME NEW a, Spoken(a), NEW s, Transcript(s, a), NEW e \in ToSet(a), NEW f \in ToSet(s),
         f \in ToSet(a), signature(e) = signature(f), Durable(f, a), e.at <= f.at
  PROVE  e \in ToSet(s)
<1>1. PICK i \in DOMAIN a, j \in DOMAIN a : a[i] = e /\ a[j] = f
  BY DEF ToSet
<1>2. i <= j /\ i \in Nat /\ j \in Nat
  BY <1>1, SpokenFacts
<1>3. CASE i = j
  BY <1>1, <1>3
<1>4. CASE i < j
  BY <1>1, <1>4 DEF Transcript, Closed
<1>5. QED
  BY <1>2, <1>3, <1>4

(* For durable events, counting occurrences is comparing events.           *)
LEMMA UnmatchedIsMissing ==
  ASSUME NEW a, Spoken(a), NEW s, Transcript(s, a), NEW c, Transcript(c, a),
         NEW j \in DOMAIN c, Durable(c[j], a)
  PROVE  j \in Unmatched(s, c) <=> c[j] \notin ToSet(s)
<1> DEFINE sig == signature(c[j])
           A == {i \in 1 .. j : signature(c[i]) = sig}
           B == {i \in DOMAIN s : signature(s[i]) = sig}
<1>1. /\ \A i \in DOMAIN c : c[i] \in ToSet(a) /\ c[i].at \in Nat
      /\ \A i, k \in DOMAIN c : c[i].at < c[k].at => i < k
      /\ \A i, k \in DOMAIN c : c[i] = c[k] => i = k
      /\ DOMAIN c = 1 .. Len(c) /\ Len(c) \in Nat
  BY TranscriptFacts
<1>2. /\ \A i \in DOMAIN s : s[i] \in ToSet(a) /\ s[i].at \in Nat
      /\ \A i, k \in DOMAIN s : s[i] = s[k] => i = k
      /\ DOMAIN s = 1 .. Len(s) /\ Len(s) \in Nat
  BY TranscriptFacts
<1>3. /\ j \in 1 .. j /\ 1 .. j \in SUBSET (DOMAIN c)
      /\ IsFiniteSet(1 .. j) /\ IsFiniteSet(DOMAIN s)
  <2>1. j \in Nat /\ 1 <= j /\ j <= Len(c)
    BY <1>1
  <2>2. j \in 1 .. j /\ 1 .. j \in SUBSET (DOMAIN c)
    BY <1>1, <2>1
  <2>3. IsFiniteSet(1 .. j) /\ IsFiniteSet(1 .. Len(s))
    BY <1>2, <2>1, FS_Interval
  <2>4. QED
    BY <1>2, <2>2, <2>3
<1>4. /\ j \in A /\ IsFiniteSet(A) /\ IsFiniteSet(B)
      /\ Cardinality(A) \in Nat /\ Cardinality(B) \in Nat
  BY <1>3, FS_Subset, FS_CardinalityType
<1>5. Count(SubSeq(c, 1, j), sig) = Cardinality(A)
  <2>1. c \in Seq(ToSet(a)) /\ j \in 1 .. Len(c)
    BY <1>1 DEF Transcript
  <2>2. DOMAIN SubSeq(c, 1, j) = 1 .. j /\ \A i \in 1 .. j : SubSeq(c, 1, j)[i] = c[i]
    BY <1>1, <2>1
  <2>3. {i \in DOMAIN SubSeq(c, 1, j) : signature(SubSeq(c, 1, j)[i]) = sig} = A
    BY <2>2
  <2>4. QED
    BY <2>3 DEF Count
<1>6. Count(s, sig) = Cardinality(B)
  BY DEF Count
<1>7. j \in Unmatched(s, c) <=> Cardinality(A) > Cardinality(B)
  BY <1>5, <1>6 DEF Unmatched
<1>8. /\ \A i \in A : i \in DOMAIN c /\ c[i] \in ToSet(a) /\ signature(c[i]) = sig
                     /\ c[i].at <= c[j].at /\ Durable(c[i], a)
      /\ \A k \in B : k \in DOMAIN s /\ s[k] \in ToSet(a) /\ signature(s[k]) = sig
                     /\ Durable(s[k], a)
  <2>1. \A i \in A : i \in DOMAIN c /\ c[i] \in ToSet(a) /\ signature(c[i]) = sig
                     /\ c[i].at <= c[j].at
    BY <1>1, <1>3
  <2>2. \A k \in B : k \in DOMAIN s /\ s[k] \in ToSet(a) /\ signature(s[k]) = sig
    BY <1>2
  <2>3. QED
    BY <1>1, <2>1, <2>2, SignatureTells
<1> HIDE DEF A, B, sig
<1>9. ASSUME c[j] \in ToSet(s) PROVE Cardinality(A) <= Cardinality(B)
  <2>1. \A i \in A : c[i] \in ToSet(s)
    BY <1>1, <1>8, <1>9, EarlierHeld DEF sig
  <2>2. \A i \in A : \E k \in B : s[k] = c[i]
    BY <1>8, <2>1 DEF ToSet, B
  <2> DEFINE f == [i \in A |-> CHOOSE k \in B : s[k] = c[i]]
  <2>3. \A i \in A : f[i] \in B /\ s[f[i]] = c[i]
    BY <2>2
  <2>4. f \in Injection(A, B)
    BY <1>1, <1>8, <2>3 DEF Injection, IsInjective
  <2>5. QED
    BY <1>4, <2>4, FS_Injection
<1>10. ASSUME c[j] \notin ToSet(s) PROVE Cardinality(A) > Cardinality(B)
  <2>1. ASSUME NEW k \in B PROVE s[k].at < c[j].at /\ s[k] \in ToSet(c)
    <3>1. s[k] \in ToSet(s) /\ s[k] \in ToSet(a) /\ c[j] \in ToSet(c) /\ c[j] \in ToSet(a)
          /\ signature(s[k]) = signature(c[j]) /\ Durable(s[k], a)
          /\ s[k].at \in Nat /\ c[j].at \in Nat
      BY <1>1, <1>2, <1>8 DEF ToSet, sig
    <3>2. ~(c[j].at <= s[k].at)
      BY <1>10, <3>1, EarlierHeld
    <3>3. s[k].at < c[j].at
      BY <3>1, <3>2
    <3>4. s[k] \in ToSet(c)
      BY <3>1, <3>3, EarlierHeld
    <3>5. QED
      BY <3>3, <3>4
  <2>2. \A k \in B : \E i \in A \ {j} : c[i] = s[k]
    <3> TAKE k \in B
    <3>1. PICK i \in DOMAIN c : c[i] = s[k]
      BY <2>1 DEF ToSet
    <3>2. i < j
      BY <1>1, <2>1, <3>1
    <3>3. i \in A \ {j}
      BY <1>1, <1>8, <3>1, <3>2 DEF A
    <3>4. QED
      BY <3>1, <3>3
  <2> DEFINE f == [k \in B |-> CHOOSE i \in A \ {j} : c[i] = s[k]]
  <2>3. \A k \in B : f[k] \in A \ {j} /\ c[f[k]] = s[k]
    BY <2>2
  <2>4. f \in Injection(B, A \ {j})
    BY <1>2, <1>8, <2>3 DEF Injection, IsInjective
  <2>5. /\ IsFiniteSet(A \ {j}) /\ Cardinality(A \ {j}) = Cardinality(A) - 1
    BY <1>4, FS_RemoveElement
  <2>6. Cardinality(B) <= Cardinality(A \ {j})
    BY <2>4, <2>5, FS_Injection
  <2>7. QED
    BY <1>4, <2>5, <2>6
<1>11. QED
  BY <1>4, <1>7, <1>9, <1>10

----------------------------------------------------------------------------
(* The merge.                                                              *)

(* The server's events and the unmatched ones: of a durable event there is *)
(* one, and it is there if either side has it.                             *)
Joined(out, s, c, a) ==
  /\ out \in Seq(ToSet(a))
  /\ ToSet(s) \subseteq ToSet(out) /\ ToSet(out) \subseteq ToSet(s) \cup ToSet(c)
  /\ \A e \in ToSet(c) : Durable(e, a) => e \in ToSet(out)
  /\ \A i, j \in DOMAIN out : i # j /\ out[i] = out[j] => ~Durable(out[i], a)

LEMMA JoinFacts ==
  ASSUME NEW a, Spoken(a), NEW s, Transcript(s, a), NEW c, Transcript(c, a)
  PROVE  Joined(s \o Pick(c, Unmatched(s, c)), s, c, a)
<1> DEFINE U == Unmatched(s, c)
           P == Pick(c, U)
           out == s \o P
           n == Len(s)
<1>1. s \in Seq(ToSet(a)) /\ c \in Seq(ToSet(a))
  BY DEF Transcript
<1>2. U \in SUBSET (DOMAIN c)
  BY DEF Unmatched
<1>3. P \in Seq(ToSet(a)) /\ Subsequence(P, c, U)
  BY <1>1, <1>2, PickKeeps
<1> HIDE DEF U, P
<1>4. /\ out \in Seq(ToSet(a)) /\ n \in Nat /\ Len(P) \in Nat
      /\ DOMAIN out = 1 .. (n + Len(P)) /\ DOMAIN s = 1 .. n /\ DOMAIN P = 1 .. Len(P)
      /\ \A i \in 1 .. n : out[i] = s[i]
      /\ \A i \in 1 .. Len(P) : out[n + i] = P[i]
  BY <1>1, <1>3
<1> HIDE DEF out, n
<1>5. \A i \in DOMAIN out : (i \in DOMAIN s /\ out[i] = s[i])
                         \/ (i - n \in DOMAIN P /\ out[i] = P[i - n] /\ i > n)
  <2> TAKE i \in DOMAIN out
  <2>1. CASE i <= n
    BY <1>4, <2>1
  <2>2. CASE i > n
    <3>1. i - n \in 1 .. Len(P) /\ n + (i - n) = i
      BY <1>4, <2>2
    <3>2. QED
      BY <1>4, <2>2, <3>1
  <2>3. QED
    BY <1>4, <2>1, <2>2
<1>6. \A i \in DOMAIN s : i \in DOMAIN out /\ out[i] = s[i]
  BY <1>4
<1>7. \A k \in DOMAIN P : n + k \in DOMAIN out /\ out[n + k] = P[k]
  BY <1>4
<1>8. ToSet(s) \subseteq ToSet(out)
  BY <1>6 DEF ToSet
<1>9. ASSUME NEW e \in ToSet(c), Durable(e, a) PROVE e \in ToSet(out)
  <2>1. PICK j \in DOMAIN c : c[j] = e
    BY DEF ToSet
  <2>2. CASE e \in ToSet(s)
    BY <1>8, <2>2
  <2>3. CASE e \notin ToSet(s)
    <3>1. j \in U
      BY <1>9, <2>1, <2>3, UnmatchedIsMissing DEF U
    <3>2. PICK k \in DOMAIN P : P[k] = c[j]
      BY <1>3, <3>1 DEF Subsequence
    <3>3. QED
      BY <1>7, <2>1, <3>2 DEF ToSet
  <2>4. QED
    BY <2>2, <2>3
<1>10. ASSUME NEW k \in DOMAIN P, Durable(P[k], a) PROVE P[k] \notin ToSet(s)
  <2>1. PICK j \in U : P[k] = c[j]
    BY <1>3 DEF Subsequence
  <2>2. QED
    BY <1>2, <1>10, <2>1, UnmatchedIsMissing DEF U
<1>11. \A k, m \in DOMAIN P : P[k] = P[m] => k = m
  <2>1. \A i, j \in DOMAIN c : c[i] = c[j] => i = j
    BY TranscriptFacts
  <2>2. \A k, m \in DOMAIN P : k < m => P[k] # P[m]
    <3> TAKE k, m \in DOMAIN P
    <3> HAVE k < m
    <3>1. PICK i \in U, j \in U : i < j /\ P[k] = c[i] /\ P[m] = c[j]
      BY <1>3 DEF Subsequence
    <3>2. i \in DOMAIN c /\ j \in DOMAIN c /\ i # j
      BY <1>1, <1>2, <3>1
    <3>3. QED
      BY <2>1, <3>1, <3>2
  <2>3. QED
    BY <1>4, <2>2
<1>12. \A i, j \in DOMAIN s : s[i] = s[j] => i = j
  BY TranscriptFacts
<1>13. ASSUME NEW i \in DOMAIN out, NEW j \in DOMAIN out, i # j, out[i] = out[j],
              Durable(out[i], a)
       PROVE  FALSE
  <2>1. CASE i \in DOMAIN s /\ out[i] = s[i] /\ j \in DOMAIN s /\ out[j] = s[j]
    BY <1>12, <1>13, <2>1
  <2>2. CASE /\ i \in DOMAIN s /\ out[i] = s[i]
             /\ j - n \in DOMAIN P /\ out[j] = P[j - n]
    BY <1>10, <1>13, <2>2 DEF ToSet
  <2>3. CASE /\ j \in DOMAIN s /\ out[j] = s[j]
             /\ i - n \in DOMAIN P /\ out[i] = P[i - n]
    BY <1>10, <1>13, <2>3 DEF ToSet
  <2>4. CASE /\ i - n \in DOMAIN P /\ out[i] = P[i - n]
             /\ j - n \in DOMAIN P /\ out[j] = P[j - n]
    <3>1. i - n = j - n
      BY <1>11, <1>13, <2>4
    <3>2. i \in Nat /\ j \in Nat /\ n \in Nat
      BY <1>4
    <3>3. QED
      BY <1>13, <3>1, <3>2
  <2>5. QED
    BY <1>5, <2>1, <2>2, <2>3, <2>4
<1>14. Joined(out, s, c, a)
  <2>1. ToSet(out) \subseteq ToSet(s) \cup ToSet(c)
    <3>1. \A k \in DOMAIN P : P[k] \in ToSet(c)
      BY <1>2, <1>3 DEF Subsequence, ToSet
    <3>2. QED
      BY <1>5, <3>1 DEF ToSet
  <2>2. QED
    BY <1>4, <1>8, <1>9, <1>13, <2>1 DEF Joined
<1>15. QED
  BY <1>14 DEF out, P, U

(* A replacement is never dropped.                                         *)
LEMMA CoversDurable ==
  ASSUME NEW a, NEW x, NEW e, Fragment(e), Covers(x, e) PROVE Durable(x, a)
<1>1. replacementRun(x.name) # NoRun
  BY DEF Fragment, Covers
<1>2. Len(x.name) = 2
  BY <1>1 DEF replacementRun
<1>3. ~Terminal(x)
  BY <1>2 DEF Terminal, terminalRun
<1>4. ~Gone(x, a)
  BY <1>1 DEF Gone, Fragment
<1>5. QED
  BY <1>3, <1>4 DEF Durable

(* A merge has the durable events of both sides, and otherwise nothing but *)
(* the last terminal markers of the runs.                                  *)
Merged(m, s, c, a) ==
  /\ ToSet(m) \subseteq ToSet(s) \cup ToSet(c)
  /\ \A e \in ToSet(s) \cup ToSet(c) : Durable(e, a) => e \in ToSet(m)
  /\ \A i \in DOMAIN a : a[i] \in ToSet(m) /\ ~Durable(a[i], a) =>
       Terminal(a[i]) /\ IsLatest(a, i, terminalRun(a[i].name))

(* A transcript merged into the record is a transcript, still holds what   *)
(* was recorded, and has every durable event of both.                      *)
LEMMA MergeFacts ==
  ASSUME NEW a, Spoken(a), NEW s, Transcript(s, a), Recorded(s, a), NEW c, Transcript(c, a)
  PROVE  /\ Transcript(MergeEvents(s, c), a) /\ Recorded(MergeEvents(s, c), a)
         /\ Merged(MergeEvents(s, c), s, c, a)
<1> DEFINE out == s \o Pick(c, Unmatched(s, c))
           owned == {signature(s[i]) : i \in DOMAIN s}
           T1 == Sorted(out, owned)
           I1 == DOMAIN T1 \ Superseded(T1)
           T2 == Pick(T1, I1)
           I2 == DOMAIN T2 \ Stale(T2)
           T3 == Pick(T2, I2)
<1>1. MergeEvents(s, c) = T3
  BY DEF MergeEvents, supersedeReplacements, supersedeTerminals
<1>2. Joined(out, s, c, a)
  BY JoinFacts
<1> HIDE DEF out, owned
<1>3. T1 \in Seq(ToSet(a)) /\ SortedBy(T1, out)
  BY <1>2, SpokenFacts, SortedSorts DEF Joined
<1> HIDE DEF T1
<1>4. T2 \in Seq(ToSet(a)) /\ Subsequence(T2, T1, I1)
  BY <1>3, PickKeeps
<1> HIDE DEF T2
<1>5. T3 \in Seq(ToSet(a)) /\ Subsequence(T3, T2, I2)
  BY <1>4, PickKeeps
<1> HIDE DEF T3
<1>6. I1 = {i \in DOMAIN T1 : ~Gone(T1[i], T1)}
  BY SupersededGone
<1> HIDE DEF I1
<1>7. /\ \A i \in I2 : i \in DOMAIN T2
      /\ \A i \in DOMAIN T2 : i \in I2 <=>
           ~(Terminal(T2[i]) /\ \E j \in DOMAIN T2 :
               j > i /\ terminalRun(T2[j].name) = terminalRun(T2[i].name))
  BY DEF Stale, Terminal
<1> HIDE DEF I2
<1>8. ToSet(T1) = ToSet(out) /\ ToSet(T1) \subseteq ToSet(a)
  BY <1>2, <1>3 DEF SortedBy, ToSet, Joined
<1>9. ToSet(T2) \subseteq ToSet(T1) /\ ToSet(T3) \subseteq ToSet(T2)
  BY <1>4, <1>5, <1>6, <1>7 DEF Subsequence, ToSet
<1>10. ASSUME NEW e \in ToSet(T1), ~Gone(e, a) PROVE e \in ToSet(T2)
  <2>1. ~Gone(e, T1)
    BY <1>8, <1>10 DEF Gone, ToSet
  <2>2. PICK i \in DOMAIN T1 : T1[i] = e
    BY DEF ToSet
  <2>3. i \in I1
    BY <1>6, <2>1, <2>2
  <2>4. QED
    BY <1>4, <2>2, <2>3 DEF Subsequence, ToSet
<1>11. ASSUME NEW e \in ToSet(s) \cup ToSet(c), Durable(e, a) PROVE e \in ToSet(T3)
  <2>1. e \in ToSet(T1)
    BY <1>2, <1>8, <1>11 DEF Joined
  <2>2. e \in ToSet(T2)
    BY <1>10, <1>11, <2>1 DEF Durable
  <2>3. PICK i \in DOMAIN T2 : T2[i] = e
    BY <2>2 DEF ToSet
  <2>4. i \in I2
    BY <1>7, <1>11, <2>3 DEF Durable
  <2>5. QED
    BY <1>5, <2>3, <2>4 DEF Subsequence, ToSet
<1>12. ASSUME NEW e \in ToSet(T2) PROVE ~Gone(e, a)
  <2> SUFFICES ASSUME Gone(e, a) PROVE FALSE
    OBVIOUS
  <2>1. PICK j \in DOMAIN a : Covers(a[j], e)
    BY DEF Gone
  <2>2. Fragment(e)
    BY DEF Gone
  <2>3. Durable(a[j], a) /\ a[j].kind # "user"
    BY <2>1, <2>2, CoversDurable DEF Covers
  <2>4. a[j] \in ToSet(T1)
    BY <1>2, <1>8, <2>3 DEF Recorded, Joined
  <2>5. Gone(e, T1)
    BY <2>1, <2>2, <2>4 DEF Gone, ToSet
  <2>6. QED
    BY <1>4, <1>6, <2>5 DEF Subsequence, ToSet
<1>13. ASSUME NEW i \in DOMAIN T2, NEW j \in DOMAIN T2, i < j
       PROVE  /\ T2[i].at <= T2[j].at /\ T2[i].at \in Nat /\ T2[j].at \in Nat
              /\ T2[i].at = T2[j].at => T2[i] = T2[j] /\ ~Durable(T2[i], a)
  <2>1. PICK p \in I1, q \in I1 : p < q /\ T2[i] = T1[p] /\ T2[j] = T1[q]
    BY <1>4, <1>13 DEF Subsequence
  <2>2. PICK k \in DOMAIN out, m \in DOMAIN out :
          k # m /\ T1[p] = out[k] /\ T1[q] = out[m] /\ T1[p].at <= T1[q].at
    BY <1>3, <1>6, <2>1 DEF SortedBy
  <2>3. T2[i] \in ToSet(a) /\ T2[j] \in ToSet(a)
    BY <1>4
  <2>4. T2[i].at = T2[j].at => T2[i] = T2[j]
    BY <2>3, SpokenFacts
  <2>5. T2[i] = T2[j] => ~Durable(T2[i], a)
    BY <1>2, <2>1, <2>2 DEF Joined
  <2>6. T2[i].at \in Nat /\ T2[j].at \in Nat
    BY <2>3, SpokenFacts
  <2>7. QED
    BY <2>1, <2>2, <2>4, <2>5, <2>6
<1>14. Ordered(T3)
  <2> SUFFICES ASSUME NEW k \in DOMAIN T3, NEW m \in DOMAIN T3, k < m
               PROVE  T3[k].at < T3[m].at
    BY DEF Ordered
  <2>1. PICK i \in I2, j \in I2 : i < j /\ T3[k] = T2[i] /\ T3[m] = T2[j]
    BY <1>5 DEF Subsequence
  <2>2. i \in DOMAIN T2 /\ j \in DOMAIN T2
    BY <1>7
  <2>3. /\ T2[i].at <= T2[j].at /\ T2[i].at \in Nat /\ T2[j].at \in Nat
        /\ T2[i].at = T2[j].at => T2[i] = T2[j] /\ ~Durable(T2[i], a)
    BY <1>13, <2>1, <2>2
  <2>4. T2[i] = T2[j] => ~Terminal(T2[i])
    <3>1. j > i
      BY <1>4, <2>1, <2>2
    <3>2. QED
      BY <1>7, <2>2, <3>1
  <2>5. ~Gone(T2[i], a)
    BY <1>12, <2>2 DEF ToSet
  <2>6. T2[i].at # T2[j].at
    BY <2>3, <2>4, <2>5 DEF Durable
  <2>7. QED
    BY <2>1, <2>3, <2>6
<1>15. Closed(T3, a)
  <2> SUFFICES ASSUME NEW i \in DOMAIN a, NEW j \in DOMAIN a, i < j,
                      signature(a[i]) = signature(a[j]), Durable(a[j], a), a[j] \in ToSet(T3)
               PROVE  a[i] \in ToSet(T3)
    BY DEF Closed
  <2>1. a[j] \in ToSet(s) \cup ToSet(c)
    BY <1>2, <1>8, <1>9 DEF Joined
  <2>2. a[i] \in ToSet(s) \cup ToSet(c)
    BY <2>1 DEF Transcript, Closed
  <2>3. Durable(a[i], a)
    BY SignatureTells DEF ToSet
  <2>4. QED
    BY <1>11, <2>2, <2>3
<1>16. ASSUME NEW i \in DOMAIN a, Terminal(a[i]), IsLatest(a, i, terminalRun(a[i].name))
       PROVE  a[i] \in ToSet(T3)
  <2> DEFINE r == terminalRun(a[i].name)
             I == {k \in DOMAIN T2 : terminalRun(T2[k].name) = r}
  <2>1. a[i] \in ToSet(T1)
    BY <1>2, <1>8, <1>16 DEF Recorded, Joined
  <2>2. ~Gone(a[i], a)
    BY <1>16 DEF Spoken, Gone, Fragment, ToSet
  <2>3. PICK k0 \in DOMAIN T2 : T2[k0] = a[i]
    BY <1>10, <2>1, <2>2 DEF ToSet
  <2>4. PICK k \in I : \A j \in I : j <= k
    <3>1. I \in SUBSET (DOMAIN T2) /\ I # {}
      BY <2>3
    <3> HIDE DEF I
    <3>2. QED
      BY <1>4, <3>1, LargestPosition
  <2>5. k0 <= k /\ k0 \in Nat /\ k \in Nat
    BY <1>4, <2>3, <2>4
  <2>6. T2[k0].at <= T2[k].at /\ T2[k].at \in Nat
    <3>1. T2[k] \in ToSet(a)
      BY <1>4
    <3>2. T2[k].at \in Nat
      BY <3>1, SpokenFacts
    <3>3. CASE k0 = k
      BY <3>2, <3>3
    <3>4. CASE k0 < k
      BY <1>13, <3>2, <3>4
    <3>5. QED
      BY <2>5, <3>3, <3>4
  <2>7. T2[k] = a[i]
    <3>1. PICK q \in DOMAIN a : a[q] = T2[k]
      BY <1>4 DEF ToSet
    <3>2. q <= i
      BY <1>16, <2>4, <3>1 DEF IsLatest
    <3>3. a[q].at <= a[i].at /\ a[q] \in ToSet(a) /\ a[i] \in ToSet(a)
          /\ a[q].at \in Nat /\ a[i].at \in Nat
      <4>1. a[q] \in ToSet(a) /\ a[i] \in ToSet(a)
        BY DEF ToSet
      <4>2. a[q].at \in Nat /\ a[i].at \in Nat /\ q \in Nat /\ i \in Nat
        BY <4>1, SpokenFacts
      <4>3. q < i => a[q].at < a[i].at
        BY DEF Spoken, Ordered
      <4>4. QED
        BY <3>2, <4>1, <4>2, <4>3
    <3>4. a[q].at = a[i].at
      BY <2>3, <2>6, <3>1, <3>3
    <3>5. QED
      BY <3>1, <3>3, <3>4, SpokenFacts
  <2>8. k \in I2
    <3>1. \A j \in DOMAIN T2 : terminalRun(T2[j].name) = terminalRun(T2[k].name) => ~(j > k)
      BY <1>4, <2>4, <2>5
    <3>2. QED
      BY <1>7, <3>1
  <2>9. QED
    BY <1>5, <2>7, <2>8 DEF Subsequence, ToSet
<1>17. Recorded(T3, a)
  <2>1. \A i \in DOMAIN a : a[i].kind # "user" /\ Durable(a[i], a) => a[i] \in ToSet(T3)
    BY <1>11 DEF Recorded
  <2>2. QED
    BY <1>16, <2>1 DEF Recorded
<1>18. ASSUME NEW i \in DOMAIN a, a[i] \in ToSet(T3), ~Durable(a[i], a)
       PROVE  Terminal(a[i]) /\ IsLatest(a, i, terminalRun(a[i].name))
  <2> DEFINE r == terminalRun(a[i].name)
             I == {j \in DOMAIN a : terminalRun(a[j].name) = r}
  <2>1. Terminal(a[i])
    BY <1>9, <1>12, <1>18 DEF Durable
  <2>2. I \in SUBSET (DOMAIN a) /\ i \in I
    OBVIOUS
  <2> HIDE DEF I
  <2>3. PICK l \in I : \A j \in I : j <= l
    BY <2>2, LargestPosition DEF Spoken
  <2>4. l \in DOMAIN a /\ terminalRun(a[l].name) = r /\ IsLatest(a, l, r)
    BY <2>3 DEF I, IsLatest
  <2>5. a[l] \in ToSet(T3)
    BY <1>16, <2>1, <2>4 DEF Terminal
  <2>6. PICK k \in DOMAIN T3, m \in DOMAIN T3 : T3[k] = a[i] /\ T3[m] = a[l]
    BY <1>18, <2>5 DEF ToSet
  <2>7. k = m
    <3>1. ASSUME NEW p \in DOMAIN T3, NEW q \in DOMAIN T3, p < q,
                 Terminal(T3[p]), terminalRun(T3[p].name) = terminalRun(T3[q].name)
          PROVE  FALSE
      <4>1. PICK x \in I2, y \in I2 : x < y /\ T3[p] = T2[x] /\ T3[q] = T2[y]
        BY <1>5, <3>1 DEF Subsequence
      <4>2. x \in DOMAIN T2 /\ y \in DOMAIN T2 /\ y > x
        BY <1>4, <1>7, <4>1
      <4>3. QED
        BY <1>7, <3>1, <4>1, <4>2
    <3>2. k \in Nat /\ m \in Nat
      BY <1>5
    <3>3. QED
      BY <2>1, <2>4, <2>6, <3>1, <3>2 DEF Terminal
  <2>8. i = l
    <3>1. a[i] \in ToSet(a) /\ a[l] \in ToSet(a) /\ a[i].at \in Nat
      BY <2>4, SpokenFacts DEF ToSet
    <3>2. a[i] = a[l]
      BY <2>6, <2>7
    <3>3. i <= l /\ l <= i /\ i \in Nat /\ l \in Nat
      BY <2>4, <3>1, <3>2, SpokenFacts
    <3>4. QED
      BY <3>3
  <2>9. QED
    BY <2>1, <2>4, <2>8
<1>19. ToSet(T3) \subseteq ToSet(s) \cup ToSet(c)
  BY <1>2, <1>8, <1>9 DEF Joined
<1>20. Merged(T3, s, c, a)
  BY <1>11, <1>18, <1>19 DEF Merged
<1>21. QED
  BY <1>1, <1>5, <1>14, <1>15, <1>17, <1>20 DEF Transcript

----------------------------------------------------------------------------
(* Something new is said, or added to a transcript.                        *)

(* What a new event leaves true of what was said before.                   *)
Extends(b, a, e) ==
  /\ Spoken(b) /\ ToSet(b) = ToSet(a) \cup {e} /\ e \notin ToSet(a)
  /\ Len(b) = Len(a) + 1 /\ Len(a) \in Nat /\ b[Len(a) + 1] = e
  /\ DOMAIN a = 1 .. Len(a) /\ DOMAIN b = 1 .. (Len(a) + 1)
  /\ \A i \in DOMAIN a : b[i] = a[i]
  /\ \A x : Durable(x, b) => Durable(x, a)
  /\ \A s : Transcript(s, a) => Transcript(s, b)

LEMMA ExtendFacts ==
  ASSUME NEW a, Spoken(a), NEW e, TellsRun(Append(a, e)), e.at \in Nat, Shaped(e),
         \A x \in ToSet(a) : x.at < e.at /\ Shaped(x)
  PROVE  Extends(Append(a, e), a, e)
<1> DEFINE b == Append(a, e)
<1>1. a \in Seq(ToSet(a)) /\ Ordered(a) /\ \A x \in ToSet(a) : x.at \in Nat
  BY DEF Spoken
<1>2. /\ b \in Seq(ToSet(a) \cup {e}) /\ Len(b) = Len(a) + 1
      /\ DOMAIN b = 1 .. (Len(a) + 1) /\ DOMAIN a = 1 .. Len(a) /\ Len(a) \in Nat
      /\ b[Len(a) + 1] = e
      /\ \A i \in DOMAIN a : b[i] = a[i] /\ i \in DOMAIN b
      /\ \A i \in DOMAIN b : i \in DOMAIN a \/ i = Len(a) + 1
      /\ ToSet(b) = ToSet(a) \cup {e}
  BY <1>1, AppendFacts
<1> HIDE DEF b
<1>3. e \notin ToSet(a)
  BY <1>1
<1>4. Ordered(b)
  <2> SUFFICES ASSUME NEW i \in DOMAIN b, NEW j \in DOMAIN b, i < j PROVE b[i].at < b[j].at
    BY DEF Ordered
  <2>1. i \in DOMAIN a
    BY <1>2
  <2>2. a[i] \in ToSet(a)
    BY <2>1 DEF ToSet
  <2>3. CASE j = Len(a) + 1
    BY <1>2, <2>1, <2>2, <2>3
  <2>4. CASE j \in DOMAIN a
    BY <1>1, <1>2, <2>1, <2>4 DEF Ordered
  <2>5. QED
    BY <1>2, <2>3, <2>4
<1>5. ASSUME NEW x, Shaped(x) PROVE Terminal(x) => x.kind # "assistant"
  <2>1. ASSUME x.name = <<>> PROVE ~Terminal(x)
    <3>1. terminalRun(x.name) = NoRun
      BY <2>1 DEF terminalRun
    <3>2. QED
      BY <3>1 DEF Terminal
  <2>2. ASSUME NEW r, x.name = <<"repl", r>> PROVE ~Terminal(x)
    <3>1. Len(<<"repl", r>>) = 2
      OBVIOUS
    <3>2. terminalRun(x.name) = NoRun
      BY <2>2, <3>1 DEF terminalRun
    <3>3. QED
      BY <3>2 DEF Terminal
  <2>3. CASE x.kind \in {"user", "done"}
    BY <2>3
  <2>4. QED
    BY <1>5, <2>1, <2>2, <2>3 DEF Shaped
<1>6. TellsRun(b)
  BY DEF b
<1>7. \A x \in ToSet(b) : Shaped(x) /\ x.at \in Nat
  BY <1>1, <1>2
<1>8. Spoken(b)
  BY <1>2, <1>4, <1>5, <1>6, <1>7 DEF Spoken
<1>9. ASSUME NEW x, Durable(x, b) PROVE Durable(x, a)
  BY <1>2, <1>9 DEF Durable, Gone
<1>10. ASSUME NEW s, Transcript(s, a) PROVE Transcript(s, b)
  <2>1. s \in Seq(ToSet(a)) /\ Ordered(s) /\ Closed(s, a)
    BY <1>10 DEF Transcript
  <2>2. s \in Seq(ToSet(b))
    BY <1>2, <2>1, SeqMonotonic
  <2>3. ToSet(s) \subseteq ToSet(a)
    BY <2>1 DEF ToSet
  <2>4. Closed(s, b)
    <3> SUFFICES ASSUME NEW i \in DOMAIN b, NEW j \in DOMAIN b, i < j,
                        signature(b[i]) = signature(b[j]), Durable(b[j], b), b[j] \in ToSet(s)
                 PROVE  b[i] \in ToSet(s)
      BY DEF Closed
    <3>1. j # Len(a) + 1
      BY <1>2, <1>3, <2>3
    <3>2. j \in DOMAIN a /\ i \in DOMAIN a
      BY <1>2, <3>1
    <3>3. b[i] = a[i] /\ b[j] = a[j] /\ Durable(a[j], a)
      BY <1>2, <1>9, <3>2
    <3>4. QED
      BY <2>1, <3>2, <3>3 DEF Closed
  <2>5. QED
    BY <2>1, <2>2, <2>4 DEF Transcript
<1>11. Extends(b, a, e)
  BY <1>2, <1>3, <1>8, <1>9, <1>10 DEF Extends
<1>12. QED
  BY <1>11 DEF b

(* e is later than s, which has the earlier events of e's signature.       *)
Fits(s, a, e) ==
  /\ \A x \in ToSet(s) : x.at < e.at
  /\ \A i \in DOMAIN a :
       (a[i].at < e.at /\ signature(a[i]) = signature(e) /\ Durable(a[i], a))
         => a[i] \in ToSet(s)

(* A later event is added to a transcript that has the earlier ones.       *)
LEMMA AddToTranscript ==
  ASSUME NEW a, Spoken(a), NEW s, Transcript(s, a), NEW e \in ToSet(a),
         Fits(s, a, e)
  PROVE  Transcript(Append(s, e), a) /\ ToSet(Append(s, e)) = ToSet(s) \cup {e}
<1> DEFINE t == Append(s, e)
<1>1. s \in Seq(ToSet(a)) /\ Ordered(s) /\ Closed(s, a)
  BY DEF Transcript
<1>2. /\ t \in Seq(ToSet(a) \cup {e}) /\ Len(t) = Len(s) + 1
      /\ DOMAIN t = 1 .. (Len(s) + 1) /\ DOMAIN s = 1 .. Len(s) /\ Len(s) \in Nat
      /\ t[Len(s) + 1] = e
      /\ \A i \in DOMAIN s : t[i] = s[i] /\ i \in DOMAIN t
      /\ \A i \in DOMAIN t : i \in DOMAIN s \/ i = Len(s) + 1
      /\ ToSet(t) = ToSet(s) \cup {e}
  BY <1>1, AppendFacts
<1> HIDE DEF t
<1>3. t \in Seq(ToSet(a))
  <2>1. ToSet(a) \cup {e} = ToSet(a)
    OBVIOUS
  <2>2. QED
    BY <1>2, <2>1
<1>4. Ordered(t)
  <2> SUFFICES ASSUME NEW i \in DOMAIN t, NEW j \in DOMAIN t, i < j PROVE t[i].at < t[j].at
    BY DEF Ordered
  <2>1. i \in DOMAIN s
    BY <1>2
  <2>2. s[i] \in ToSet(s)
    BY <2>1 DEF ToSet
  <2>3. CASE j = Len(s) + 1
    BY <1>2, <2>1, <2>2, <2>3 DEF Fits
  <2>4. CASE j \in DOMAIN s
    BY <1>1, <1>2, <2>1, <2>4 DEF Ordered
  <2>5. QED
    BY <1>2, <2>3, <2>4
<1>5. Closed(t, a)
  <2> SUFFICES ASSUME NEW i \in DOMAIN a, NEW j \in DOMAIN a, i < j,
                      signature(a[i]) = signature(a[j]), Durable(a[j], a), a[j] \in ToSet(t)
               PROVE  a[i] \in ToSet(t)
    BY DEF Closed
  <2>1. CASE a[j] \in ToSet(s)
    BY <1>1, <1>2, <2>1 DEF Closed
  <2>2. CASE a[j] = e
    <3>1. a[i].at < e.at
      BY <2>2 DEF Spoken, Ordered
    <3>2. Durable(a[i], a)
      BY SignatureTells DEF ToSet
    <3>3. QED
      BY <1>2, <2>2, <3>1, <3>2 DEF Fits
  <2>3. QED
    BY <1>2, <2>1, <2>2
<1>6. Transcript(t, a) /\ ToSet(t) = ToSet(s) \cup {e}
  BY <1>2, <1>3, <1>4, <1>5 DEF Transcript
<1>7. QED
  BY <1>6 DEF t

----------------------------------------------------------------------------
(* The invariant holds.                                                    *)

LEMMA InitInv == Init => Inv
<1> SUFFICES ASSUME Init PROVE Inv
  OBVIOUS
<1>1. said = <<>> /\ server = <<>> /\ browser = <<>> /\ sent = {} /\ seen = 0 /\ now = 0
  BY DEF Init
<1>2. ToSet(<<>>) = {} /\ DOMAIN <<>> = {} /\ Len(<<>>) = 0 /\ <<>> \in Seq({})
  BY DEF ToSet
<1>3. Spoken(<<>>) /\ Transcript(<<>>, <<>>) /\ Recorded(<<>>, <<>>)
  BY <1>2 DEF Spoken, Transcript, Recorded, Ordered, Closed, TellsRun
<1>4. Noted
  BY <1>1, <1>2 DEF Noted
<1>5. QED
  BY <1>1, <1>2, <1>3, <1>4 DEF Inv

(* What is said has a time of its own, so it is later than the rest.       *)
LEMMA SaidBefore ==
  ASSUME said \in Seq(ToSet(said)), NEW e, e.at = now, now \in Nat,
         \A x \in ToSet(said) : x.at <= now /\ x.at \in Nat,
         said' = Append(said, e), Clear(said)'
  PROVE  (\A x \in ToSet(said) : x.at < now) /\ TellsRun(Append(said, e))
<1> DEFINE b == Append(said, e)
<1>1. /\ \A i \in DOMAIN said : b[i] = said[i] /\ i \in DOMAIN b
      /\ b[Len(said) + 1] = e /\ DOMAIN b = 1 .. (Len(said) + 1)
      /\ DOMAIN said = 1 .. Len(said) /\ Len(said) \in Nat
  BY AppendFacts
<1>2. Len(said) + 1 \in DOMAIN b /\ Len(said) + 1 \notin DOMAIN said
  BY <1>1
<1> HIDE DEF b
<1>3. TimesDiffer(b) /\ TellsRun(b)
  BY DEF Clear, TimesDiffer, TellsRun, b
<1>4. \A i \in DOMAIN said : said[i].at # e.at
  BY <1>1, <1>2, <1>3 DEF TimesDiffer
<1>5. \A x \in ToSet(said) : x.at < now
  BY <1>4 DEF ToSet
<1>6. QED
  BY <1>3, <1>5 DEF b

(* The agent says something: the server has everything it said before.     *)
LEMMA AgentSaysInv ==
  ASSUME Inv, Clear(said)', NEW e \in AgentEvents, AgentSays(e) PROVE Inv'
<1>1. /\ server' = Append(server, e) /\ said' = Append(said, e) /\ now' \in Later
      /\ browser' = browser /\ seen' = seen /\ sent' = sent
  BY DEF AgentSays
<1>2. e.at = now /\ Shaped(e) /\ e.kind # "user"
  BY DEF AgentEvents, Event, Shaped
<1>3. /\ now \in Nat /\ seen \in 0 .. Len(said) /\ Spoken(said) /\ Recorded(server, said)
      /\ \A x \in ToSet(said) : x.at <= now /\ Shaped(x)
      /\ \A s \in {server, browser} \cup sent : Transcript(s, said)
  BY DEF Inv
<1>a. (\A x \in ToSet(said) : x.at < now) /\ TellsRun(Append(said, e))
  BY <1>1, <1>2, <1>3, SaidBefore DEF Clear, Spoken
<1>b. now' \in Nat /\ now <= now'
  BY <1>1, <1>3 DEF Later
<1>4. Extends(said', said, e)
  BY <1>1, <1>2, <1>3, <1>a, ExtendFacts
<1>5. /\ Spoken(said') /\ ToSet(said') = ToSet(said) \cup {e}
      /\ Len(said') = Len(said) + 1 /\ Len(said) \in Nat /\ said'[Len(said) + 1] = e
      /\ DOMAIN said = 1 .. Len(said) /\ DOMAIN said' = 1 .. (Len(said) + 1)
      /\ \A i \in DOMAIN said : said'[i] = said[i]
      /\ \A x : Durable(x, said') => Durable(x, said)
      /\ \A s \in {server, browser} \cup sent : Transcript(s, said')
  BY <1>3, <1>4 DEF Extends
<1>6. \A i \in DOMAIN said' : i \in DOMAIN said \/ i = Len(said) + 1
  BY <1>5
<1>7. Transcript(server', said') /\ ToSet(server') = ToSet(server) \cup {e}
  <2>1. \A x \in ToSet(server) : x.at < e.at
    <3>1. \A x \in ToSet(server) : x \in ToSet(said)
      BY <1>3, TranscriptFacts DEF ToSet
    <3>2. QED
      BY <1>2, <1>a, <3>1
  <2>2. ASSUME NEW i \in DOMAIN said', said'[i].at < e.at, signature(said'[i]) = signature(e),
               Durable(said'[i], said')
        PROVE  said'[i] \in ToSet(server)
    <3>1. i # Len(said) + 1
      BY <1>2, <1>3, <1>5, <2>2
    <3>2. i \in DOMAIN said /\ said'[i] = said[i] /\ Durable(said[i], said)
      BY <1>5, <1>6, <2>2, <3>1
    <3>3. said[i].kind # "user"
      BY <1>2, <2>2, <3>2 DEF signature
    <3>4. QED
      BY <1>3, <3>2, <3>3 DEF Recorded
  <2>3. Transcript(server, said') /\ e \in ToSet(said')
    BY <1>5
  <2>4. PICK b : b = said'
    OBVIOUS
  <2>5. Fits(server, b, e)
    BY <2>1, <2>2, <2>4 DEF Fits
  <2>6. QED
    BY <1>1, <1>5, <2>3, <2>4, <2>5, AddToTranscript
<1>8. Recorded(server', said')
  <2>1. ASSUME NEW i \in DOMAIN said', said'[i].kind # "user", Durable(said'[i], said')
        PROVE  said'[i] \in ToSet(server')
    BY <1>3, <1>5, <1>6, <1>7, <2>1 DEF Recorded
  <2>2. ASSUME NEW i \in DOMAIN said', Terminal(said'[i]),
               IsLatest(said', i, terminalRun(said'[i].name))
        PROVE  said'[i] \in ToSet(server')
    <3>1. CASE i = Len(said) + 1
      BY <1>5, <1>7, <3>1
    <3>2. CASE i \in DOMAIN said
      <4>1. said'[i] = said[i] /\ IsLatest(said, i, terminalRun(said[i].name))
        BY <1>5, <2>2, <3>2 DEF IsLatest
      <4>2. QED
        BY <1>3, <1>7, <2>2, <3>2, <4>1 DEF Recorded
    <3>3. QED
      BY <1>6, <3>1, <3>2
  <2>3. QED
    BY <2>1, <2>2 DEF Recorded
<1>9. Noted'
  <2>1. /\ \A x \in ToSet(browser) : \E i \in 1 .. seen : said[i] = x
        /\ \A i \in 1 .. seen : Durable(said[i], said) => said[i] \in ToSet(browser)
        /\ \A i \in DOMAIN said : said[i].kind = "user" => i <= seen
    BY DEF Inv, Noted
  <2>2. \A i \in 1 .. seen : i \in DOMAIN said /\ said'[i] = said[i]
    BY <1>3, <1>5
  <2>3. \A i \in DOMAIN said' : said'[i].kind = "user" => i <= seen
    BY <1>2, <1>5, <1>6, <2>1
  <2>4. QED
    BY <1>1, <1>5, <2>1, <2>2, <2>3 DEF Noted
<1>10. seen' \in 0 .. Len(said') /\ now' \in Nat
       /\ \A x \in ToSet(said') : x.at <= now' /\ Shaped(x)
  <2>1. \A x \in ToSet(said) : x.at \in Nat
    BY <1>3, SpokenFacts
  <2>2. QED
    BY <1>1, <1>2, <1>3, <1>5, <1>b, <2>1
<1>11. \A s \in {server', browser'} \cup sent' : Transcript(s, said')
  BY <1>1, <1>5, <1>7
<1>12. QED
  BY <1>5, <1>8, <1>9, <1>10, <1>11 DEF Inv

(* The user writes: the browser has everything.                            *)
LEMMA UserSaysInv ==
  ASSUME Inv, Clear(said)', NEW t \in UserTexts, UserSays(t) PROVE Inv'
<1>0. PICK e : e = Event("user", t, <<>>, NoRun)
  OBVIOUS
<1>1. /\ browser' = Append(browser, e) /\ said' = Append(said, e) /\ now' \in Later
      /\ seen = Len(said) /\ seen' = seen + 1 /\ server' = server /\ sent' = sent
  BY <1>0 DEF UserSays
<1>2. e.at = now /\ Shaped(e) /\ e.kind = "user" /\ ~Terminal(e)
  BY <1>0 DEF Event, Shaped, Terminal, terminalRun
<1>3. /\ now \in Nat /\ seen \in 0 .. Len(said) /\ Spoken(said) /\ Recorded(server, said)
      /\ \A x \in ToSet(said) : x.at <= now /\ Shaped(x)
      /\ \A s \in {server, browser} \cup sent : Transcript(s, said)
  BY DEF Inv
<1>a. (\A x \in ToSet(said) : x.at < now) /\ TellsRun(Append(said, e))
  BY <1>1, <1>2, <1>3, SaidBefore DEF Clear, Spoken
<1>b. now' \in Nat /\ now <= now'
  BY <1>1, <1>3 DEF Later
<1>4. Extends(said', said, e)
  BY <1>1, <1>2, <1>3, <1>a, ExtendFacts
<1>5. /\ Spoken(said') /\ ToSet(said') = ToSet(said) \cup {e}
      /\ Len(said') = Len(said) + 1 /\ Len(said) \in Nat /\ said'[Len(said) + 1] = e
      /\ DOMAIN said = 1 .. Len(said) /\ DOMAIN said' = 1 .. (Len(said) + 1)
      /\ \A i \in DOMAIN said : said'[i] = said[i]
      /\ \A x : Durable(x, said') => Durable(x, said)
      /\ \A s \in {server, browser} \cup sent : Transcript(s, said')
  BY <1>3, <1>4 DEF Extends
<1>6. \A i \in DOMAIN said' : i \in DOMAIN said \/ i = Len(said) + 1
  BY <1>5
<1>7. /\ \A x \in ToSet(browser) : \E i \in 1 .. seen : said[i] = x
      /\ \A i \in 1 .. seen : Durable(said[i], said) => said[i] \in ToSet(browser)
      /\ \A i \in 1 .. seen : i \in DOMAIN said /\ said'[i] = said[i]
  BY <1>1, <1>3, <1>5 DEF Inv, Noted
<1>8. Transcript(browser', said') /\ ToSet(browser') = ToSet(browser) \cup {e}
  <2>1. \A x \in ToSet(browser) : x.at < e.at
    <3>1. \A x \in ToSet(browser) : x \in ToSet(said)
      BY <1>3, TranscriptFacts DEF ToSet
    <3>2. QED
      BY <1>2, <1>a, <3>1
  <2>2. ASSUME NEW i \in DOMAIN said', said'[i].at < e.at, signature(said'[i]) = signature(e),
               Durable(said'[i], said')
        PROVE  said'[i] \in ToSet(browser)
    <3>1. i # Len(said) + 1
      BY <1>2, <1>3, <1>5, <2>2
    <3>2. i \in 1 .. seen /\ said'[i] = said[i] /\ Durable(said[i], said)
      BY <1>1, <1>5, <1>6, <2>2, <3>1
    <3>3. QED
      BY <1>7, <3>2
  <2>3. Transcript(browser, said') /\ e \in ToSet(said')
    BY <1>5
  <2>4. PICK b : b = said'
    OBVIOUS
  <2>5. Fits(browser, b, e)
    BY <2>1, <2>2, <2>4 DEF Fits
  <2>6. QED
    BY <1>1, <1>5, <2>3, <2>4, <2>5, AddToTranscript
<1>9. Recorded(server', said')
  <2>1. ASSUME NEW i \in DOMAIN said', said'[i].kind # "user", Durable(said'[i], said')
        PROVE  said'[i] \in ToSet(server)
    BY <1>2, <1>3, <1>5, <1>6, <2>1 DEF Recorded
  <2>2. ASSUME NEW i \in DOMAIN said', Terminal(said'[i]),
               IsLatest(said', i, terminalRun(said'[i].name))
        PROVE  said'[i] \in ToSet(server)
    <3>1. i \in DOMAIN said /\ said'[i] = said[i]
      BY <1>2, <1>5, <1>6, <2>2
    <3>2. IsLatest(said, i, terminalRun(said[i].name))
      BY <1>5, <2>2, <3>1 DEF IsLatest
    <3>3. QED
      BY <1>3, <2>2, <3>1, <3>2 DEF Recorded
  <2>3. QED
    BY <1>1, <2>1, <2>2 DEF Recorded
<1>10. Noted'
  <2>1. seen' \in Nat /\ seen' = Len(said) + 1 /\ seen' \in 1 .. seen'
        /\ (\A i \in 1 .. seen' : i \in 1 .. seen \/ i = seen')
        /\ (\A i \in 1 .. seen : i \in 1 .. seen')
    BY <1>1, <1>5
  <2>2. \A x \in ToSet(browser') : \E i \in 1 .. seen' : said'[i] = x
    BY <1>5, <1>7, <1>8, <2>1
  <2>3. \A i \in 1 .. seen' : Durable(said'[i], said') => said'[i] \in ToSet(browser')
    BY <1>5, <1>7, <1>8, <2>1
  <2>4. \A i \in DOMAIN said' : i <= seen'
    BY <1>5, <2>1
  <2>5. QED
    BY <2>2, <2>3, <2>4 DEF Noted
<1>11. seen' \in 0 .. Len(said') /\ now' \in Nat
       /\ \A x \in ToSet(said') : x.at <= now' /\ Shaped(x)
  <2>1. \A x \in ToSet(said) : x.at \in Nat
    BY <1>3, SpokenFacts
  <2>2. QED
    BY <1>1, <1>2, <1>3, <1>5, <1>b, <2>1
<1>12. \A s \in {server', browser'} \cup sent' : Transcript(s, said')
  BY <1>1, <1>5, <1>8
<1>13. QED
  BY <1>5, <1>9, <1>10, <1>11, <1>12 DEF Inv

(* The browser takes note of the next event.                               *)
LEMMA SeeInv == ASSUME Inv, See PROVE Inv'
<1>0. PICK e : e = said[seen + 1]
  OBVIOUS
<1>1. /\ seen < Len(said) /\ browser' = Append(browser, e) /\ seen' = seen + 1
      /\ server' = server /\ said' = said /\ now' = now /\ sent' = sent
  BY <1>0 DEF See
<1>2. /\ now \in Nat /\ seen \in 0 .. Len(said) /\ Spoken(said)
      /\ \A s \in {server, browser} \cup sent : Transcript(s, said)
  BY DEF Inv
<1>3. DOMAIN said = 1 .. Len(said) /\ Len(said) \in Nat
  BY <1>2 DEF Spoken
<1>4. seen + 1 \in DOMAIN said /\ e \in ToSet(said) /\ e.at \in Nat
  <2>1. seen + 1 \in DOMAIN said
    BY <1>1, <1>2, <1>3
  <2>2. e \in ToSet(said)
    BY <1>0, <2>1 DEF ToSet
  <2>3. QED
    BY <1>2, <2>1, <2>2, SpokenFacts
<1>5. /\ \A x \in ToSet(browser) : \E i \in 1 .. seen : said[i] = x
      /\ \A i \in 1 .. seen : Durable(said[i], said) => said[i] \in ToSet(browser)
      /\ \A i \in DOMAIN said : said[i].kind = "user" => i <= seen
      /\ \A i \in 1 .. seen : i \in DOMAIN said /\ i < seen + 1
  BY <1>2, <1>3 DEF Inv, Noted
<1>6. \A x \in ToSet(browser) : x.at < e.at
  BY <1>0, <1>2, <1>4, <1>5 DEF Spoken, Ordered
<1>7. ASSUME NEW i \in DOMAIN said, said[i].at < e.at, signature(said[i]) = signature(e),
             Durable(said[i], said)
      PROVE  said[i] \in ToSet(browser)
  <2>1. i < seen + 1
    BY <1>0, <1>2, <1>4, <1>7, SpokenFacts
  <2>2. i \in 1 .. seen
    BY <1>2, <1>3, <2>1
  <2>3. QED
    BY <1>5, <1>7, <2>2
<1>8. Transcript(browser', said) /\ ToSet(browser') = ToSet(browser) \cup {e}
  <2>1. Fits(browser, said, e)
    BY <1>6, <1>7 DEF Fits
  <2>2. QED
    BY <1>1, <1>2, <1>4, <2>1, AddToTranscript
<1>9. Noted'
  <2>1. seen' \in 1 .. seen' /\ seen' = seen + 1
        /\ (\A i \in 1 .. seen' : i \in 1 .. seen \/ i = seen')
        /\ (\A i \in 1 .. seen : i \in 1 .. seen')
        /\ \A i \in DOMAIN said : i <= seen => i <= seen'
    BY <1>1, <1>2, <1>3
  <2>2. \A x \in ToSet(browser') : \E i \in 1 .. seen' : said[i] = x
    BY <1>0, <1>5, <1>8, <2>1
  <2>3. \A i \in 1 .. seen' : Durable(said[i], said) => said[i] \in ToSet(browser')
    BY <1>0, <1>5, <1>8, <2>1
  <2>4. QED
    BY <1>1, <1>5, <2>1, <2>2, <2>3 DEF Noted
<1>10. seen' \in 0 .. Len(said')
  BY <1>1, <1>2, <1>3
<1>11. QED
  BY <1>1, <1>8, <1>9, <1>10 DEF Inv

(* A copy arrives, the browser sends one or reloads.                       *)
LEMMA ArriveInv == ASSUME Inv, NEW c \in sent, Arrive(c) PROVE Inv'
<1>1. /\ server' = MergeEvents(server, c) /\ browser' = browser /\ said' = said
      /\ seen' = seen /\ now' = now /\ sent' = sent
  BY DEF Arrive
<1>2. /\ Spoken(said) /\ Recorded(server, said)
      /\ \A s \in {server, browser} \cup sent : Transcript(s, said)
  BY DEF Inv
<1>3. Transcript(server', said) /\ Recorded(server', said)
  BY <1>1, <1>2, MergeFacts
<1>4. Noted'
  BY <1>1 DEF Inv, Noted
<1>5. QED
  BY <1>1, <1>3, <1>4 DEF Inv

LEMMA SendInv == ASSUME Inv, Send PROVE Inv'
<1>1. /\ sent' = sent \cup {browser} /\ server' = server /\ browser' = browser
      /\ said' = said /\ seen' = seen /\ now' = now
  BY DEF Send
<1>2. Noted'
  BY <1>1 DEF Inv, Noted
<1>3. QED
  BY <1>1, <1>2 DEF Inv

LEMMA ReloadInv == ASSUME Inv, Reload PROVE Inv'
<1>1. /\ server' = MergeEvents(server, browser) /\ browser' = server' /\ seen' = Len(said)
      /\ said' = said /\ now' = now /\ sent' = sent
  BY DEF Reload
<1>2. /\ Spoken(said) /\ Recorded(server, said)
      /\ \A s \in {server, browser} \cup sent : Transcript(s, said)
  BY DEF Inv
<1>3. /\ Transcript(server', said) /\ Recorded(server', said)
      /\ \A e \in ToSet(server) \cup ToSet(browser) : Durable(e, said) => e \in ToSet(server')
  BY <1>1, <1>2, MergeFacts DEF Merged
<1>4. DOMAIN said = 1 .. Len(said) /\ Len(said) \in Nat
  BY <1>2 DEF Spoken
<1>5. Noted'
  <2>1. \A e \in ToSet(server') : \E i \in 1 .. Len(said) : said[i] = e
    <3>1. \A e \in ToSet(server') : e \in ToSet(said)
      BY <1>2, <1>3, TranscriptFacts DEF ToSet
    <3>2. QED
      BY <1>4, <3>1 DEF ToSet
  <2>2. ASSUME NEW i \in 1 .. Len(said), Durable(said[i], said)
        PROVE  said[i] \in ToSet(server')
    <3>1. CASE said[i].kind = "user"
      <4>1. i \in 1 .. seen
        BY <1>4, <3>1 DEF Inv, Noted
      <4>2. said[i] \in ToSet(browser)
        BY <2>2, <4>1 DEF Inv, Noted
      <4>3. QED
        BY <1>3, <2>2, <4>2
    <3>2. CASE said[i].kind # "user"
      BY <1>2, <1>3, <1>4, <2>2, <3>2 DEF Recorded
    <3>3. QED
      BY <3>1, <3>2
  <2>3. \A i \in DOMAIN said : i <= Len(said)
    BY <1>4
  <2>4. QED
    BY <1>1, <2>1, <2>2, <2>3 DEF Noted
<1>6. seen' \in 0 .. Len(said')
  BY <1>1, <1>4
<1>7. QED
  BY <1>1, <1>3, <1>5, <1>6 DEF Inv

LEMMA NextInv == ASSUME Clear(said) => Inv, TypeInv, [Next]_vars, Clear(said)' PROVE Inv'
<1>1. Inv
  <2>1. ASSUME NEW e, said' = Append(said, e) PROVE Clear(said)
    <3> DEFINE b == Append(said, e)
    <3>1. /\ \A i \in DOMAIN said : b[i] = said[i] /\ i \in DOMAIN b
          /\ ToSet(b) = ToSet(said) \cup {e}
      BY AppendFacts DEF TypeInv
    <3> HIDE DEF b
    <3>2. TimesDiffer(b) /\ TellsRun(b)
      BY <2>1 DEF Clear, TimesDiffer, TellsRun, b
    <3>3. QED
      BY <3>1, <3>2 DEF Clear, TimesDiffer, TellsRun
  <2>2. ASSUME said' = said PROVE Clear(said)
    BY <2>2 DEF Clear, TimesDiffer, TellsRun
  <2>3. said' = said \/ \E e : said' = Append(said, e)
    BY DEF Next, vars, AgentSays, UserSays, See, Send, Reload, Arrive
  <2>4. QED
    BY <2>1, <2>2, <2>3
<1>2. CASE UNCHANGED vars
  BY <1>1, <1>2 DEF vars, Inv, Noted
<1>3. QED
  BY <1>1, <1>2, AgentSaysInv, UserSaysInv, SeeInv, SendInv, ReloadInv, ArriveInv DEF Next

(* Everything that is invariant.                                           *)
Invariant == TypeInv /\ Counted /\ MarkersKept /\ (Clear(said) => Inv)

LEMMA InvHolds == Spec => []Invariant
<1>1. Init => Invariant
  <2> SUFFICES ASSUME Init PROVE Counted /\ MarkersKept
    BY InitTypes, InitInv DEF Invariant
  <2>1. /\ said = <<>> /\ server = <<>> /\ browser = <<>> /\ sent = {} /\ seen = 0
        /\ DOMAIN <<>> = {} /\ ToSet(<<>>) = {}
    BY DEF Init, ToSet
  <2>2. \A sig : Count(<<>>, sig) = 0 /\ Upto(<<>>, 0, sig) = 0
    BY <2>1, FS_EmptySet DEF Count, Upto
  <2>3. QED
    BY <2>1, <2>2 DEF Counted, MarkersKept, Chronological
<1>2. Invariant /\ [Next]_vars => Invariant'
  <2> SUFFICES ASSUME Invariant, [Next]_vars PROVE Invariant'
    OBVIOUS
  <2>1. TypeInv' /\ Counted' /\ MarkersKept'
    BY NextType, CountedNext, MarkersNext DEF Invariant
  <2>2. (Clear(said) => Inv)'
    BY NextInv DEF Invariant
  <2>3. QED
    BY <2>1, <2>2 DEF Invariant
<1>3. QED
  BY <1>1, <1>2, PTL DEF Spec

----------------------------------------------------------------------------
(* The theorem.                                                            *)

LEMMA StoredOnce == TypeInv /\ Counted /\ (Clear(said) => Inv) => OncePerOccurrence
<1> SUFFICES ASSUME Clear(said), Inv, NEW e \in ToSet(server)
             PROVE  Cardinality({i \in DOMAIN server : server[i] = e})
                      <= Cardinality({i \in DOMAIN said : said[i] = e})
  BY DEF OncePerOccurrence, NeverDoubled, Counted, Clear
<1>1. Spoken(said) /\ Transcript(server, said)
  BY DEF Inv
<1>2. PICK k \in DOMAIN server : server[k] = e
  BY DEF ToSet
<1>3. {i \in DOMAIN server : server[i] = e} = {k}
  BY <1>1, <1>2, TranscriptFacts
<1>4. PICK q \in DOMAIN said : said[q] = e
  BY <1>1, <1>2, TranscriptFacts DEF ToSet
<1>5. {i \in DOMAIN said : said[i] = e} = {q}
  <2>1. \A i \in DOMAIN said : said[i].at \in Nat /\ i \in Nat
    BY <1>1, SpokenFacts DEF ToSet
  <2>2. \A i \in DOMAIN said : said[i] = e => i = q
    BY <1>1, <1>4, <2>1, SpokenFacts
  <2>3. QED
    BY <1>4, <2>2
<1>6. QED
  BY <1>3, <1>5, FS_Singleton

(* Two transcripts with the same events are the same: the place of an      *)
(* event is the number of events that are not after it.                    *)
LEMMA PlaceCounts ==
  ASSUME NEW a, Spoken(a), NEW s, Transcript(s, a)
  PROVE  /\ Cardinality(ToSet(s)) = Len(s)
         /\ \A k \in DOMAIN s : Cardinality({x \in ToSet(s) : x.at <= s[k].at}) = k
<1>1. /\ \A i \in DOMAIN s : s[i].at \in Nat
      /\ \A i, j \in DOMAIN s : s[i] = s[j] => i = j
      /\ DOMAIN s = 1 .. Len(s) /\ Len(s) \in Nat
  BY TranscriptFacts
<1>2. \A i, j \in DOMAIN s : s[i].at <= s[j].at <=> i <= j
  <2>1. \A i, j \in DOMAIN s : i < j => s[i].at < s[j].at
    BY DEF Transcript, Ordered
  <2>2. QED
    BY <1>1, <2>1
<1>3. ASSUME NEW n \in 0 .. Len(s), NEW S, S = {s[i] : i \in 1 .. n}
      PROVE  Cardinality(S) = n
  <2> DEFINE f == [i \in 1 .. n |-> s[i]]
  <2>1. 1 .. n \in SUBSET (DOMAIN s) /\ n \in Nat
    BY <1>1
  <2>2. f \in [1 .. n -> S]
    BY <1>3
  <2>3. \A i, j \in 1 .. n : f[i] = f[j] => i = j
    BY <1>1, <2>1
  <2>4. \A x \in S : \E i \in 1 .. n : f[i] = x
    BY <1>3
  <2>5. f \in Bijection(1 .. n, S)
    BY <2>2, <2>3, <2>4 DEF Bijection, Injection, Surjection, IsInjective
  <2>6. QED
    BY <2>1, <2>5, FS_CountingElements DEF ExistsBijection
<1>4. Cardinality(ToSet(s)) = Len(s)
  <2>1. ToSet(s) = {s[i] : i \in 1 .. Len(s)}
    BY <1>1 DEF ToSet
  <2>2. Len(s) \in 0 .. Len(s)
    BY <1>1
  <2>3. QED
    BY <1>3, <2>1, <2>2
<1>5. ASSUME NEW k \in DOMAIN s
      PROVE  Cardinality({x \in ToSet(s) : x.at <= s[k].at}) = k
  <2>1. k \in 0 .. Len(s)
    BY <1>1
  <2>2. 1 .. k = {i \in DOMAIN s : i <= k}
    BY <1>1
  <2>3. {x \in ToSet(s) : x.at <= s[k].at} = {s[i] : i \in 1 .. k}
    BY <1>2, <2>2 DEF ToSet
  <2>4. QED
    BY <1>3, <2>1, <2>3
<1>6. QED
  BY <1>4, <1>5

LEMMA SameTranscript ==
  ASSUME NEW a, Spoken(a), NEW s, Transcript(s, a), NEW t, Transcript(t, a),
         ToSet(s) = ToSet(t)
  PROVE  s = t
<1>1. /\ s \in Seq(ToSet(a)) /\ t \in Seq(ToSet(a))
      /\ DOMAIN s = 1 .. Len(s) /\ DOMAIN t = 1 .. Len(t)
  BY TranscriptFacts DEF Transcript
<1>2. Len(s) = Len(t)
  BY PlaceCounts
<1>3. ASSUME NEW k \in DOMAIN s PROVE s[k] = t[k]
  <2>1. PICK j \in DOMAIN t : t[j] = s[k]
    BY DEF ToSet
  <2>2. Cardinality({x \in ToSet(s) : x.at <= s[k].at}) = k
    BY PlaceCounts
  <2>3. Cardinality({x \in ToSet(t) : x.at <= t[j].at}) = j
    BY PlaceCounts
  <2>4. j = k
    BY <2>1, <2>2, <2>3
  <2>5. QED
    BY <2>1, <2>4
<1>4. QED
  BY <1>1, <1>2, <1>3, SeqEqual

(* e is the last terminal marker of its run.                               *)
Final(e, a) ==
  \E i \in DOMAIN a : a[i] = e /\ Terminal(e) /\ IsLatest(a, i, terminalRun(e.name))

(* The events of a merge: the durable ones of both sides and the last      *)
(* terminal markers of all runs.                                           *)
LEMMA MergeHolds ==
  ASSUME NEW a, Spoken(a), NEW s, Transcript(s, a), Recorded(s, a), NEW c, Transcript(c, a)
  PROVE  ToSet(MergeEvents(s, c)) =
           {e \in ToSet(a) :
              (Durable(e, a) /\ e \in ToSet(s) \cup ToSet(c)) \/ Final(e, a)}
<1>1. PICK m : m = MergeEvents(s, c)
  OBVIOUS
<1>2. Transcript(m, a) /\ Recorded(m, a) /\ Merged(m, s, c, a)
  BY <1>1, MergeFacts
<1>3. \A e \in ToSet(m) : e \in ToSet(a)
  BY <1>2, TranscriptFacts DEF ToSet
<1>4. ASSUME NEW e \in ToSet(m)
      PROVE  (Durable(e, a) /\ e \in ToSet(s) \cup ToSet(c)) \/ Final(e, a)
  <2>1. PICK i \in DOMAIN a : a[i] = e
    BY <1>3 DEF ToSet
  <2>2. e \in ToSet(s) \cup ToSet(c)
    BY <1>2 DEF Merged
  <2>3. ~Durable(e, a) => Terminal(e) /\ IsLatest(a, i, terminalRun(e.name))
    BY <1>2, <2>1 DEF Merged
  <2>4. QED
    BY <2>1, <2>2, <2>3 DEF Final
<1>5. ASSUME NEW e \in ToSet(a), Durable(e, a), e \in ToSet(s) \cup ToSet(c)
      PROVE  e \in ToSet(m)
  BY <1>2, <1>5 DEF Merged
<1>6. ASSUME NEW e \in ToSet(a), Final(e, a) PROVE e \in ToSet(m)
  BY <1>2, <1>6 DEF Final, Recorded
<1>7. QED
  BY <1>1, <1>3, <1>4, <1>5, <1>6

LEMMA OrderForgotten == TypeInv /\ (Clear(said) => Inv) => OrderFree
<1> SUFFICES ASSUME TypeInv, TellsRun(said), TimesDiffer(said), Inv,
                    NEW c \in sent \cup {browser}, NEW d \in sent \cup {browser}
             PROVE  /\ MergeEvents(MergeEvents(server, c), c) = MergeEvents(server, c)
                    /\ MergeEvents(MergeEvents(server, c), d)
                         = MergeEvents(MergeEvents(server, d), c)
  BY ContentsAgree DEF OrderFree, TypeInv, Clear
<1>1. PICK a : a = said
  OBVIOUS
<1>2. /\ Spoken(a) /\ Transcript(server, a) /\ Recorded(server, a)
      /\ Transcript(c, a) /\ Transcript(d, a)
  BY <1>1 DEF Inv
<1>3. PICK m, n : m = MergeEvents(server, c) /\ n = MergeEvents(server, d)
  OBVIOUS
<1>4. Transcript(m, a) /\ Recorded(m, a) /\ Transcript(n, a) /\ Recorded(n, a)
  BY <1>2, <1>3, MergeFacts
<1>5. PICK u, v, w : /\ u = MergeEvents(m, c) /\ v = MergeEvents(m, d)
                     /\ w = MergeEvents(n, c)
  OBVIOUS
<1>6. Transcript(u, a) /\ Transcript(v, a) /\ Transcript(w, a)
  BY <1>2, <1>4, <1>5, MergeFacts
<1> DEFINE Union(x, y) ==
      {e \in ToSet(a) : (Durable(e, a) /\ e \in ToSet(x) \cup ToSet(y)) \/ Final(e, a)}
<1>7. ToSet(m) = Union(server, c) /\ ToSet(n) = Union(server, d)
  BY <1>2, <1>3, MergeHolds
<1>8. ToSet(u) = Union(m, c) /\ ToSet(v) = Union(m, d) /\ ToSet(w) = Union(n, c)
  BY <1>2, <1>4, <1>5, MergeHolds
<1>9. ToSet(u) = ToSet(m)
  BY <1>7, <1>8
<1>10. ToSet(v) = ToSet(w)
  BY <1>7, <1>8
<1>11. u = m /\ v = w
  BY <1>2, <1>4, <1>6, <1>9, <1>10, SameTranscript
<1>12. QED
  BY <1>3, <1>5, <1>11

(* However often copies are saved again, however late and in whatever      *)
(* order they arrive, the server has no more occurrences than were said    *)
(* and the last terminal marker of every run, and the same record in the   *)
(* end, as far as signatures tell the runs and times the order of events,  *)
(* for any number of runs, texts, events and copies (MergeEvents).         *)
THEOREM StoredTrue == Spec => []StoredIsTrue
<1>1. Invariant => StoredIsTrue
  BY StoredOnce, LatestStays, OrderForgotten DEF Invariant, StoredIsTrue
<1>2. QED
  BY <1>1, InvHolds, PTL

============================================================================
