------------------------ MODULE RankedQueriesProofs ------------------------
(***************************************************************************)
(* Proofs about RankedQueries: the sums that weigh documents and bound     *)
(* lists, the queue of the best scores, and what every query keeps to.     *)
(***************************************************************************)
EXTENDS RankedQueries, SortedSequencesProofs, SequenceTheorems

-----------------------------------------------------------------------------
(* Where the cursors land. *)

\* The documents are numbers below num_docs, which stands for the end.
LEMMA Documents ==
  /\ num_docs \in Nat /\ num_docs > 0
  /\ \A S \in SUBSET Document : \A d \in S : d \in Nat /\ d < num_docs
BY NumDocsAssumption DEF NumDocsAssumption, Document

\* What FirstFrom finds: num_docs when no document is left.
LEMMA FirstFromFinds ==
  ASSUME NEW S \in SUBSET (0..num_docs), NEW b \in Nat
  PROVE  /\ FirstFrom(S, b) \in S \cup {num_docs}
         /\ FirstFrom(S, b) \in 0..num_docs
         /\ FirstFrom(S, b) >= b \/ FirstFrom(S, b) = num_docs
         /\ \A e \in S : e >= b => FirstFrom(S, b) <= e
<1> DEFINE Found(d) == /\ d >= b \/ d = num_docs
                       /\ \A e \in S : e >= b => d <= e
<1>1. num_docs \in Nat
  BY NumDocsAssumption DEF NumDocsAssumption
<1>2. \E d \in S \cup {num_docs} : Found(d)
  BY <1>1, FirstExists
<1>3. FirstFrom(S, b) = CHOOSE d \in S \cup {num_docs} : Found(d)
  BY DEF FirstFrom
<1>4. FirstFrom(S, b) \in S \cup {num_docs} /\ Found(FirstFrom(S, b))
  BY <1>2, <1>3
<1>5. S \cup {num_docs} \subseteq 0..num_docs
  BY <1>1
<1> QED
  BY <1>4, <1>5

\* FirstFrom on a posting list, as next() and next_geq() use it.
LEMMA FirstFromInList ==
  ASSUME NEW S \in SUBSET Document, NEW b \in 0..num_docs
  PROVE  /\ FirstFrom(S, b) \in S \cup {num_docs}
         /\ FirstFrom(S, b) \in 0..num_docs
         /\ b <= FirstFrom(S, b)
         /\ \A e \in S : e >= b => FirstFrom(S, b) <= e
<1>1. S \in SUBSET (0..num_docs) /\ b \in Nat /\ b <= num_docs
  BY Documents DEF Document
<1> QED
  BY <1>1, FirstFromFinds, Documents

LEMMA LeastIsFirst ==
  ASSUME NEW S \in SUBSET Document
  PROVE  /\ Least(S) \in S \cup {num_docs}
         /\ Least(S) \in 0..num_docs
         /\ \A e \in S : Least(S) <= e
<1>1. 0 \in 0..num_docs /\ \A e \in S : e >= 0
  BY Documents
<1> QED
  BY <1>1, FirstFromInList DEF Least

\* The least of the documents the cursors are on is one of them.
LEMMA LeastCursor ==
  ASSUME NEW n \in Nat, n # 0, NEW on \in [1..n -> 0..num_docs]
  PROVE  LET c == Least({on[k] : k \in 1..n})
         IN  /\ c \in 0..num_docs
             /\ c = num_docs \/ \E k \in 1..n : on[k] = c
             /\ \A k \in 1..n : c <= on[k]
<1> DEFINE S == {on[k] : k \in 1..n}
<1>1. S \in SUBSET (0..num_docs)
  OBVIOUS
<1>2. /\ Least(S) \in S \cup {num_docs} /\ Least(S) \in 0..num_docs
      /\ \A e \in S : e >= 0 => Least(S) <= e
  BY <1>1, FirstFromFinds DEF Least
<1>3. \A k \in 1..n : on[k] \in S /\ on[k] >= 0
  OBVIOUS
<1> QED
  BY <1>2, <1>3

-----------------------------------------------------------------------------
(* What the weights and the bounds of a query are. *)

\* The input of a query does not change: the lists it has and their weights.
InputOK ==
  /\ query \in Queries
  /\ K \in Sizes
  /\ count \in Nat \ {0}
  /\ terms \in [1..count -> 1..Len(index)]
  /\ q_weight \in [1..count -> Nat \ {0}]
  /\ \A k \in 1..count : q_weight[k] = 1 \/ q_weight[k] \in Repetitions[query]

\* What a list of the query holds.
LEMMA ListsAre ==
  ASSUME InputOK
  PROVE  \A k \in 1..count :
           /\ Docs(k) \in SUBSET Document /\ IsFiniteSet(Docs(k))
           /\ \A d \in Docs(k) : freq(k)[d] \in Nat \ {0}
<1> SUFFICES ASSUME NEW k \in 1..count
             PROVE  /\ Docs(k) \in SUBSET Document /\ IsFiniteSet(Docs(k))
                    /\ \A d \in Docs(k) : freq(k)[d] \in Nat \ {0}
  OBVIOUS
<1>1. terms[k] \in 1..Len(index)
  BY DEF InputOK
<1>2. /\ Docs(k) \in SUBSET Document
      /\ \A d \in Docs(k) : freq(k)[d] \in Nat \ {0}
  BY <1>1, RankedAssumption DEF RankedAssumption, Docs, freq
<1>3. IsFiniteSet(Document)
  BY Documents, FS_Interval DEF Document
<1> QED
  BY <1>2, <1>3, FS_Subset

\* A document weighs at most its frequency, and that at most the list's bound.
LEMMA WeightsAre ==
  ASSUME InputOK, NEW k \in 1..count
  PROVE  /\ max_term_weight(k) \in Nat
         /\ \A d \in Docs(k) : /\ doc_term_weight(k, d) \in Nat
                               /\ doc_term_weight(k, d) <= max_term_weight(k)
<1> DEFINE weights == {freq(k)[d] : d \in Docs(k)}
<1>1. /\ Docs(k) \in SUBSET Document /\ IsFiniteSet(Docs(k))
      /\ \A d \in Docs(k) : freq(k)[d] \in Nat \ {0}
  BY ListsAre
<1>2. \A d \in Docs(k) : /\ doc_term_weight(k, d) \in Nat
                         /\ doc_term_weight(k, d) <= freq(k)[d]
  <2> SUFFICES ASSUME NEW d \in Docs(k)
               PROVE  /\ doc_term_weight(k, d) \in Nat
                      /\ doc_term_weight(k, d) <= freq(k)[d]
    OBVIOUS
  <2> DEFINE w == freq(k)[d]
  <2>1. w \in Nat \ {0}
    BY <1>1
  <2> HIDE DEF w
  <2>2. (w + 1) \div 2 \in Nat /\ (w + 1) \div 2 <= w
    BY <2>1
  <2> QED
    BY <2>1, <2>2 DEF doc_term_weight, w
<1>3. weights \in SUBSET Nat
  BY <1>1
<1>4. IsFiniteSet(weights)
  <2> DEFINE image == [d \in Docs(k) |-> freq(k)[d]]
  <2>1. image \in Surjection(Docs(k), weights)
    BY DEF Surjection
  <2> QED
    BY <1>1, <2>1, FS_Surjection
<1>5. max_term_weight(k) = IF weights = {} THEN 0 ELSE CHOOSE x \in weights : \A y \in weights : x >= y
  BY DEF max_term_weight, Max0, Max
<1>6. /\ max_term_weight(k) \in Nat
      /\ \A w \in weights : w <= max_term_weight(k)
  <2>1. CASE weights = {}
    BY <1>5, <2>1
  <2>2. CASE weights # {}
    <3> HIDE DEF weights
    <3>1. PICK g \in weights : \A y \in weights : g >= y
      BY <1>3, <1>4, <2>2, FiniteGreatest
    <3> DEFINE m == CHOOSE x \in weights : \A y \in weights : x >= y
    <3>2. m \in weights /\ \A y \in weights : m >= y
      BY <3>1
    <3>3. max_term_weight(k) = m
      BY <1>5, <2>2
    <3> HIDE DEF m
    <3> QED
      BY <1>3, <3>2, <3>3
  <2> QED
    BY <2>1, <2>2
<1>7. \A d \in Docs(k) : freq(k)[d] <= max_term_weight(k)
  BY <1>6
<1> QED
  <2> SUFFICES ASSUME NEW d \in Docs(k)
               PROVE  doc_term_weight(k, d) <= max_term_weight(k)
    BY <1>2, <1>6
  <2>1. doc_term_weight(k, d) <= freq(k)[d] /\ freq(k)[d] <= max_term_weight(k)
    BY <1>2, <1>7
  <2>2. doc_term_weight(k, d) \in Nat /\ freq(k)[d] \in Nat /\ max_term_weight(k) \in Nat
    BY <1>1, <1>2, <1>6
  <2> QED
    BY <2>1, <2>2

\* The weight of each list for a document, and the totals the code adds up.
Weight(d) == [k \in 1..count |-> q_weight[k] * doc_term_weight(k, d)]

Bound == [p \in 1..count |-> max_weight(order[p])]

\* A list gives a document a natural number.
LEMMA WeightIsNat ==
  ASSUME InputOK, NEW k \in 1..count, NEW d \in Docs(k)
  PROVE  Weight(d)[k] \in Nat
<1>1. q_weight[k] \in Nat /\ doc_term_weight(k, d) \in Nat
  BY WeightsAre DEF InputOK
<1> QED
  BY <1>1 DEF Weight

\* The score of the code, a fold over a set of lists, is a total.
LEMMA ScoreIs ==
  ASSUME InputOK, NEW d, NEW ks \in SUBSET {k \in 1..count : d \in Docs(k)}
  PROVE  /\ ScoreOf(d, ks) = Total(Weight(d), ks)
         /\ IsFiniteSet(ks)
         /\ \A k \in ks : Weight(d)[k] \in Nat
<1> DEFINE f == Weight(d)
           E(sum) == sum = [s \in SUBSET ks |->
             IF s = {} THEN 0
             ELSE q_weight[CHOOSE x \in s : TRUE]
                    * doc_term_weight(CHOOSE x \in s : TRUE, d)
                  + sum[s \ {CHOOSE x \in s : TRUE}]]
<1>1. \A k \in ks : f[k] \in Nat
  BY WeightIsNat
<1>2. IsFiniteSet(ks)
  <2>1. IsFiniteSet(1..count) /\ ks \in SUBSET (1..count)
    BY FS_Interval DEF InputOK
  <2> QED
    BY <2>1, FS_Subset
<1>3. ScoreOf(d, ks) = (CHOOSE sum : E(sum))[ks]
  BY DEF ScoreOf, MapThenSumSet, MapThenFoldSet
<1>4. \A sum : E(sum) <=> IsSum(sum, f, ks)
  <2> SUFFICES ASSUME NEW sum PROVE E(sum) <=> IsSum(sum, f, ks)
    OBVIOUS
  <2>1. ASSUME NEW s \in SUBSET ks, s # {}
        PROVE  f[Chosen(s)] = q_weight[CHOOSE x \in s : TRUE]
                                * doc_term_weight(CHOOSE x \in s : TRUE, d)
    <3>1. Chosen(s) \in ks
      BY <2>1 DEF Chosen
    <3> QED
      BY <3>1 DEF Chosen, Weight
  <2>2. [s \in SUBSET ks |->
           IF s = {} THEN 0 ELSE f[Chosen(s)] + sum[s \ {Chosen(s)}]]
        = [s \in SUBSET ks |->
             IF s = {} THEN 0
             ELSE q_weight[CHOOSE x \in s : TRUE]
                    * doc_term_weight(CHOOSE x \in s : TRUE, d)
                  + sum[s \ {CHOOSE x \in s : TRUE}]]
    BY <2>1 DEF Chosen
  <2> QED
    BY <2>2 DEF IsSum
<1> HIDE DEF E, f
<1>5. (CHOOSE sum : E(sum)) = (CHOOSE sum : IsSum(sum, f, ks))
  BY <1>4
<1>6. Total(f, ks) = (CHOOSE sum : IsSum(sum, f, ks))[ks]
  BY DEF Total
<1>7. ScoreOf(d, ks) = Total(f, ks)
  BY <1>3, <1>5, <1>6
<1> QED
  BY <1>1, <1>2, <1>7 DEF f

\* So is the upper bound of the first p lists.
LEMMA UpperBoundIs ==
  ASSUME InputOK, order \in [1..count -> 1..count], NEW p \in 0..count
  PROVE  /\ UpperBound(p) = Total(Bound, 1..p)
         /\ IsFiniteSet(1..p)
         /\ \A j \in 1..p : Bound[j] \in Nat
<1> DEFINE E(sum) == sum = [s \in SUBSET (1..p) |->
             IF s = {} THEN 0
             ELSE max_weight(order[CHOOSE x \in s : TRUE])
                  + sum[s \ {CHOOSE x \in s : TRUE}]]
<1>0. 1..p \subseteq 1..count /\ count \in Nat
  BY DEF InputOK
<1>1. \A j \in 1..p : Bound[j] \in Nat
  <2> SUFFICES ASSUME NEW j \in 1..p PROVE Bound[j] \in Nat
    OBVIOUS
  <2> DEFINE k == order[j]
  <2>1. j \in 1..count /\ k \in 1..count
    BY <1>0
  <2>2. Bound[j] = max_weight(k)
    BY <2>1 DEF Bound
  <2> HIDE DEF k
  <2>3. max_term_weight(k) \in Nat /\ q_weight[k] \in Nat
    BY <2>1, WeightsAre DEF InputOK
  <2> QED
    BY <2>2, <2>3 DEF max_weight
<1>2. IsFiniteSet(1..p)
  BY FS_Interval
<1>3. UpperBound(p) = (CHOOSE sum : E(sum))[1..p]
  BY DEF UpperBound, MapThenSumSet, MapThenFoldSet
<1>4. \A sum : E(sum) <=> IsSum(sum, Bound, 1..p)
  <2> SUFFICES ASSUME NEW sum PROVE E(sum) <=> IsSum(sum, Bound, 1..p)
    OBVIOUS
  <2>1. ASSUME NEW s \in SUBSET (1..p), s # {}
        PROVE  Bound[Chosen(s)] = max_weight(order[CHOOSE x \in s : TRUE])
    <3>1. Chosen(s) \in 1..count
      BY <1>0, <2>1 DEF Chosen
    <3> QED
      BY <3>1 DEF Chosen, Bound
  <2>2. [s \in SUBSET (1..p) |->
           IF s = {} THEN 0 ELSE Bound[Chosen(s)] + sum[s \ {Chosen(s)}]]
        = [s \in SUBSET (1..p) |->
             IF s = {} THEN 0
             ELSE max_weight(order[CHOOSE x \in s : TRUE])
                  + sum[s \ {CHOOSE x \in s : TRUE}]]
    BY <2>1 DEF Chosen
  <2> QED
    BY <2>2 DEF IsSum
<1> HIDE DEF E
<1>5. (CHOOSE sum : E(sum)) = (CHOOSE sum : IsSum(sum, Bound, 1..p))
  BY <1>4
<1>6. Total(Bound, 1..p) = (CHOOSE sum : IsSum(sum, Bound, 1..p))[1..p]
  BY DEF Total
<1>7. UpperBound(p) = Total(Bound, 1..p)
  BY <1>3, <1>5, <1>6
<1> QED
  BY <1>1, <1>2, <1>7

-----------------------------------------------------------------------------
(* The queue of the best scores. *)

\* How many scores of a queue are not below a score.
AtLeast(q, s) == Cardinality({j \in 1..Len(q) : q[j] >= s})

\* A score is put after those that are not below it.
LEMMA SortedIs ==
  ASSUME NEW q \in Seq(Nat), NEW s \in Nat
  PROVE  /\ AtLeast(q, s) \in 0..Len(q)
         /\ Sorted(q, s) \in Seq(Nat)
         /\ Len(Sorted(q, s)) = Len(q) + 1
         /\ \A j \in 1..(Len(q) + 1) :
              Sorted(q, s)[j] = IF j <= AtLeast(q, s) THEN q[j]
                                ELSE IF j = AtLeast(q, s) + 1 THEN s
                                ELSE q[j - 1]
<1> DEFINE above == {j \in 1..Len(q) : q[j] >= s}
           n == Cardinality(above)
           before == SubSeq(q, 1, n)
           after == SubSeq(q, n + 1, Len(q))
<1>1. Len(q) \in Nat /\ \A j \in 1..Len(q) : q[j] \in Nat
  OBVIOUS
<1>2. n \in 0..Len(q)
  <2>1. IsFiniteSet(1..Len(q)) /\ Cardinality(1..Len(q)) = Len(q)
    BY <1>1, FS_Interval
  <2>2. above \in SUBSET (1..Len(q))
    OBVIOUS
  <2> HIDE DEF above
  <2>3. IsFiniteSet(above) /\ Cardinality(above) <= Len(q)
    BY <2>1, <2>2, FS_Subset
  <2>4. Cardinality(above) \in Nat
    BY <2>3, FS_CardinalityType, Zenon
  <2> QED
    BY <1>1, <2>3, <2>4
<1>3. Sorted(q, s) = InsertAt(q, n + 1, s)
  BY DEF Sorted
<1> HIDE DEF n
<1> DEFINE single == <<s>>
<1>4. /\ before \in Seq(Nat) /\ Len(before) = n
      /\ \A j \in 1..n : before[j] = q[j]
  <2>1. \A j \in 1..n : q[j] \in Nat
    BY <1>1, <1>2
  <2> QED
    BY <1>2, <2>1, SubSeqProperties
<1>5. /\ after \in Seq(Nat) /\ Len(after) = Len(q) - n
      /\ \A j \in 1..(Len(q) - n) : after[j] = q[n + j]
  <2>1. \A j \in (n + 1)..Len(q) : q[j] \in Nat
    BY <1>1, <1>2
  <2>2. n \in Int /\ n + 1 \in Int /\ Len(q) \in Int
    BY <1>1, <1>2
  <2>3. /\ after \in Seq(Nat)
        /\ Len(after) = IF n + 1 <= Len(q) THEN Len(q) - (n + 1) + 1 ELSE 0
        /\ \A j \in 1..(Len(q) - (n + 1) + 1) : after[j] = q[n + 1 + j - 1]
    BY <2>1, <2>2, SubSeqProperties
  <2> HIDE DEF after
  <2> QED
    BY <1>1, <1>2, <2>3
<1>6. single \in Seq(Nat) /\ Len(single) = 1 /\ single[1] = s
  OBVIOUS
<1> DEFINE front == before \o single
<1>10. Sorted(q, s) = front \o after
  <2>1. Sorted(q, s) = (SubSeq(q, 1, (n + 1) - 1) \o single) \o after
    BY <1>3 DEF InsertAt
  <2>2. SubSeq(q, 1, (n + 1) - 1) = before
    <3>1. (n + 1) - 1 = n
      BY <1>2
    <3> QED
      BY <3>1, Zenon
  <2> HIDE DEF before, single, after
  <2> QED
    BY <2>1, <2>2, Zenon
<1> HIDE DEF before, after, single
<1>7. /\ front \in Seq(Nat) /\ Len(front) = n + 1
      /\ \A j \in 1..(n + 1) :
           front[j] = IF j <= n THEN before[j] ELSE single[j - n]
  <2>1. /\ front \in Seq(Nat) /\ Len(front) = Len(before) + Len(single)
        /\ \A j \in 1..(Len(before) + Len(single)) :
             front[j] = IF j <= Len(before) THEN before[j]
                        ELSE single[j - Len(before)]
    BY <1>4, <1>6, ConcatProperties, Zenon
  <2> HIDE DEF front
  <2> QED
    BY <1>4, <1>6, <2>1
<1> HIDE DEF front
<1> DEFINE whole == front \o after
<1>8. /\ whole \in Seq(Nat) /\ Len(whole) = n + 1 + (Len(q) - n)
      /\ \A j \in 1..(n + 1 + (Len(q) - n)) :
           whole[j] = IF j <= n + 1 THEN front[j] ELSE after[j - (n + 1)]
  <2>1. /\ whole \in Seq(Nat) /\ Len(whole) = Len(front) + Len(after)
        /\ \A j \in 1..(Len(front) + Len(after)) :
             whole[j] = IF j <= Len(front) THEN front[j]
                        ELSE after[j - Len(front)]
    BY <1>5, <1>7, ConcatProperties, Zenon
  <2> HIDE DEF whole
  <2> QED
    BY <1>5, <1>7, <2>1
<1>11. Sorted(q, s) = whole
  BY <1>10
<1> HIDE DEF whole
<1>9. ASSUME NEW j \in 1..(Len(q) + 1)
      PROVE  whole[j] = IF j <= n THEN q[j]
                                   ELSE IF j = n + 1 THEN s ELSE q[j - 1]
  <2>0. /\ j \in Nat /\ n \in Nat /\ j \in 1..(n + 1 + (Len(q) - n))
    BY <1>1, <1>2
  <2>1. CASE j <= n
    <3>1. j \in 1..n /\ j \in 1..(n + 1) /\ j <= n + 1
      BY <2>0, <2>1
    <3>2. whole[j] = front[j]
      BY <1>8, <2>0, <3>1, Zenon
    <3>3. front[j] = before[j]
      BY <1>7, <2>1, <3>1, Zenon
    <3>4. before[j] = q[j]
      BY <1>4, <3>1, Zenon
    <3> QED
      BY <2>1, <3>2, <3>3, <3>4, Zenon
  <2>2. CASE j = n + 1
    <3>1. j - n = 1 /\ j \in 1..(n + 1) /\ ~(j <= n) /\ j <= n + 1
      BY <2>0, <2>2
    <3>2. whole[j] = front[j]
      BY <1>8, <2>0, <3>1, Zenon
    <3>3. front[j] = single[1]
      BY <1>7, <3>1, Zenon
    <3> QED
      BY <1>6, <2>2, <3>1, <3>2, <3>3, Zenon
  <2>3. CASE j > n + 1
    <3>1. /\ j - (n + 1) \in 1..(Len(q) - n) /\ n + (j - (n + 1)) = j - 1
          /\ ~(j <= n) /\ ~(j <= n + 1) /\ j # n + 1
      BY <1>1, <2>0, <2>3
    <3>2. whole[j] = after[j - (n + 1)]
      BY <1>8, <2>0, <3>1, Zenon
    <3>3. after[j - (n + 1)] = q[n + (j - (n + 1))]
      BY <1>5, <3>1, Zenon
    <3> QED
      BY <3>1, <3>2, <3>3, Zenon
  <2> QED
    BY <2>0, <2>1, <2>2, <2>3
<1>12. Len(whole) = Len(q) + 1
  BY <1>1, <1>2, <1>8
<1>13. AtLeast(q, s) = n
  BY DEF AtLeast, n
<1> QED
  BY <1>2, <1>8, <1>9, <1>11, <1>12, <1>13

\* insert keeps the queue to its size.
LEMMA InsertIs ==
  ASSUME K \in Nat \ {0}, NEW q \in Seq(Nat), Len(q) <= K, NEW s \in Nat
  PROVE  /\ insert(q, s) \in Seq(Nat)
         /\ Len(insert(q, s)) <= K
         /\ Len(q) < K => insert(q, s) = Sorted(q, s)
         /\ Len(q) = K /\ s > q[K] =>
              /\ Len(insert(q, s)) = K
              /\ \A j \in 1..K : insert(q, s)[j] = Sorted(q, s)[j]
         /\ Len(q) = K /\ ~(s > q[K]) => insert(q, s) = q
<1> DEFINE r == Sorted(q, s)
<1>1. Len(q) \in Nat /\ r \in Seq(Nat) /\ Len(r) = Len(q) + 1
  <2>1. r \in Seq(Nat) /\ Len(r) = Len(q) + 1
    BY SortedIs, Zenon
  <2> QED
    BY <2>1
<1> HIDE DEF r
<1>2. CASE Len(q) < K
  <2>1. insert(q, s) = r
    BY <1>2 DEF insert, r
  <2> QED
    BY <1>1, <1>2, <2>1 DEF r
<1>3. CASE Len(q) = K /\ s > q[K]
  <2> DEFINE front == SubSeq(r, 1, K)
  <2>1. insert(q, s) = SubSeq(r, 1, Len(r) - 1)
    BY <1>1, <1>3 DEF insert, Front, r
  <2>2. Len(r) - 1 = K /\ \A j \in 1..K : r[j] \in Nat
    BY <1>1, <1>3
  <2>3. insert(q, s) = front
    BY <2>1, <2>2, Zenon
  <2>4. /\ front \in Seq(Nat) /\ Len(front) = IF 1 <= K THEN K - 1 + 1 ELSE 0
        /\ \A j \in 1..(K - 1 + 1) : front[j] = r[1 + j - 1]
    <3>1. 1 \in Int /\ K \in Int
      OBVIOUS
    <3> QED
      BY <2>2, <3>1, SubSeqProperties
  <2> HIDE DEF front
  <2>5. Len(front) = K /\ \A j \in 1..K : front[j] = r[j]
    BY <2>4
  <2> QED
    BY <1>3, <2>3, <2>4, <2>5 DEF r
<1>4. CASE Len(q) = K /\ ~(s > q[K])
  BY <1>1, <1>4 DEF insert
<1> QED
  BY <1>1, <1>2, <1>3, <1>4

-----------------------------------------------------------------------------
(* Cursors and orders. *)

CursorsOK ==
  /\ docid \in [1..count -> 0..num_docs]
  /\ \A k \in 1..count : docid[k] \in Docs(k) \cup {num_docs}

\* Every list has one place.
IsOrder(o) ==
  /\ o \in [1..count -> 1..count]
  /\ \A p, q \in 1..count : o[p] = o[q] => p = q

\* An order has a place for every list.
LEMMA OrderIsOnto ==
  ASSUME count \in Nat, NEW o, IsOrder(o)
  PROVE  \A k \in 1..count : \E p \in 1..count : o[p] = k
<1>1. IsFiniteSet(1..count)
  BY FS_Interval
<1>2. o \in Injection(1..count, 1..count)
  BY DEF IsOrder, Injection, IsInjective
<1>3. o \in Surjection(1..count, 1..count)
  BY <1>1, <1>2, FS_Injection
<1> QED
  BY <1>3 DEF Surjection

FirstOf(o, p) == {o[j] : j \in 1..p}

\* The weights of the first places of an order are those of the lists there.
LEMMA TotalOver ==
  ASSUME count \in Nat, NEW f, \A k \in 1..count : f[k] \in Nat,
         NEW o, IsOrder(o), NEW p \in 0..count,
         NEW g, \A j \in 1..count : g[j] = f[o[j]]
  PROVE  /\ Total(g, 1..p) = Total(f, FirstOf(o, p))
         /\ FirstOf(o, p) \in SUBSET (1..count)
         /\ Cardinality(FirstOf(o, p)) = p
<1> DEFINE first(n) == {o[j] : j \in 1..n}
           Good(n) == /\ Total(g, 1..n) = Total(f, first(n))
                      /\ IsFiniteSet(first(n)) /\ Cardinality(first(n)) = n
           Bad == {n \in 0..count : ~Good(n)}
<1>1. o \in [1..count -> 1..count] /\ \A j \in 1..count : g[j] = f[o[j]] /\ g[j] \in Nat
  BY DEF IsOrder
<1>2. \A n \in 0..count : first(n) \in SUBSET (1..count)
  BY <1>1
<1>3. Good(0)
  <2>1. 1..0 = {} /\ first(0) = {}
    OBVIOUS
  <2>2. IsFiniteSet({}) /\ Cardinality({}) = 0
    BY FS_EmptySet
  <2>3. (\A x \in {} : f[x] \in Nat) /\ \A x \in {} : g[x] \in Nat
    OBVIOUS
  <2>4. Total(f, {}) = 0
    BY <2>2, <2>3, TotalIs
  <2>5. Total(g, {}) = 0
    BY <2>2, <2>3, TotalIs
  <2> QED
    BY <2>1, <2>2, <2>4, <2>5
<1>4. ASSUME NEW n \in 0..(count - 1), Good(n)
      PROVE  Good(n + 1)
  <2> DEFINE e == n + 1
             k == o[n + 1]
             places == 1..n
             lists == first(n)
  <2>1. e \in 1..count /\ k \in 1..count /\ n \in 0..count
    BY <1>1
  <2>2. 1..(n + 1) = places \cup {e} /\ e \notin places /\ places \subseteq 1..count
    BY <2>1
  <2>3. first(n + 1) = lists \cup {k}
    BY <2>2
  <2>4. k \notin lists
    BY <2>1, <2>2 DEF IsOrder
  <2>5. IsFiniteSet(places) /\ \A j \in places : g[j] \in Nat
    <3>1. IsFiniteSet(places)
      BY <2>1, FS_Interval
    <3> QED
      BY <1>1, <2>2, <3>1
  <2>6. IsFiniteSet(lists) /\ Cardinality(lists) = n /\ \A j \in lists : f[j] \in Nat
    BY <1>2, <1>4, <2>1
  <2>7. Total(g, places) = Total(f, lists)
    BY <1>4
  <2>8. g[e] = f[k] /\ g[e] \in Nat
    BY <1>1, <2>1
  <2> HIDE DEF e, k, places, lists
  <2>9. Total(g, places \cup {e}) = Total(g, places) + g[e]
    BY <2>2, <2>5, <2>8, TotalAdd
  <2>10. Total(f, lists \cup {k}) = Total(f, lists) + f[k]
    BY <2>4, <2>6, <2>8, TotalAdd
  <2>11. IsFiniteSet(lists \cup {k}) /\ Cardinality(lists \cup {k}) = n + 1
    BY <2>4, <2>6, FS_AddElement
  <2> QED
    BY <2>2, <2>3, <2>7, <2>8, <2>9, <2>10, <2>11
<1> HIDE DEF Good
<1>5. ASSUME Bad # {}
      PROVE  FALSE
  <2>1. Bad \in SUBSET Nat
    OBVIOUS
  <2> HIDE DEF Bad
  <2>2. PICK n \in Bad : \A m \in Bad : n <= m
    BY <1>5, <2>1, LeastElement
  <2>3. n \in 0..count /\ n # 0 /\ ~Good(n)
    BY <1>3, <2>2 DEF Bad
  <2>4. n - 1 \in 0..count /\ n - 1 \in 0..(count - 1) /\ (n - 1) + 1 = n /\ ~(n <= n - 1)
    BY <2>3
  <2>5. Good(n - 1)
    BY <2>2, <2>4 DEF Bad
  <2> QED
    BY <1>4, <2>3, <2>4, <2>5
<1>6. Good(p)
  BY <1>5 DEF Bad
<1> QED
  BY <1>2, <1>6 DEF Good, FirstOf

Ascending(f, o) == \A j \in 2..count : f[o[j - 1]] <= f[o[j]]

\* The weights of the lists, place by place.
Over(f, o) == [j \in 1..count |-> f[o[j]]]

\* The lists that an order by weight puts first weigh no more than as many
\* lists of any other order, with weights that are no smaller.
LEMMA LightestFirst ==
  ASSUME count \in Nat, NEW f, NEW g,
         \A k \in 1..count : f[k] \in Nat /\ g[k] \in Nat /\ f[k] <= g[k],
         NEW o, IsOrder(o), NEW r, IsOrder(r),
         Ascending(f, o),
         NEW p \in 0..count
  PROVE  Total(Over(f, o), 1..p) <= Total(Over(g, r), 1..p)
<1> DEFINE A == FirstOf(o, p)
           B == FirstOf(r, p)
           fo == Over(f, o)
           gr == Over(g, r)
<1>1. /\ Total(fo, 1..p) = Total(f, A)
      /\ A \in SUBSET (1..count) /\ Cardinality(A) = p
  <2>1. \A j \in 1..count : f[j] \in Nat
    OBVIOUS
  <2>2. \A j \in 1..count : fo[j] = f[o[j]]
    BY DEF Over
  <2> HIDE DEF fo
  <2>3. ASSUME NEW h, \A j \in 1..count : h[j] = f[o[j]]
        PROVE  /\ Total(h, 1..p) = Total(f, FirstOf(o, p))
               /\ FirstOf(o, p) \in SUBSET (1..count)
               /\ Cardinality(FirstOf(o, p)) = p
    BY <2>1, <2>3, TotalOver
  <2> QED
    BY <2>2, <2>3
<1>2. /\ Total(gr, 1..p) = Total(g, B)
      /\ B \in SUBSET (1..count) /\ Cardinality(B) = p
  <2>1. \A j \in 1..count : g[j] \in Nat
    OBVIOUS
  <2>2. \A j \in 1..count : gr[j] = g[r[j]]
    BY DEF Over
  <2> HIDE DEF gr
  <2>3. ASSUME NEW h, \A j \in 1..count : h[j] = g[r[j]]
        PROVE  /\ Total(h, 1..p) = Total(g, FirstOf(r, p))
               /\ FirstOf(r, p) \in SUBSET (1..count)
               /\ Cardinality(FirstOf(r, p)) = p
    BY <2>1, <2>3, TotalOver
  <2> QED
    BY <2>2, <2>3
<1>3. IsFiniteSet(1..count)
  BY FS_Interval
<1>4. o \in [1..count -> 1..count]
  BY DEF IsOrder
<1>5. ASSUME NEW m \in 1..count, NEW n \in m..count
      PROVE  f[o[m]] <= f[o[n]]
  <2> DEFINE Bad == {q \in m..count : ~(f[o[m]] <= f[o[q]])}
  <2>1. SUFFICES ASSUME Bad # {} PROVE FALSE
    OBVIOUS
  <2>2. Bad \in SUBSET Nat
    OBVIOUS
  <2>3. PICK q \in Bad : \A e \in Bad : q <= e
    BY <2>1, <2>2, LeastElement
  <2>4. q \in m..count /\ ~(f[o[m]] <= f[o[q]])
    BY <2>3
  <2>5. \A j \in 1..count : f[o[j]] \in Nat
    BY <1>4
  <2>6. q # m
    BY <2>4, <2>5
  <2>7. q - 1 \in m..count /\ q \in 2..count /\ q - 1 \in 1..count /\ q \in 1..count
        /\ ~(q <= q - 1)
    BY <2>4, <2>6
  <2>8. f[o[m]] <= f[o[q - 1]]
    BY <2>3, <2>7
  <2>9. f[o[q - 1]] <= f[o[q]]
    BY <2>7 DEF Ascending
  <2> QED
    BY <2>4, <2>5, <2>7, <2>8, <2>9
<1>6. ASSUME NEW a \in A, NEW b \in 1..count, b \notin A
      PROVE  f[a] <= f[b]
  <2>1. PICK m \in 1..p : o[m] = a
    BY DEF FirstOf
  <2>2. PICK n \in 1..count : o[n] = b
    BY OrderIsOnto
  <2>3. n \notin 1..p
    BY <1>6, <2>2 DEF FirstOf
  <2>4. m \in 1..count /\ n \in m..count
    BY <2>3
  <2> QED
    BY <1>5, <2>1, <2>2, <2>4
<1>7. Total(f, A) <= Total(f, B)
  <2>1. \A a \in A \ B, b \in B \ A : f[a] <= f[b]
    BY <1>2, <1>6
  <2>2. Cardinality(A) <= Cardinality(B)
    BY <1>1, <1>2
  <2> HIDE DEF A, B
  <2> QED
    BY <1>1, <1>2, <1>3, <2>1, <2>2, TotalLightest
<1>8. Total(f, B) <= Total(g, B) /\ Total(f, B) \in Nat /\ Total(g, B) \in Nat
      /\ Total(f, A) \in Nat
  <2> HIDE DEF A, B
  <2>1. /\ IsFiniteSet(B) /\ IsFiniteSet(A)
        /\ \A x \in B : f[x] \in Nat /\ g[x] \in Nat /\ f[x] <= g[x]
        /\ \A x \in A : f[x] \in Nat
    BY <1>1, <1>2, <1>3, FS_Subset
  <2>2. Total(f, B) <= Total(g, B)
    BY <2>1, TotalMonotone
  <2>3. Total(f, B) \in Nat /\ Total(f, A) \in Nat
    BY <2>1, TotalIs
  <2>4. Total(g, B) \in Nat
    BY <2>1, TotalIs
  <2> QED
    BY <2>2, <2>3, <2>4
<1> QED
  BY <1>1, <1>2, <1>7, <1>8

\* Where next_geq lands.
LEMMA NextGeqIs ==
  ASSUME InputOK, NEW k \in 1..count, NEW b \in 0..num_docs
  PROVE  /\ FirstFrom(Docs(k), b) \in Docs(k) \cup {num_docs}
         /\ FirstFrom(Docs(k), b) \in 0..num_docs
         /\ b <= FirstFrom(Docs(k), b)
         /\ \A e \in Docs(k) : e >= b => FirstFrom(Docs(k), b) <= e
<1>1. Docs(k) \in SUBSET Document
  BY ListsAre
<1> QED
  BY <1>1, FirstFromInList

\* What becomes of the cursors that move off a document.
LEMMA MoveOffIs ==
  ASSUME InputOK, CursorsOK, NEW ks, MoveOff(ks), UNCHANGED input
  PROVE  /\ CursorsOK'
         /\ \A k \in 1..count :
              /\ k \notin ks => docid'[k] = docid[k]
              /\ k \in ks /\ docid[k] < num_docs =>
                   /\ docid[k] < docid'[k]
                   /\ \A e \in Docs(k) : e > docid[k] => docid'[k] <= e
<1>1. \A k \in 1..count : Docs(k) \in SUBSET Document /\ docid[k] \in 0..num_docs
  BY ListsAre DEF CursorsOK
<1>2. \A k \in 1..count :
        docid'[k] = IF k \in ks THEN FirstFrom(Docs(k), docid[k] + 1) ELSE docid[k]
  BY DEF MoveOff, After
<1>3. ASSUME NEW k \in 1..count
      PROVE  /\ FirstFrom(Docs(k), docid[k] + 1) \in Docs(k) \cup {num_docs}
             /\ FirstFrom(Docs(k), docid[k] + 1) \in 0..num_docs
             /\ docid[k] < num_docs =>
                  /\ docid[k] < FirstFrom(Docs(k), docid[k] + 1)
                  /\ \A e \in Docs(k) :
                       e > docid[k] => FirstFrom(Docs(k), docid[k] + 1) <= e
  <2> DEFINE S == Docs(k)
             b == docid[k] + 1
             land == FirstFrom(S, b)
  <2>1. S \in SUBSET Document /\ S \in SUBSET (0..num_docs) /\ num_docs \in Nat
    BY <1>1, Documents DEF Document
  <2>2. b \in Nat
    BY <1>1, <2>1
  <2>3. /\ land \in S \cup {num_docs} /\ land \in 0..num_docs
        /\ land >= b \/ land = num_docs
        /\ \A e \in S : e >= b => land <= e
    <3> HIDE DEF S, b
    <3> QED
      BY <2>1, <2>2, FirstFromFinds
  <2>4. \A e \in S : e > docid[k] => e >= b
    BY <1>1, <2>1
  <2>5. docid[k] < num_docs => docid[k] < land
    <3> HIDE DEF land
    <3> QED
      BY <1>1, <2>1, <2>3
  <2> HIDE DEF land
  <2> QED
    BY <2>3, <2>4, <2>5 DEF land
<1>4. UNCHANGED <<terms, count>> /\ \A k \in 1..count : Docs(k)' = Docs(k)
  BY DEF input, count, Docs, freq
<1>5. docid' \in [1..count -> 0..num_docs]
  <2>1. docid' = [k \in 1..count |->
                    IF k \in ks THEN FirstFrom(Docs(k), docid[k] + 1) ELSE docid[k]]
    BY DEF MoveOff, After
  <2>2. \A k \in 1..count :
          (IF k \in ks THEN FirstFrom(Docs(k), docid[k] + 1) ELSE docid[k]) \in 0..num_docs
    BY <1>1, <1>3
  <2> QED
    BY <2>1, <2>2
<1>6. \A k \in 1..count : docid'[k] \in Docs(k) \cup {num_docs}
  BY <1>2, <1>3 DEF CursorsOK
<1>7. CursorsOK'
  BY <1>4, <1>5, <1>6 DEF CursorsOK
<1>8. \A k \in 1..count :
        /\ k \notin ks => docid'[k] = docid[k]
        /\ k \in ks /\ docid[k] < num_docs =>
             /\ docid[k] < docid'[k]
             /\ \A e \in Docs(k) : e > docid[k] => docid'[k] <= e
  BY <1>2, <1>3
<1> QED
  BY <1>7, <1>8

\* The order in which the list of a place has come down to a later one.
Passed(from, m) ==
  [p \in 1..count |-> IF p < from \/ p > m THEN order[p]
                      ELSE IF p < m THEN order[p + 1]
                      ELSE order[from]]

\* The places after a place whose lists are before a document, one after the
\* other, are an interval.
LEMMA BubbleDownIs ==
  ASSUME count \in Nat, IsOrder(order), NEW from \in 1..count, NEW d
  PROVE  \E m \in from..count :
           /\ \A q \in (from + 1)..m : docid[order[q]] < d
           /\ m < count => ~(docid[order[m + 1]] < d)
           /\ BubbleDown(from, d) = Passed(from, m)
<1> DEFINE passing == {p \in (from + 1)..count :
                         \A q \in (from + 1)..p : docid[order[q]] < d}
           ends == {p \in from..count : p = count \/ ~(docid[order[p + 1]] < d)}
<1>1. ends \in SUBSET Nat /\ ends # {}
  <2>1. count \in ends
    OBVIOUS
  <2> QED
    BY <2>1
<1>2. PICK m \in ends : \A e \in ends : m <= e
  BY <1>1, LeastElement
<1>3. m \in from..count /\ (m < count => ~(docid[order[m + 1]] < d))
  BY <1>2
<1>4. \A q \in (from + 1)..m : docid[order[q]] < d
  <2> SUFFICES ASSUME NEW q \in (from + 1)..m, ~(docid[order[q]] < d) PROVE FALSE
    OBVIOUS
  <2>1. q - 1 \in from..count /\ (q - 1) + 1 = q /\ ~(m <= q - 1)
    BY <1>3
  <2>2. q - 1 \in ends
    BY <2>1
  <2> QED
    BY <1>2, <2>1, <2>2
<1>5. passing = (from + 1)..m
  <2>1. ASSUME NEW p \in passing PROVE p \in (from + 1)..m
    <3>1. p \in (from + 1)..count /\ \A q \in (from + 1)..p : docid[order[q]] < d
      OBVIOUS
    <3>2. ASSUME p > m PROVE FALSE
      <4>1. m + 1 \in (from + 1)..p /\ m < count
        BY <1>3, <3>1, <3>2
      <4> QED
        BY <1>3, <3>1, <4>1
    <3> HIDE DEF passing
    <3> QED
      BY <1>3, <3>1, <3>2
  <2>2. ASSUME NEW p \in (from + 1)..m PROVE p \in passing
    <3>1. p \in (from + 1)..count /\ \A q \in (from + 1)..p : q \in (from + 1)..m
      BY <1>3
    <3> QED
      BY <1>4, <3>1
  <2> HIDE DEF passing
  <2> QED
    BY <2>1, <2>2
<1>6. Cardinality(passing) = m - from
  <2>1. from + 1 \in Int /\ m \in Int
    BY <1>3
  <2>2. Cardinality((from + 1)..m) = IF from + 1 > m THEN 0 ELSE m - (from + 1) + 1
    BY <2>1, FS_Interval
  <2> HIDE DEF passing
  <2> QED
    BY <1>3, <1>5, <2>2
<1>7. BubbleDown(from, d) =
        [p \in 1..count |->
           IF p < from \/ p > from + Cardinality(passing) THEN order[p]
           ELSE IF p < from + Cardinality(passing) THEN order[p + 1]
           ELSE order[from]]
  BY DEF BubbleDown
<1>8. from + Cardinality(passing) = m
  <2> HIDE DEF passing
  <2> QED
    BY <1>3, <1>6
<1> HIDE DEF passing
<1>9. BubbleDown(from, d) = Passed(from, m)
  BY <1>7, <1>8 DEF Passed
<1> QED
  BY <1>3, <1>4, <1>9, Zenon

\* A list moved down leaves an order.
LEMMA BubbleDownOrder ==
  ASSUME count \in Nat, IsOrder(order), NEW from \in 1..count, NEW d
  PROVE  IsOrder(BubbleDown(from, d))
<1>1. PICK m \in from..count : BubbleDown(from, d) = Passed(from, m)
  BY BubbleDownIs, Zenon
<1> DEFINE o == BubbleDown(from, d)
           was == [p \in 1..count |->
                     IF p < from \/ p > m THEN p ELSE IF p < m THEN p + 1 ELSE from]
<1>2. was \in [1..count -> 1..count]
  OBVIOUS
<1>3. \A p, q \in 1..count : was[p] = was[q] => p = q
  OBVIOUS
<1>4. o \in [1..count -> 1..count] /\ \A p \in 1..count : o[p] = order[was[p]]
  <2>1. \A p \in 1..count : was[p] \in 1..count
    BY <1>2
  <2>2. \A p \in 1..count :
          (IF p < from \/ p > m THEN order[p]
           ELSE IF p < m THEN order[p + 1] ELSE order[from]) = order[was[p]]
    <3>1. \A p \in 1..count :
            was[p] = IF p < from \/ p > m THEN p ELSE IF p < m THEN p + 1 ELSE from
      OBVIOUS
    <3> HIDE DEF was
    <3> QED
      BY <3>1
  <2>3. \A p \in 1..count : order[was[p]] \in 1..count
    BY <2>1 DEF IsOrder
  <2> HIDE DEF was
  <2>4. Passed(from, m) = [p \in 1..count |-> order[was[p]]]
    BY <2>2 DEF Passed
  <2>5. o = [p \in 1..count |-> order[was[p]]]
    BY <1>1, <2>4
  <2> HIDE DEF o
  <2> QED
    BY <2>3, <2>5
<1> HIDE DEF o, was
<1>5. ASSUME NEW p \in 1..count, NEW q \in 1..count, o[p] = o[q] PROVE p = q
  <2>1. order[was[p]] = order[was[q]] /\ was[p] \in 1..count /\ was[q] \in 1..count
    BY <1>2, <1>4, <1>5
  <2>2. was[p] = was[q]
    BY <2>1, Zenon DEF IsOrder
  <2> QED
    BY <1>3, <2>2
<1> QED
  BY <1>4, <1>5 DEF IsOrder, o

-----------------------------------------------------------------------------
(* The types, with what they rest on. *)

Typed ==
  /\ InputOK
  /\ CursorsOK
  /\ IsOrder(order)
  /\ cur_doc \in 0..num_docs
  /\ i \in 0..(count + 1) \/ i = 2
  /\ score \in Nat
  /\ next_doc \in 0..num_docs
  /\ non_essential \in 0..count
  /\ topk \in Seq(Nat) /\ Len(topk) <= K
  /\ pc \in {"loop", "complete", "insert", "done"}
  /\ pc \in {"complete", "insert"} =>
       /\ query \in {"maxscore", "maxscore_dyn"}
       /\ i \in 0..count /\ cur_doc < num_docs
  /\ query = "ranked_and" =>
       i >= 1 /\ \A j \in 1..count : j < i => docid[order[j]] = cur_doc

\* The query and its index do not change.
LEMMA InputStays ==
  ASSUME InputOK, UNCHANGED input
  PROVE  /\ InputOK'
         /\ UNCHANGED <<query, K, cursor, terms, q_weight, count>>
         /\ \A k : Docs(k)' = Docs(k) /\ freq(k)' = freq(k)
BY DEF InputOK, input, count, Docs, freq

\* The sizes are natural numbers.
LEMMA SizesAre ==
  ASSUME InputOK
  PROVE  /\ K \in Nat \ {0} /\ count \in Nat \ {0}
         /\ num_docs \in Nat \ {0} /\ 0 \in 0..num_docs /\ num_docs \in 0..num_docs
         /\ IsFiniteSet(1..count) /\ Cardinality(1..count) = count
<1>1. K \in Nat \ {0} /\ count \in Nat \ {0}
  BY RankedAssumption DEF InputOK, RankedAssumption
<1>2. num_docs \in Nat \ {0}
  BY NumDocsAssumption DEF NumDocsAssumption
<1>3. IsFiniteSet(1..count) /\ Cardinality(1..count) = IF 1 > count THEN 0 ELSE count - 1 + 1
  BY <1>1, FS_Interval
<1> QED
  BY <1>1, <1>2, <1>3

\* So is a score.
LEMMA ScoreIsNat ==
  ASSUME InputOK, NEW d, NEW ks \in SUBSET {k \in 1..count : d \in Docs(k)}
  PROVE  ScoreOf(d, ks) \in Nat
<1>1. /\ ScoreOf(d, ks) = Total(Weight(d), ks)
      /\ IsFiniteSet(ks) /\ \A k \in ks : Weight(d)[k] \in Nat
  BY ScoreIs
<1> QED
  BY <1>1, TotalIs, Zenon

\* A cursor on a document is on one of its list.
LEMMA OnDocument ==
  ASSUME CursorsOK, NEW d, d < num_docs, NEW k \in 1..count, docid[k] = d
  PROVE  d \in Docs(k)
BY Documents DEF CursorsOK

\* The queue has at most K scores after an insertion.
LEMMA InsertTyped ==
  ASSUME Typed, NEW s \in Nat
  PROVE  insert(topk, s) \in Seq(Nat) /\ Len(insert(topk, s)) <= K
BY SizesAre, InsertIs DEF Typed

\* The types, kept by every action.
LEMMA TypedInit ==
  ASSUME Init
  PROVE  Typed
<1>1. PICK m \in ListCounts :
        terms \in {s \in [1..m -> 1..Len(index)] : \A j \in 2..m : s[j - 1] < s[j]}
  BY DEF Init
<1>2. m \in Nat \ {0} /\ terms \in [1..m -> 1..Len(index)]
  BY <1>1, RankedAssumption DEF RankedAssumption
<1>3. count = m
  BY <1>2 DEF count
<1>4. PICK k \in 1..count : \E r \in Repetitions[query] :
        q_weight = [j \in 1..count |-> IF j = k THEN r ELSE 1]
  BY DEF Init
<1>5. PICK r \in Repetitions[query] :
        q_weight = [j \in 1..count |-> IF j = k THEN r ELSE 1]
  BY <1>4
<1>6. query \in Queries /\ K \in Sizes
  BY DEF Init
<1>7. r \in Nat \ {0}
  BY <1>5, <1>6, RankedAssumption DEF RankedAssumption
<1>8. InputOK
  BY <1>2, <1>3, <1>5, <1>6, <1>7 DEF InputOK
<1>9. CursorsOK
  <2>1. \A j \in 1..count : /\ Least(Docs(j)) \in Docs(j) \cup {num_docs}
                            /\ Least(Docs(j)) \in 0..num_docs
    BY <1>8, ListsAre, LeastIsFirst
  <2>2. docid = [j \in 1..count |-> Least(Docs(j))]
    BY DEF Init
  <2> QED
    BY <2>1, <2>2 DEF CursorsOK
<1>10. IsOrder(order)
  <2>1. Cardinality(1..count) = count
    BY <1>8, SizesAre
  <2>2. CASE query \notin {"ranked_and", "wand", "maxscore", "maxscore_dyn"}
    <3>1. order = [j \in 1..count |-> j]
      BY <2>2 DEF Init
    <3> QED
      BY <3>1 DEF IsOrder
  <2>3. CASE query = "ranked_and"
    BY <2>1, <2>3 DEF Init, SortedBy, IsOrder
  <2>4. CASE query = "wand"
    BY <2>1, <2>4 DEF Init, SortedBy, IsOrder
  <2>5. CASE query = "maxscore"
    BY <2>1, <2>5 DEF Init, SortedBy, IsOrder
  <2>6. CASE query = "maxscore_dyn"
    BY <2>1, <2>6 DEF Init, SortedBy, IsOrder
  <2> QED
    BY <2>2, <2>3, <2>4, <2>5, <2>6
<1>11. cur_doc \in 0..num_docs
  <2>1. 1 \in 1..count
    BY <1>8, SizesAre
  <2>2. docid[order[1]] \in 0..num_docs
    BY <1>9, <1>10, <2>1 DEF CursorsOK, IsOrder
  <2>3. LeastDocid \in 0..num_docs
    <3>1. count \in Nat /\ count # 0 /\ docid \in [1..count -> 0..num_docs]
      BY <1>8, <1>9, SizesAre DEF CursorsOK
    <3> QED
      BY <3>1, LeastCursor DEF LeastDocid
  <2>4. cur_doc = IF query = "ranked_and" THEN docid[order[1]] ELSE LeastDocid
    BY DEF Init
  <2> QED
    BY <2>2, <2>3, <2>4
<1>12. query = "ranked_and" =>
         i >= 1 /\ \A j \in 1..count : j < i => docid[order[j]] = cur_doc
  <2>1. i = 2 /\ (query = "ranked_and" => cur_doc = docid[order[1]])
    BY DEF Init
  <2>2. \A j \in 1..count : j < 2 => j = 1
    BY <1>8, SizesAre
  <2> QED
    BY <2>1, <2>2
<1>13. /\ i = 2 /\ score = 0 /\ next_doc = num_docs /\ non_essential = 0
       /\ topk = <<>> /\ pc = "loop"
  BY DEF Init
<1>14. topk \in Seq(Nat) /\ Len(topk) <= K
  BY <1>8, <1>13, SizesAre
<1> QED
  BY <1>8, <1>9, <1>10, <1>11, <1>12, <1>13, <1>14, SizesAre DEF Typed

LEMMA TypedOr ==
  ASSUME Typed, OrDocument
  PROVE  Typed'
<1> DEFINE on == {k \in 1..count : docid[k] = cur_doc}
<1>1. /\ query = "ranked_or" /\ pc = "loop" /\ cur_doc < num_docs
      /\ topk' = insert(topk, ScoreOf(cur_doc, on))
      /\ MoveOff(on)
      /\ cur_doc' = Least({docid'[k] : k \in 1..count})
      /\ UNCHANGED <<input, order, i, score, next_doc, non_essential, pc>>
  BY DEF OrDocument, Iterate
<1>2. InputOK /\ CursorsOK
  BY DEF Typed
<1>3. /\ InputOK' /\ UNCHANGED <<query, K, count>>
  BY <1>1, <1>2, InputStays
<1>4. CursorsOK'
  BY <1>1, <1>2, MoveOffIs
<1>5. cur_doc' \in 0..num_docs
  <2>1. count \in Nat /\ count # 0 /\ docid' \in [1..count -> 0..num_docs]
    BY <1>2, <1>3, <1>4, SizesAre DEF CursorsOK
  <2> QED
    BY <1>1, <2>1, LeastCursor
<1>6. topk' \in Seq(Nat) /\ Len(topk') <= K
  <2>1. on \in SUBSET {k \in 1..count : cur_doc \in Docs(k)}
    BY <1>1, <1>2, OnDocument
  <2>2. ScoreOf(cur_doc, on) \in Nat
    BY <1>2, <2>1, ScoreIsNat
  <2> QED
    BY <1>1, <2>2, InsertTyped
<1> QED
  BY <1>1, <1>3, <1>4, <1>5, <1>6 DEF Typed, IsOrder

LEMMA TypedAndProbe ==
  ASSUME Typed, AndProbe
  PROVE  Typed'
<1> DEFINE k == order[i]
           d == FirstFrom(Docs(k), cur_doc)
<1>1. /\ query = "ranked_and" /\ pc = "loop" /\ cur_doc < num_docs /\ i <= count
      /\ docid' = [docid EXCEPT ![k] = d]
      /\ i' = IF d = cur_doc THEN i + 1 ELSE 1
      /\ cur_doc' = d
      /\ UNCHANGED <<input, order, score, next_doc, non_essential, topk, pc>>
  BY DEF AndProbe, Iterate
<1>2. /\ InputOK /\ CursorsOK /\ IsOrder(order) /\ count \in Nat \ {0}
      /\ i >= 1 /\ \A j \in 1..count : j < i => docid[order[j]] = cur_doc
      /\ cur_doc \in 0..num_docs
  BY <1>1, SizesAre DEF Typed
<1>3. /\ InputOK' /\ UNCHANGED <<query, K, count>>
      /\ \A j \in 1..count : Docs(j)' = Docs(j)
  BY <1>1, <1>2, InputStays
<1>4. i \in 1..count /\ k \in 1..count
  BY <1>1, <1>2 DEF Typed, IsOrder
<1> HIDE DEF k
<1>5. d \in Docs(k) \cup {num_docs} /\ d \in 0..num_docs
  BY <1>2, <1>4, NextGeqIs
<1> HIDE DEF d
<1>6. CursorsOK'
  BY <1>1, <1>2, <1>3, <1>4, <1>5 DEF CursorsOK
<1>7. i' >= 1 /\ i' \in 0..(count + 1)
  BY <1>1, <1>2, <1>4
<1>8. \A j \in 1..count : j < i' => docid'[order[j]] = cur_doc'
  <2>1. CASE d = cur_doc
    <3> SUFFICES ASSUME NEW j \in 1..count, j < i'
                 PROVE  docid'[order[j]] = cur_doc'
      OBVIOUS
    <3>1. i' = i + 1 /\ cur_doc' = cur_doc
      BY <1>1, <2>1
    <3>2. CASE j = i
      BY <1>1, <1>2, <1>4, <2>1, <3>1, <3>2 DEF CursorsOK, k
    <3>3. CASE j < i
      BY <1>1, <1>2, <1>4, <2>1, <3>1, <3>3 DEF CursorsOK, IsOrder
    <3> QED
      BY <1>4, <3>1, <3>2, <3>3
  <2>2. CASE d # cur_doc
    BY <1>1, <2>2
  <2> QED
    BY <2>1, <2>2
<1> QED
  BY <1>1, <1>3, <1>5, <1>6, <1>7, <1>8 DEF Typed, IsOrder

LEMMA TypedAndMatch ==
  ASSUME Typed, AndMatch
  PROVE  Typed'
<1>1. /\ query = "ranked_and" /\ pc = "loop" /\ cur_doc < num_docs /\ i = count + 1
      /\ topk' = insert(topk, ScoreOf(cur_doc, 1..count))
      /\ MoveOff({order[1]})
      /\ cur_doc' = docid'[order[1]]
      /\ i' = 2
      /\ UNCHANGED <<input, order, score, next_doc, non_essential, pc>>
  BY DEF AndMatch, Iterate
<1>2. /\ InputOK /\ CursorsOK /\ IsOrder(order) /\ count \in Nat \ {0}
      /\ \A j \in 1..count : j < i => docid[order[j]] = cur_doc
  BY <1>1, SizesAre DEF Typed
<1>3. /\ InputOK' /\ UNCHANGED <<query, K, count>>
  BY <1>1, <1>2, InputStays
<1>4. CursorsOK'
  BY <1>1, <1>2, MoveOffIs
<1>5. order[1] \in 1..count
  BY <1>2 DEF IsOrder
<1>6. cur_doc' \in 0..num_docs
  BY <1>1, <1>3, <1>4, <1>5 DEF CursorsOK
<1>7. topk' \in Seq(Nat) /\ Len(topk') <= K
  <2>1. \A k \in 1..count : docid[k] = cur_doc
    <3>1. \A k \in 1..count : \E p \in 1..count : order[p] = k
      BY <1>2, OrderIsOnto
    <3>2. \A p \in 1..count : p < i
      BY <1>1, <1>2
    <3> QED
      BY <1>2, <3>1, <3>2
  <2>2. 1..count \in SUBSET {k \in 1..count : cur_doc \in Docs(k)}
    BY <1>1, <1>2, <2>1, OnDocument
  <2>3. ScoreOf(cur_doc, 1..count) \in Nat
    BY <1>2, <2>2, ScoreIsNat
  <2> QED
    BY <1>1, <2>3, InsertTyped
<1>8. \A j \in 1..count : j < 2 => docid'[order[j]] = cur_doc'
  <2>1. \A j \in 1..count : j < 2 => j = 1
    BY <1>2
  <2> QED
    BY <1>1, <2>1
<1> QED
  BY <1>1, <1>3, <1>4, <1>6, <1>7, <1>8 DEF Typed, IsOrder

\* The places of wand_query and what is scored there.
LEMMA TypedWandMatch ==
  ASSUME Typed, WandMatch
  PROVE  Typed'
<1> DEFINE d == docid[order[1]]
           on == {order[q] : q \in {p \in 1..count :
                    \A r \in 1..p : docid[order[r]] = d}}
<1>1. /\ query = "wand" /\ pc = "loop"
      /\ \E p \in 1..count : IsPivot(p) /\ docid[order[p]] = docid[order[1]]
      /\ topk' = insert(topk, ScoreOf(d, on))
      /\ MoveOff(on)
      /\ UNCHANGED <<input, cur_doc, i, score, next_doc, non_essential, pc>>
  BY DEF WandMatch
<1>2. order' \in {o \in [1..Cardinality(1..count) -> 1..count] :
         \A p, q \in 1..Cardinality(1..count) : o[p] = o[q] => p = q}
  BY DEF WandMatch, SortedBy
<1>3. InputOK /\ CursorsOK /\ IsOrder(order) /\ count \in Nat \ {0}
      /\ num_docs \in Nat /\ Cardinality(1..count) = count
  BY SizesAre DEF Typed
<1>4. /\ InputOK' /\ UNCHANGED <<query, K, count>>
  BY <1>1, <1>3, InputStays
<1>5. CursorsOK'
  BY <1>1, <1>3, MoveOffIs
<1>6. IsOrder(order')
  BY <1>2, <1>3 DEF IsOrder
<1>7. (IsOrder(order))'
  BY <1>4, <1>6 DEF IsOrder
<1>8. topk' \in Seq(Nat) /\ Len(topk') <= K
  <2>1. d < num_docs
    <3>1. PICK p \in 1..count : IsPivot(p)
      BY <1>1
    <3>2. 1 \in 1..p /\ order[1] \in 1..count
      BY <1>3 DEF IsOrder
    <3>3. d # num_docs /\ d \in 0..num_docs
      BY <1>3, <3>1, <3>2 DEF IsPivot, CursorsOK
    <3> QED
      BY <1>3, <3>3
  <2>2. \A k \in on : k \in 1..count /\ docid[k] = d
    <3>1. \A p \in 1..count : p \in 1..p
      OBVIOUS
    <3> QED
      BY <1>3, <3>1 DEF IsOrder
  <2>3. on \in SUBSET {k \in 1..count : d \in Docs(k)}
    BY <1>3, <2>1, <2>2, OnDocument
  <2>4. ScoreOf(d, on) \in Nat
    BY <1>3, <2>3, ScoreIsNat
  <2> QED
    BY <1>1, <2>4, InsertTyped
<1> QED
  BY <1>1, <1>4, <1>5, <1>7, <1>8 DEF Typed

LEMMA TypedWandAdvance ==
  ASSUME Typed, WandAdvance
  PROVE  Typed'
<1>1. /\ query = "wand" /\ pc = "loop"
      /\ UNCHANGED <<input, cur_doc, i, score, next_doc, non_essential, topk, pc>>
  BY DEF WandAdvance
<1>2. PICK p \in 1..count : \E from \in 1..p :
        /\ docid' = [docid EXCEPT ![order[from]] =
                       FirstFrom(Docs(order[from]), docid[order[p]])]
        /\ order' = BubbleDown(from, docid'[order[from]])
  BY DEF WandAdvance
<1>3. PICK from \in 1..p :
        /\ docid' = [docid EXCEPT ![order[from]] =
                       FirstFrom(Docs(order[from]), docid[order[p]])]
        /\ order' = BubbleDown(from, docid'[order[from]])
  BY <1>2
<1>4. InputOK /\ CursorsOK /\ IsOrder(order) /\ count \in Nat \ {0}
  BY SizesAre DEF Typed
<1>5. /\ InputOK' /\ UNCHANGED <<query, K, count>>
      /\ \A k \in 1..count : Docs(k)' = Docs(k)
  BY <1>1, <1>4, InputStays
<1> DEFINE k == order[from]
           b == docid[order[p]]
           d == FirstFrom(Docs(k), b)
<1>6. k \in 1..count /\ b \in 0..num_docs /\ from \in 1..count
  <2>1. from \in 1..count
    BY <1>4
  <2>2. order[from] \in 1..count /\ order[p] \in 1..count
    BY <1>4, <2>1, Zenon DEF IsOrder
  <2> QED
    BY <1>4, <2>1, <2>2 DEF CursorsOK
<1>7. d \in Docs(k) \cup {num_docs} /\ d \in 0..num_docs
  <2> HIDE DEF k, b
  <2> QED
    BY <1>4, <1>6, NextGeqIs
<1>8. CursorsOK'
  <2>1. docid' = [docid EXCEPT ![k] = d]
    BY <1>3
  <2> HIDE DEF k, d
  <2> QED
    BY <1>4, <1>5, <1>6, <1>7, <2>1 DEF CursorsOK
<1>9. IsOrder(order')
  BY <1>3, <1>4, <1>6, BubbleDownOrder
<1>10. (IsOrder(order))'
  BY <1>5, <1>9 DEF IsOrder
<1> QED
  BY <1>1, <1>5, <1>8, <1>10 DEF Typed

LEMMA TypedMaxscoreEssential ==
  ASSUME Typed, MaxscoreEssential
  PROVE  Typed'
<1> DEFINE on == {k \in Essential : docid[k] = cur_doc}
<1>1. /\ query \in {"maxscore", "maxscore_dyn"} /\ pc = "loop"
      /\ cur_doc < num_docs /\ non_essential < count
      /\ score' = ScoreOf(cur_doc, on)
      /\ MoveOff(on)
      /\ next_doc' = Least({docid'[k] : k \in Essential})
      /\ i' = non_essential
      /\ pc' = "complete"
      /\ UNCHANGED <<input, order, cur_doc, non_essential, topk>>
  BY DEF MaxscoreEssential, Iterate
<1>2. InputOK /\ CursorsOK /\ IsOrder(order) /\ count \in Nat \ {0}
      /\ non_essential \in 0..count
  BY SizesAre DEF Typed
<1>3. /\ InputOK' /\ UNCHANGED <<query, K, count>>
  BY <1>1, <1>2, InputStays
<1>4. CursorsOK'
  BY <1>1, <1>2, MoveOffIs
<1>5. Essential \subseteq 1..count
  BY <1>2 DEF Essential, IsOrder
<1>6. score' \in Nat
  <2>1. on \in SUBSET {k \in 1..count : cur_doc \in Docs(k)}
    BY <1>1, <1>2, <1>5, OnDocument
  <2> QED
    BY <1>1, <1>2, <2>1, ScoreIsNat
<1>7. next_doc' \in 0..num_docs
  <2>1. {docid'[k] : k \in Essential} \in SUBSET (0..num_docs)
    BY <1>3, <1>4, <1>5 DEF CursorsOK
  <2> HIDE DEF Essential
  <2>2. 0 \in Nat
    OBVIOUS
  <2>3. Least({docid'[k] : k \in Essential}) \in 0..num_docs
    BY <2>1, <2>2, FirstFromFinds DEF Least
  <2> QED
    BY <1>1, <2>3
<1>8. i' \in 0..count' /\ i' \in 0..(count' + 1)
  BY <1>1, <1>2, <1>3
<1>9. (IsOrder(order))'
  BY <1>1, <1>2, <1>3 DEF IsOrder
<1> QED
  BY <1>1, <1>2, <1>3, <1>4, <1>6, <1>7, <1>8, <1>9 DEF Typed

LEMMA TypedMaxscoreComplete ==
  ASSUME Typed, MaxscoreComplete
  PROVE  Typed'
<1> DEFINE k == order[i]
           d == next_geq(k, cur_doc)
<1>1. /\ pc = "complete"
      /\ UNCHANGED <<input, order, cur_doc, next_doc, non_essential, topk>>
      /\ \/ /\ i > 0
            /\ docid' = [docid EXCEPT ![k] = d]
            /\ score' = IF docid'[k] = cur_doc
                        THEN score + q_weight[k] * doc_term_weight(k, cur_doc)
                        ELSE score
            /\ i' = i - 1
            /\ UNCHANGED pc
         \/ /\ pc' = "insert"
            /\ UNCHANGED <<docid, score, i>>
  BY DEF MaxscoreComplete
<1>2. /\ InputOK /\ CursorsOK /\ IsOrder(order) /\ count \in Nat \ {0}
      /\ i \in 0..count /\ cur_doc \in 0..num_docs /\ cur_doc < num_docs
      /\ score \in Nat /\ query \in {"maxscore", "maxscore_dyn"}
  BY <1>1, SizesAre DEF Typed
<1>3. /\ InputOK' /\ UNCHANGED <<query, K, count>>
      /\ \A j \in 1..count : Docs(j)' = Docs(j)
  BY <1>1, <1>2, InputStays
<1>4. CASE i > 0 /\ docid' = [docid EXCEPT ![k] = d] /\ i' = i - 1 /\ UNCHANGED pc
           /\ score' = IF docid'[k] = cur_doc
                       THEN score + q_weight[k] * doc_term_weight(k, cur_doc)
                       ELSE score
  <2>1. i \in 1..count /\ k \in 1..count
    BY <1>2, <1>4 DEF IsOrder
  <2> HIDE DEF k
  <2>2. d \in Docs(k) \cup {num_docs} /\ d \in 0..num_docs
    <3>1. FirstFrom(Docs(k), cur_doc) \in Docs(k) \cup {num_docs}
          /\ FirstFrom(Docs(k), cur_doc) \in 0..num_docs
      BY <1>2, <2>1, NextGeqIs
    <3> QED
      BY <1>2, <2>1, <3>1 DEF next_geq, CursorsOK
  <2> HIDE DEF d
  <2>3. CursorsOK' /\ docid'[k] = d
    BY <1>2, <1>3, <1>4, <2>1, <2>2 DEF CursorsOK
  <2>4. score' \in Nat
    <3>1. CASE d = cur_doc
      <4>1. cur_doc \in Docs(k)
        BY <1>2, <2>2, <3>1
      <4>2. q_weight[k] \in Nat /\ doc_term_weight(k, cur_doc) \in Nat
        BY <1>2, <2>1, <4>1, WeightsAre DEF InputOK
      <4> QED
        BY <1>2, <1>4, <2>3, <4>2
    <3>2. CASE d # cur_doc
      BY <1>2, <1>4, <2>3, <3>2
    <3> QED
      BY <3>1, <3>2
  <2>5. i' \in 0..count' /\ i' \in 0..(count' + 1)
    BY <1>2, <1>3, <1>4, <2>1
  <2>6. (IsOrder(order))'
    BY <1>1, <1>2, <1>3 DEF IsOrder
  <2> QED
    BY <1>1, <1>2, <1>3, <1>4, <2>3, <2>4, <2>5, <2>6 DEF Typed
<1>5. CASE pc' = "insert" /\ UNCHANGED <<docid, score, i>>
  <2>1. CursorsOK'
    BY <1>2, <1>3, <1>5 DEF CursorsOK
  <2> QED
    BY <1>1, <1>2, <1>3, <1>5, <2>1 DEF Typed, IsOrder
<1> QED
  BY <1>1, <1>4, <1>5

LEMMA TypedMaxscoreInsert ==
  ASSUME Typed, MaxscoreInsert
  PROVE  Typed'
<1> DEFINE places == {p \in non_essential..count :
                        p = count \/ would_enter(topk', UpperBound(p + 1))}
<1>1. /\ query = "maxscore"
      /\ topk' = insert(topk, score)
      /\ non_essential' = IF would_enter(topk, score) THEN Min(places)
                                                      ELSE non_essential
      /\ cur_doc' = next_doc
      /\ pc' = "loop"
      /\ UNCHANGED <<input, docid, order, i, score, next_doc>>
  BY DEF MaxscoreInsert
<1>2. InputOK /\ CursorsOK /\ IsOrder(order) /\ count \in Nat \ {0}
      /\ non_essential \in 0..count /\ score \in Nat
  BY SizesAre DEF Typed
<1>3. /\ InputOK' /\ UNCHANGED <<query, K, count>>
      /\ \A j \in 1..count : Docs(j)' = Docs(j)
  BY <1>1, <1>2, InputStays
<1>4. CursorsOK'
  BY <1>1, <1>2, <1>3 DEF CursorsOK
<1>5. non_essential' \in 0..count
  <2>1. places \in SUBSET Nat /\ places # {}
    <3>1. count \in places
      BY <1>2
    <3> QED
      BY <1>2, <3>1
  <2>2. \A p \in places : p \in 0..count
    BY <1>2
  <2> HIDE DEF places
  <2>3. \E p \in places : \A q \in places : p <= q
    BY <2>1, LeastElement
  <2>4. Min(places) \in places
    BY <2>3 DEF Min
  <2> QED
    BY <1>1, <1>2, <2>2, <2>4
<1>6. topk' \in Seq(Nat) /\ Len(topk') <= K
  BY <1>1, <1>2, InsertTyped
<1> QED
  BY <1>1, <1>3, <1>4, <1>5, <1>6 DEF Typed, IsOrder

LEMMA TypedMaxscoreDynInsert ==
  ASSUME Typed, MaxscoreDynInsert
  PROVE  Typed'
<1> DEFINE places == {p \in 0..count : p = count
             \/ would_enter(topk', BoundsOf(order', upper_bound_cursor)[p + 1])}
<1>1. /\ query = "maxscore_dyn"
      /\ topk' = insert(topk, score)
      /\ non_essential' = Min(places)
      /\ cur_doc' = next_doc
      /\ pc' = "loop"
      /\ UNCHANGED <<input, docid, i, score, next_doc>>
  BY DEF MaxscoreDynInsert
<1>2. order' \in {o \in [1..Cardinality(1..count) -> 1..count] :
         \A p, q \in 1..Cardinality(1..count) : o[p] = o[q] => p = q}
  BY DEF MaxscoreDynInsert, SortedBy
<1>3. InputOK /\ CursorsOK /\ count \in Nat \ {0} /\ score \in Nat
      /\ Cardinality(1..count) = count
  BY SizesAre DEF Typed
<1>4. /\ InputOK' /\ UNCHANGED <<query, K, count>>
      /\ \A j \in 1..count : Docs(j)' = Docs(j)
  BY <1>1, <1>3, InputStays
<1>5. CursorsOK'
  BY <1>1, <1>3, <1>4 DEF CursorsOK
<1>6. (IsOrder(order))'
  BY <1>2, <1>3, <1>4 DEF IsOrder
<1>7. non_essential' \in 0..count
  <2>1. places \in SUBSET Nat /\ places # {}
    <3>1. count \in places
      BY <1>3
    <3> QED
      BY <1>3, <3>1
  <2>2. \A p \in places : p \in 0..count
    OBVIOUS
  <2> HIDE DEF places
  <2>3. \E p \in places : \A q \in places : p <= q
    BY <2>1, LeastElement
  <2>4. Min(places) \in places
    BY <2>3 DEF Min
  <2> QED
    BY <1>1, <2>2, <2>4
<1>8. topk' \in Seq(Nat) /\ Len(topk') <= K
  BY <1>1, <1>3, InsertTyped
<1> QED
  BY <1>1, <1>4, <1>5, <1>6, <1>7, <1>8 DEF Typed

LEMMA TypedNext ==
  ASSUME Typed, [Next]_vars
  PROVE  Typed'
<1>1. ASSUME WandFinish \/ Finish PROVE Typed'
  <2>1. /\ pc' = "done"
        /\ UNCHANGED <<input, docid, order, cur_doc, i, score, next_doc,
                       non_essential, topk>>
    BY <1>1 DEF WandFinish, Finish
  <2>2. InputOK' /\ UNCHANGED <<query, K, count>>
        /\ \A j \in 1..count : Docs(j)' = Docs(j)
    BY <2>1, InputStays DEF Typed
  <2>3. CursorsOK'
    BY <2>1, <2>2 DEF Typed, CursorsOK
  <2> QED
    BY <2>1, <2>2, <2>3 DEF Typed, IsOrder
<1>2. ASSUME UNCHANGED vars PROVE Typed'
  <2>1. UNCHANGED <<input, docid, order, cur_doc, i, score, next_doc,
                    non_essential, topk, pc>>
    BY <1>2 DEF vars
  <2>2. InputOK' /\ UNCHANGED <<query, K, count>>
        /\ \A j \in 1..count : Docs(j)' = Docs(j)
    BY <2>1, InputStays DEF Typed
  <2>3. CursorsOK'
    BY <2>1, <2>2 DEF Typed, CursorsOK
  <2> QED
    BY <2>1, <2>2, <2>3 DEF Typed, IsOrder
<1> QED
  BY <1>1, <1>2, TypedOr, TypedAndProbe, TypedAndMatch, TypedWandMatch,
     TypedWandAdvance, TypedMaxscoreEssential, TypedMaxscoreComplete,
     TypedMaxscoreInsert, TypedMaxscoreDynInsert DEF Next

LEMMA TypedAlways == Spec => []Typed
BY TypedInit, TypedNext, PTL DEF Spec

\* The cursors of a query stay on documents of their lists or past the end,
\* its order has every list once, and the queue never holds more than K
\* scores, whatever the index and whichever query it is.
THEOREM TypeCorrect == Spec => []TypeOK
<1>1. Typed => TypeOK
  BY DEF Typed, TypeOK, CursorsOK, IsOrder
<1> QED
  BY <1>1, TypedAlways, PTL

-----------------------------------------------------------------------------
(* The order of wand_query. *)

InOrder ==
  query = "wand" =>
    \A p \in 2..count : docid[order[p - 1]] <= docid[order[p]]

\* Where the places of an order lead.
LEMMA OrderPlaces ==
  ASSUME InputOK, CursorsOK, IsOrder(order)
  PROVE  /\ count \in Nat \ {0} /\ num_docs \in Nat
         /\ \A p \in 1..count : /\ order[p] \in 1..count
                                /\ docid[order[p]] \in Nat
                                /\ docid[order[p]] <= num_docs
<1>1. count \in Nat \ {0} /\ num_docs \in Nat
  BY SizesAre
<1>2. \A p \in 1..count : order[p] \in 1..count
  BY DEF IsOrder
<1>3. \A k \in 1..count : docid[k] \in Nat /\ docid[k] <= num_docs
  BY <1>1 DEF CursorsOK
<1> QED
  BY <1>1, <1>2, <1>3

\* What is in order from one place to the next is in order.
LEMMA InOrderThroughout ==
  ASSUME InputOK, CursorsOK, IsOrder(order), InOrder, query = "wand",
         NEW p \in 1..count, NEW q \in p..count
  PROVE  docid[order[p]] <= docid[order[q]]
<1> DEFINE Bad == {r \in p..count : ~(docid[order[p]] <= docid[order[r]])}
<1>1. SUFFICES ASSUME Bad # {} PROVE FALSE
  OBVIOUS
<1>2. /\ count \in Nat \ {0}
      /\ \A r \in 1..count : docid[order[r]] \in Nat
  BY OrderPlaces
<1>3. Bad \in SUBSET Nat
  BY <1>2
<1>4. PICK r \in Bad : \A e \in Bad : r <= e
  BY <1>1, <1>3, LeastElement
<1>5. r \in p..count /\ ~(docid[order[p]] <= docid[order[r]])
  BY <1>4
<1>6. r # p
  BY <1>2, <1>5
<1>7. r - 1 \in p..count /\ r \in 2..count /\ r - 1 \in 1..count /\ r \in 1..count
      /\ ~(r <= r - 1)
  BY <1>2, <1>5, <1>6
<1>8. docid[order[p]] <= docid[order[r - 1]]
  BY <1>4, <1>7
<1>9. docid[order[r - 1]] <= docid[order[r]]
  BY <1>7 DEF InOrder
<1> QED
  BY <1>2, <1>5, <1>7, <1>8, <1>9

\* It is so at the start, and after every step of wand_query.
LEMMA InOrderInit ==
  ASSUME Init
  PROVE  InOrder
<1>1. Cardinality(1..count) = count
  BY TypedInit, SizesAre DEF Typed
<1>2. CASE query = "wand"
  BY <1>1, <1>2 DEF Init, SortedBy, InOrder
<1> QED
  BY <1>2 DEF InOrder

LEMMA InOrderWandMatch ==
  ASSUME Typed, WandMatch
  PROVE  InOrder'
<1>1. Cardinality(1..count) = count /\ UNCHANGED count
  BY SizesAre, InputStays DEF Typed, WandMatch
<1>2. order' \in {o \in [1..Cardinality(1..count) -> 1..count] :
         \A p \in 2..Cardinality(1..count) : docid'[o[p - 1]] <= docid'[o[p]]}
  BY DEF WandMatch, SortedBy
<1> QED
  BY <1>1, <1>2 DEF InOrder

\* What wand_query does when the pivot is no match: the list of a place is
\* moved to the pivot document and comes down past those it has passed.
LEMMA WandAdvances ==
  ASSUME Typed, WandAdvance
  PROVE  \E p \in 1..count, from \in 1..count :
           /\ from <= p /\ CanAdvance(p, from)
           /\ docid[order[p]] # docid[order[1]]
           /\ LET d == FirstFrom(Docs(order[from]), docid[order[p]])
              IN /\ docid' = [docid EXCEPT ![order[from]] = d]
                 /\ docid'[order[from]] = d
                 /\ d \in 0..num_docs
                 /\ docid[order[p]] <= d
                 /\ \A e \in Docs(order[from]) : e >= docid[order[p]] => d <= e
                 /\ order' = BubbleDown(from, d)
<1>1. PICK p \in 1..count : \E from \in 1..p :
        /\ CanAdvance(p, from)
        /\ docid[order[p]] # docid[order[1]]
        /\ docid' = [docid EXCEPT ![order[from]] =
                       FirstFrom(Docs(order[from]), docid[order[p]])]
        /\ order' = BubbleDown(from, docid'[order[from]])
  BY DEF WandAdvance
<1>2. PICK from \in 1..p :
        /\ CanAdvance(p, from)
        /\ docid[order[p]] # docid[order[1]]
        /\ docid' = [docid EXCEPT ![order[from]] =
                       FirstFrom(Docs(order[from]), docid[order[p]])]
        /\ order' = BubbleDown(from, docid'[order[from]])
  BY <1>1
<1>3. InputOK /\ CursorsOK /\ IsOrder(order)
  BY DEF Typed
<1> DEFINE k == order[from]
           b == docid[order[p]]
           d == FirstFrom(Docs(k), b)
<1>4. from \in 1..count /\ from <= p /\ k \in 1..count /\ b \in 0..num_docs
  <2>1. count \in Nat /\ from \in 1..count /\ from <= p
    BY <1>3, SizesAre
  <2>2. order[from] \in 1..count /\ order[p] \in 1..count
    BY <1>3, <2>1, Zenon DEF IsOrder
  <2> QED
    BY <1>3, <2>1, <2>2 DEF CursorsOK
<1>5. /\ d \in 0..num_docs /\ b <= d /\ \A e \in Docs(k) : e >= b => d <= e
  <2> HIDE DEF k, b
  <2> QED
    BY <1>3, <1>4, NextGeqIs
<1>6. docid' = [docid EXCEPT ![k] = d] /\ order' = BubbleDown(from, docid'[k])
  BY <1>2
<1>7. docid'[k] = d
  <2> HIDE DEF k, d
  <2> QED
    BY <1>3, <1>4, <1>6 DEF CursorsOK
<1>8. order' = BubbleDown(from, d)
  <2> HIDE DEF k, d
  <2> QED
    BY <1>6, <1>7
<1>9. CanAdvance(p, from) /\ docid[order[p]] # docid[order[1]]
  BY <1>2
<1> QED
  BY <1>4, <1>5, <1>6, <1>7, <1>8, <1>9, Zenon

LEMMA InOrderWandAdvance ==
  ASSUME Typed, InOrder, WandAdvance
  PROVE  InOrder'
<1>1. PICK p \in 1..count, from \in 1..count :
        /\ from <= p
        /\ LET d == FirstFrom(Docs(order[from]), docid[order[p]])
           IN /\ docid' = [docid EXCEPT ![order[from]] = d]
              /\ d \in 0..num_docs
              /\ docid[order[p]] <= d
              /\ order' = BubbleDown(from, d)
  BY WandAdvances, Zenon
<1> DEFINE k == order[from]
           d == FirstFrom(Docs(k), docid[order[p]])
           at == [q \in 1..count |-> docid[order[q]]]
<1>2. /\ docid' = [docid EXCEPT ![k] = d] /\ d \in 0..num_docs
      /\ docid[order[p]] <= d /\ order' = BubbleDown(from, d)
  BY <1>1, Zenon
<1> HIDE DEF d
<1>3. InputOK /\ CursorsOK /\ IsOrder(order) /\ query = "wand" /\ UNCHANGED count
  BY InputStays DEF Typed, WandAdvance
<1>4. /\ count \in Nat \ {0} /\ num_docs \in Nat
      /\ \A q \in 1..count : order[q] \in 1..count /\ docid[order[q]] \in Nat
  BY <1>3, OrderPlaces
<1>5. PICK m \in from..count :
        /\ \A q \in (from + 1)..m : docid[order[q]] < d
        /\ m < count => ~(docid[order[m + 1]] < d)
        /\ BubbleDown(from, d) = Passed(from, m)
  BY <1>3, <1>4, BubbleDownIs
<1>6. at[from] <= d
  <2>1. p \in from..count
    BY <1>1, <1>4
  <2>2. docid[order[from]] <= docid[order[p]]
    BY <1>3, <2>1, InOrderThroughout
  <2>3. docid[order[from]] \in Nat /\ docid[order[p]] \in Nat /\ d \in Nat
    BY <1>2, <1>4
  <2> QED
    BY <1>2, <2>2, <2>3
<1>7. \A q \in 2..count : at[q - 1] <= at[q]
  BY <1>3, <1>4 DEF InOrder
<1>8. \A q \in 1..count : at[q] \in Nat
  BY <1>4
\* The documents along the new order.
<1>9. \A q \in 1..count :
        docid'[order'[q]] = IF q < from \/ q > m THEN at[q]
                            ELSE IF q < m THEN at[q + 1] ELSE d
  <2> SUFFICES ASSUME NEW q \in 1..count
               PROVE  docid'[order'[q]] = IF q < from \/ q > m THEN at[q]
                                          ELSE IF q < m THEN at[q + 1] ELSE d
    OBVIOUS
  <2>1. order'[q] = IF q < from \/ q > m THEN order[q]
                    ELSE IF q < m THEN order[q + 1] ELSE k
    BY <1>2, <1>5 DEF Passed
  <2>2. \A r \in 1..count : r # from => order[r] # k
    BY <1>3 DEF IsOrder
  <2>3. \A r \in 1..count : docid'[order[r]] = IF r = from THEN d ELSE at[r]
    BY <1>2, <1>3, <1>4, <2>2 DEF CursorsOK
  <2>4. CASE q < from \/ q > m
    BY <1>4, <1>5, <2>1, <2>3, <2>4
  <2>5. CASE from <= q /\ q < m
    <3>1. q + 1 \in 1..count /\ q + 1 # from /\ ~(q < from \/ q > m)
      BY <1>4, <1>5, <2>5
    <3> HIDE DEF at
    <3> QED
      BY <2>1, <2>3, <2>5, <3>1
  <2>6. CASE q = m
    <3> HIDE DEF at
    <3> QED
      BY <1>4, <1>5, <2>1, <2>3, <2>6
  <2> QED
    BY <1>4, <1>5, <2>4, <2>5, <2>6
<1>10. ASSUME NEW q \in 2..count
       PROVE  docid'[order'[q - 1]] <= docid'[order'[q]]
  <2> DEFINE new(r) == IF r < from \/ r > m THEN at[r]
                       ELSE IF r < m THEN at[r + 1] ELSE d
  <2>1. q \in 1..count /\ q - 1 \in 1..count
    BY <1>4
  <2>2. docid'[order'[q - 1]] = new(q - 1) /\ docid'[order'[q]] = new(q)
    BY <1>9, <2>1
  <2> SUFFICES new(q - 1) <= new(q)
    BY <2>2
  <2> HIDE DEF at
  <2>3. /\ at[q - 1] <= at[q] /\ at[q] \in Nat /\ at[q - 1] \in Nat /\ d \in Nat
    BY <1>2, <1>7, <1>8, <2>1
  <2>4. from \in Nat /\ m \in Nat /\ from <= m /\ q \in Nat
    BY <1>4, <1>5
  <2>5. CASE q < from \/ q - 1 > m
    BY <2>3, <2>4, <2>5
  <2>6. CASE q = from
    <3>1. CASE from = m
      BY <1>6, <2>3, <2>4, <2>6, <3>1
    <3>2. CASE from < m
      <4>1. from + 1 \in 2..count /\ from + 1 \in 1..count /\ from \in 1..count
        BY <1>4, <1>5, <3>2
      <4>2. at[(from + 1) - 1] <= at[from + 1] /\ (from + 1) - 1 = from
            /\ at[from + 1] \in Nat
        BY <1>7, <1>8, <4>1
      <4> QED
        BY <2>3, <2>4, <2>6, <3>2, <4>2
    <3> QED
      BY <2>4, <3>1, <3>2
  <2>7. CASE from < q /\ q < m
    <3>1. q + 1 \in 2..count /\ q + 1 \in 1..count /\ (q - 1) + 1 = q
      BY <1>4, <1>5, <2>4, <2>7
    <3>2. at[(q + 1) - 1] <= at[q + 1] /\ (q + 1) - 1 = q
      BY <1>7, <3>1
    <3> QED
      BY <2>3, <2>4, <2>7, <3>1, <3>2
  <2>8. CASE from < q /\ q = m
    <3>1. at[q] < d
      <4>1. q \in (from + 1)..m
        BY <2>4, <2>8
      <4> QED
        BY <1>5, <2>1, <4>1 DEF at
    <3>2. (q - 1) + 1 = q /\ new(q - 1) = at[q]
      BY <2>4, <2>8
    <3> QED
      BY <2>3, <2>4, <2>8, <3>1, <3>2
  <2>9. CASE q - 1 = m
    <3>1. ~(at[q] < d)
      <4>1. m < count /\ m + 1 = q
        BY <1>4, <2>1, <2>4, <2>9
      <4> QED
        BY <1>5, <2>1, <4>1 DEF at
    <3>2. new(q - 1) = d /\ new(q) = at[q]
      BY <2>4, <2>9
    <3> QED
      BY <2>3, <3>1, <3>2
  <2> HIDE DEF new
  <2> QED
    BY <2>4, <2>5, <2>6, <2>7, <2>8, <2>9
<1> QED
  BY <1>3, <1>10 DEF InOrder

LEMMA InOrderNext ==
  ASSUME Typed, InOrder, [Next]_vars
  PROVE  InOrder'
<1>1. ASSUME UNCHANGED <<query, terms, docid, order>> PROVE InOrder'
  BY <1>1 DEF InOrder, count
<1>2. ASSUME query # "wand", UNCHANGED query PROVE InOrder'
  BY <1>2 DEF InOrder
<1>3. CASE OrDocument \/ AndProbe \/ AndMatch
  BY <1>2, <1>3 DEF OrDocument, AndProbe, AndMatch, Iterate, input
<1>4. CASE MaxscoreEssential \/ MaxscoreInsert \/ MaxscoreDynInsert
  BY <1>2, <1>4 DEF MaxscoreEssential, MaxscoreInsert, MaxscoreDynInsert,
                    Iterate, input
<1>5. CASE MaxscoreComplete
  <2>1. pc = "complete" /\ UNCHANGED query
    BY <1>5 DEF MaxscoreComplete, input
  <2>2. query # "wand"
    BY <2>1 DEF Typed
  <2> QED
    BY <1>2, <2>1, <2>2
<1>6. CASE WandFinish \/ Finish \/ UNCHANGED vars
  BY <1>1, <1>6 DEF WandFinish, Finish, vars, input
<1> QED
  BY <1>3, <1>4, <1>5, <1>6, InOrderWandMatch, InOrderWandAdvance DEF Next

LEMMA InOrderAlways == Spec => []InOrder
<1>1. Typed /\ InOrder /\ [Next]_vars => InOrder'
  BY InOrderNext
<1> QED
  BY <1>1, InOrderInit, TypedAlways, PTL DEF Spec

\* wand_query keeps its lists in the order of their documents by moving one
\* list down, instead of sorting them, whatever list it has moved and however
\* far the list has gone: the bounds it adds up for a pivot are those of all
\* the lists that are not after it.
THEOREM WandOrder == Spec => []OrderedByDocid
<1>1. Typed /\ InOrder => OrderedByDocid
  <2> SUFFICES ASSUME Typed, InOrder, query = "wand" PROVE OrderedByDocid
    BY DEF OrderedByDocid
  <2>1. count \in Nat /\ IsOrder(order)
    BY SizesAre DEF Typed
  <2>2. \A k \in 1..count : \E p \in 1..count : order[p] = k
    BY <2>1, OrderIsOnto
  <2> QED
    BY <2>1, <2>2 DEF OrderedByDocid, InOrder, IsOrder
<1> QED
  BY <1>1, TypedAlways, InOrderAlways, PTL

-----------------------------------------------------------------------------
(* What the queue holds.  A descending sequence reaches a score with its   *)
(* first elements, so that it is known by how many reach each score.       *)

Descending(q) == \A j \in 2..Len(q) : q[j - 1] >= q[j]

\* The queue falls from any place to any later one.
LEMMA DescendingThroughout ==
  ASSUME NEW q \in Seq(Nat), Descending(q),
         NEW a \in 1..Len(q), NEW b \in a..Len(q)
  PROVE  q[a] >= q[b]
<1> DEFINE n == Len(q)
           Bad == {r \in a..n : ~(q[a] >= q[r])}
<1>1. SUFFICES ASSUME Bad # {} PROVE FALSE
  OBVIOUS
<1>2. n \in Nat /\ \A j \in 1..n : q[j] \in Nat
  OBVIOUS
<1>3. Bad \in SUBSET Nat
  BY <1>2
<1>4. \A r \in 2..n : q[r - 1] >= q[r]
  BY DEF Descending
<1> HIDE DEF n
<1>5. PICK r \in Bad : \A e \in Bad : r <= e
  BY <1>1, <1>3, LeastElement
<1>6. r \in a..n /\ ~(q[a] >= q[r]) /\ a \in 1..n
  BY <1>5 DEF n
<1>7. r # a
  BY <1>2, <1>6
<1>8. r - 1 \in a..n /\ r \in 2..n /\ ~(r <= r - 1) /\ r - 1 \in 1..n /\ r \in 1..n
  BY <1>2, <1>6, <1>7
<1>9. q[a] >= q[r - 1]
  BY <1>5, <1>8
<1>10. q[r - 1] >= q[r]
  BY <1>4, <1>8
<1> QED
  BY <1>2, <1>6, <1>8, <1>9, <1>10

\* The scores that reach a score are counted by the last place they reach.
LEMMA AtLeastIs ==
  ASSUME NEW q \in Seq(Nat), NEW t \in Nat, NEW n \in 0..Len(q),
         \A j \in 1..n : q[j] >= t, \A j \in (n + 1)..Len(q) : ~(q[j] >= t)
  PROVE  AtLeast(q, t) = n
<1>1. Len(q) \in Nat
  OBVIOUS
<1>2. {j \in 1..Len(q) : q[j] >= t} = 1..n
  <2>1. \A j \in 1..Len(q) : q[j] >= t <=> j <= n
    <3> SUFFICES ASSUME NEW j \in 1..Len(q) PROVE q[j] >= t <=> j <= n
      OBVIOUS
    <3>1. CASE j <= n
      <4>1. j \in 1..n
        BY <1>1, <3>1
      <4> QED
        BY <3>1, <4>1
    <3>2. CASE ~(j <= n)
      <4>1. j \in (n + 1)..Len(q)
        BY <1>1, <3>2
      <4> QED
        BY <3>2, <4>1
    <3> QED
      BY <3>1, <3>2
  <2>2. \A j : j \in 1..Len(q) /\ j <= n <=> j \in 1..n
    BY <1>1
  <2> QED
    BY <2>1, <2>2
<1>3. Cardinality(1..n) = n
  <2>1. n \in Nat /\ 1 \in Int /\ n \in Int
    BY <1>1
  <2>2. Cardinality(1..n) = IF 1 > n THEN 0 ELSE n - 1 + 1
    BY <2>1, FS_Interval
  <2> QED
    BY <2>1, <2>2
<1> QED
  BY <1>2, <1>3 DEF AtLeast

\* The scores that reach a threshold are in front.
LEMMA DescendingReaches ==
  ASSUME NEW q \in Seq(Nat), Descending(q), NEW t \in Nat
  PROVE  /\ AtLeast(q, t) \in 0..Len(q)
         /\ \A j \in 1..Len(q) : q[j] >= t <=> j <= AtLeast(q, t)
<1> DEFINE n == Len(q)
           below == {j \in 0..n : \A r \in (j + 1)..n : ~(q[r] >= t)}
<1>1. n \in Nat /\ \A j \in 1..n : q[j] \in Nat
  OBVIOUS
<1>2. below \in SUBSET Nat /\ below # {}
  <2>1. n \in below
    BY <1>1
  <2> QED
    BY <2>1
<1>3. PICK m \in below : \A e \in below : m <= e
  BY <1>2, LeastElement
<1>4. m \in 0..n /\ \A r \in (m + 1)..n : ~(q[r] >= t)
  BY <1>3
<1>5. \A j \in 1..m : q[j] >= t
  <2>1. SUFFICES ASSUME NEW j \in 1..m PROVE q[j] >= t
    OBVIOUS
  <2>2. m - 1 \in 0..n /\ ~(m <= m - 1) /\ m \in 1..n
    BY <1>1, <1>4, <2>1
  <2>3. ~(m - 1 \in below)
    BY <1>3, <2>2
  <2>4. PICK r \in ((m - 1) + 1)..n : q[r] >= t
    BY <2>2, <2>3
  <2>5. r = m
    <3>1. r \in m..n /\ ~(r \in (m + 1)..n)
      BY <1>4, <2>2, <2>4
    <3> QED
      BY <1>1, <2>2, <3>1
  <2>6. j \in 1..Len(q) /\ m \in j..Len(q)
    BY <1>1, <2>1, <2>2
  <2>7. q[j] >= q[m]
    BY <2>6, DescendingThroughout
  <2> QED
    BY <1>1, <2>2, <2>4, <2>5, <2>6, <2>7
<1>6. AtLeast(q, t) = m
  BY <1>4, <1>5, AtLeastIs
<1>7. \A j \in 1..n : q[j] >= t <=> j <= m
  <2> HIDE DEF n
  <2> SUFFICES ASSUME NEW j \in 1..n PROVE q[j] >= t <=> j <= m
    OBVIOUS
  <2>1. j \in 1..m \/ j \in (m + 1)..n
    BY <1>1, <1>4
  <2>2. j \in (m + 1)..n => ~(j <= m)
    BY <1>1, <1>4
  <2>3. j \in 1..m => j <= m
    BY <1>1, <1>4
  <2> QED
    BY <1>4, <1>5, <2>1, <2>2, <2>3
<1> QED
  BY <1>4, <1>6, <1>7

\* A score that is put in is one more wherever it reaches.
LEMMA SortedCounts ==
  ASSUME NEW q \in Seq(Nat), Descending(q), NEW s \in Nat
  PROVE  /\ Descending(Sorted(q, s))
         /\ \A t \in Nat : AtLeast(Sorted(q, s), t) =
                             AtLeast(q, t) + IF s >= t THEN 1 ELSE 0
<1> DEFINE n == Len(q)
           a == AtLeast(q, s)
           r == Sorted(q, s)
<1>1. n \in Nat /\ \A j \in 1..n : q[j] \in Nat
  OBVIOUS
<1>2. /\ a \in 0..n /\ r \in Seq(Nat) /\ Len(r) = n + 1
      /\ \A j \in 1..(n + 1) :
           r[j] = IF j <= a THEN q[j] ELSE IF j = a + 1 THEN s ELSE q[j - 1]
  BY SortedIs, Zenon
<1>3. \A j \in 1..n : q[j] >= s <=> j <= a
  BY DescendingReaches, Zenon
<1>4. \A j \in 2..n : q[j - 1] >= q[j]
  BY DEF Descending
<1> HIDE DEF a, r, n
<1>5. ASSUME NEW j \in 2..(n + 1) PROVE r[j - 1] >= r[j]
  <2>1. j \in 1..(n + 1) /\ j - 1 \in 1..(n + 1) /\ j - 1 \in 1..n
    BY <1>1
  <2>2. CASE j <= a
    <3>1. j \in 2..n /\ j - 1 <= a
      BY <1>1, <1>2, <2>1, <2>2
    <3>2. r[j] = q[j] /\ r[j - 1] = q[j - 1]
      BY <1>2, <2>1, <2>2, <3>1
    <3> QED
      BY <1>4, <3>1, <3>2
  <2>3. CASE j = a + 1
    <3>1. j - 1 <= a /\ ~(j <= a)
      BY <1>2, <2>1, <2>3
    <3>2. r[j] = s /\ r[j - 1] = q[j - 1]
      BY <1>2, <2>1, <2>3, <3>1
    <3> QED
      BY <1>3, <2>1, <3>1, <3>2
  <2>4. CASE j = a + 2
    <3>1. ~(j - 1 <= a) /\ j - 1 = a + 1 /\ ~(j <= a) /\ j # a + 1
      BY <1>2, <2>1, <2>4
    <3>2. r[j] = q[j - 1] /\ r[j - 1] = s
      BY <1>2, <2>1, <3>1
    <3>3. ~(q[j - 1] >= s) /\ q[j - 1] \in Nat
      BY <1>1, <1>3, <2>1, <3>1
    <3> QED
      BY <3>2, <3>3
  <2>5. CASE j > a + 2
    <3>1. /\ ~(j - 1 <= a) /\ j - 1 # a + 1 /\ ~(j <= a) /\ j # a + 1
          /\ j - 1 \in 2..n
      BY <1>2, <2>1, <2>5
    <3>2. r[j] = q[j - 1] /\ r[j - 1] = q[(j - 1) - 1]
      BY <1>2, <2>1, <3>1
    <3> QED
      BY <1>4, <3>1, <3>2
  <2> QED
    BY <1>2, <2>1, <2>2, <2>3, <2>4, <2>5
<1>6. Descending(r)
  BY <1>2, <1>5 DEF Descending
<1>7. ASSUME NEW t \in Nat
      PROVE  AtLeast(r, t) = AtLeast(q, t) + IF s >= t THEN 1 ELSE 0
  <2> DEFINE b == AtLeast(q, t)
             m == b + IF s >= t THEN 1 ELSE 0
  <2>1. b \in 0..n /\ \A j \in 1..n : q[j] >= t <=> j <= b
    BY DescendingReaches, Zenon DEF n
  <2> HIDE DEF b
  <2>2. m \in 0..(n + 1)
    BY <1>1, <2>1
  <2>3. s >= t => a <= b
    <3>1. CASE a = 0
      BY <1>1, <2>1, <3>1
    <3>2. CASE a # 0
      <4>1. a \in 1..n
        BY <1>1, <1>2, <3>2
      <4>2. q[a] >= s /\ q[a] \in Nat
        BY <1>1, <1>2, <1>3, <4>1
      <4> QED
        BY <2>1, <4>1, <4>2
    <3> QED
      BY <3>1, <3>2
  <2>4. ~(s >= t) => b <= a
    <3>1. CASE b = 0
      BY <1>1, <1>2, <3>1
    <3>2. CASE b # 0
      <4>1. b \in 1..n
        BY <1>1, <2>1, <3>2
      <4>2. q[b] >= t /\ q[b] \in Nat
        BY <1>1, <2>1, <4>1
      <4> QED
        BY <1>3, <4>1, <4>2
    <3> QED
      BY <3>1, <3>2
  <2>5. ASSUME NEW j \in 1..(n + 1) PROVE r[j] >= t <=> j <= m
    <3>1. CASE j <= a
      <4>1. j \in 1..n /\ r[j] = q[j]
        BY <1>1, <1>2, <3>1
      <4>2. q[j] >= s /\ q[j] \in Nat
        BY <1>1, <1>3, <3>1, <4>1
      <4>3. q[j] >= t <=> j <= b
        BY <2>1, <4>1
      <4> QED
        BY <1>2, <2>1, <2>3, <3>1, <4>1, <4>2, <4>3
    <3>2. CASE j = a + 1
      <4>1. r[j] = s
        BY <1>2, <3>2
      <4> QED
        BY <1>2, <2>1, <2>3, <2>4, <3>2, <4>1
    <3>3. CASE j > a + 1
      <4>1. j - 1 \in 1..n /\ r[j] = q[j - 1]
        BY <1>1, <1>2, <3>3
      <4>2. ~(j - 1 <= a)
        BY <1>2, <3>3
      <4>3. q[j - 1] >= t <=> j - 1 <= b
        BY <2>1, <4>1
      <4> QED
        BY <1>2, <2>1, <2>4, <3>3, <4>1, <4>3
    <3> QED
      BY <1>2, <3>1, <3>2, <3>3
  <2> HIDE DEF m
  <2>6. \A j \in 1..m : r[j] >= t
    BY <1>1, <2>2, <2>5
  <2>7. \A j \in (m + 1)..(n + 1) : ~(r[j] >= t)
    BY <1>1, <2>2, <2>5
  <2>8. AtLeast(r, t) = m
    <3>1. r \in Seq(Nat) /\ m \in 0..Len(r) /\ \A j \in (m + 1)..Len(r) : ~(r[j] >= t)
      BY <1>2, <2>2, <2>7
    <3> QED
      BY <2>6, <3>1, AtLeastIs
  <2> QED
    BY <2>8 DEF m, b
<1> QED
  BY <1>6, <1>7 DEF r

Smaller(a, b) == IF a <= b THEN a ELSE b

\* The first places of a descending sequence.
LEMMA FirstCounts ==
  ASSUME NEW r \in Seq(Nat), Descending(r), NEW q \in Seq(Nat), Len(q) <= Len(r),
         \A j \in 1..Len(q) : q[j] = r[j]
  PROVE  /\ Descending(q)
         /\ \A t \in Nat : AtLeast(q, t) = Smaller(Len(q), AtLeast(r, t))
<1> DEFINE n == Len(q)
<1>1. n \in Nat /\ Len(r) \in Nat /\ n <= Len(r)
  OBVIOUS
<1>2. \A j \in 1..n : q[j] = r[j]
  OBVIOUS
<1>3. Descending(q)
  <2>1. ASSUME NEW j \in 2..n PROVE q[j - 1] >= q[j]
    <3>1. j \in 1..n /\ j - 1 \in 1..n /\ j \in 2..Len(r)
      BY <1>1
    <3>2. r[j - 1] >= r[j]
      BY <3>1 DEF Descending
    <3> QED
      BY <1>2, <3>1, <3>2
  <2> QED
    BY <2>1 DEF Descending
<1>4. ASSUME NEW t \in Nat PROVE AtLeast(q, t) = Smaller(n, AtLeast(r, t))
  <2> DEFINE a == AtLeast(r, t)
             m == Smaller(n, a)
  <2>1. a \in 0..Len(r) /\ \A j \in 1..Len(r) : r[j] >= t <=> j <= a
    BY DescendingReaches, Zenon
  <2> HIDE DEF a
  <2>2. m \in 0..n /\ m <= a /\ (m < n => m = a)
    BY <1>1, <2>1 DEF Smaller
  <2> HIDE DEF m
  <2>3. \A j \in 1..n : j \in 1..Len(r)
    BY <1>1
  <2>4. \A j \in 1..m : q[j] >= t
    <3> SUFFICES ASSUME NEW j \in 1..m PROVE q[j] >= t
      OBVIOUS
    <3>1. j \in 1..n /\ j <= a
      BY <1>1, <2>1, <2>2
    <3> QED
      BY <1>2, <2>1, <2>3, <3>1
  <2>5. \A j \in (m + 1)..n : ~(q[j] >= t)
    <3> SUFFICES ASSUME NEW j \in (m + 1)..n PROVE ~(q[j] >= t)
      OBVIOUS
    <3>1. j \in 1..n /\ ~(j <= a)
      BY <1>1, <2>1, <2>2
    <3> QED
      BY <1>2, <2>1, <2>3, <3>1
  <2>6. AtLeast(q, t) = m
    BY <2>2, <2>4, <2>5, AtLeastIs
  <2> QED
    BY <2>6 DEF m, a
<1> QED
  BY <1>3, <1>4

\* What a score does to a queue: the queue stays descending, and reaches a
\* score once more if the new one does, but never more than K times.
LEMMA InsertCounts ==
  ASSUME K \in Nat \ {0}, NEW q \in Seq(Nat), Len(q) <= K, Descending(q),
         NEW s \in Nat
  PROVE  /\ Descending(insert(q, s))
         /\ Len(q) < K \/ s > q[K] =>
              \A t \in Nat : AtLeast(insert(q, s), t) =
                Smaller(K, AtLeast(q, t) + IF s >= t THEN 1 ELSE 0)
         /\ Len(q) = K => Len(insert(q, s)) = K /\ insert(q, s)[K] >= q[K]
<1> DEFINE n == Len(q)
           r == Sorted(q, s)
           x == insert(q, s)
<1>1. n \in Nat /\ n <= K /\ \A j \in 1..n : q[j] \in Nat
  OBVIOUS
<1>2. r \in Seq(Nat) /\ Len(r) = n + 1
  BY SortedIs, Zenon
<1>3. /\ Descending(r)
      /\ \A t \in Nat : AtLeast(r, t) = AtLeast(q, t) + IF s >= t THEN 1 ELSE 0
  BY SortedCounts, Zenon
<1>4. \A t \in Nat : AtLeast(q, t) \in 0..n
  BY DescendingReaches, Zenon
<1>5. /\ x \in Seq(Nat)
      /\ n < K => x = r
      /\ n = K /\ s > q[K] => Len(x) = K /\ \A j \in 1..K : x[j] = r[j]
      /\ n = K /\ ~(s > q[K]) => x = q
  BY InsertIs, Zenon
<1> HIDE DEF r, x, n
<1>6. \A t \in Nat : AtLeast(r, t) \in Nat /\ AtLeast(r, t) <= n + 1
  <2> SUFFICES ASSUME NEW t \in Nat
               PROVE  AtLeast(r, t) \in Nat /\ AtLeast(r, t) <= n + 1
    OBVIOUS
  <2> DEFINE a == AtLeast(q, t)
             b == AtLeast(r, t)
  <2>1. a \in 0..n /\ b = a + IF s >= t THEN 1 ELSE 0
    BY <1>3, <1>4
  <2> HIDE DEF a, b
  <2>2. b \in Nat /\ b <= n + 1
    BY <1>1, <2>1
  <2> QED
    BY <2>2 DEF b
<1>7. CASE n < K
  <2>1. \A t \in Nat : AtLeast(x, t) = Smaller(K, AtLeast(r, t))
    BY <1>1, <1>5, <1>6, <1>7 DEF Smaller
  <2> QED
    BY <1>1, <1>3, <1>5, <1>7, <2>1 DEF x, n
<1>8. CASE n = K /\ s > q[K]
  <2>1. Len(x) = K /\ \A j \in 1..K : x[j] = r[j]
    BY <1>5, <1>8
  <2>2. Len(x) <= Len(r) /\ \A j \in 1..Len(x) : x[j] = r[j]
    BY <1>2, <1>8, <2>1
  <2>3. /\ Descending(x)
        /\ \A t \in Nat : AtLeast(x, t) = Smaller(Len(x), AtLeast(r, t))
    BY <1>2, <1>3, <1>5, <2>2, FirstCounts
  <2>4. x[K] >= q[K]
    <3> DEFINE a == AtLeast(q, s)
    <3>1. /\ a \in 0..Len(q)
          /\ \A j \in 1..(Len(q) + 1) :
               r[j] = IF j <= a THEN q[j] ELSE IF j = a + 1 THEN s ELSE q[j - 1]
      BY SortedIs, Zenon DEF r
    <3>2. \A j \in 2..Len(q) : q[j - 1] >= q[j]
      BY DEF Descending
    <3> HIDE DEF a
    <3>3. K \in 1..(n + 1) /\ K \in 1..n /\ q[K] \in Nat
      BY <1>1, <1>8
    <3>4. x[K] = IF K <= a THEN q[K] ELSE IF K = a + 1 THEN s ELSE q[K - 1]
      <4>1. x[K] = r[K]
        BY <2>1, <3>3
      <4> QED
        BY <3>1, <3>3, <4>1 DEF n
    <3>5. K - 1 >= 1 => q[K - 1] >= q[K]
      BY <1>8, <3>2, <3>3 DEF n
    <3>6. ~(K <= a) /\ K # a + 1 => K - 1 >= 1
      BY <3>1, <3>3 DEF n
    <3> QED
      BY <1>8, <3>3, <3>4, <3>5, <3>6
  <2> QED
    BY <1>3, <1>8, <2>1, <2>3, <2>4 DEF x, n
<1>9. CASE n = K /\ ~(s > q[K])
  <2>1. q[K] \in Nat /\ x = q
    BY <1>1, <1>5, <1>9
  <2> QED
    BY <1>9, <2>1 DEF x, n
<1> QED
  BY <1>1, <1>7, <1>8, <1>9

Lists(d) == {k \in 1..count : d \in Docs(k)}

\* How many of a set of documents reach a score.
Reaching(D, t) == Cardinality({d \in D : FullScore(d) >= t})

\* The K best scores of a set of documents, IsBestOf put for every score.
Best(q, D) ==
  /\ Descending(q)
  /\ \A t \in Nat : AtLeast(q, t) = Smaller(K, Reaching(D, t))

\* The score of a document over all its lists.
LEMMA FullScoreIs ==
  ASSUME InputOK, NEW d
  PROVE  FullScore(d) \in Nat /\ FullScore(d) = ScoreOf(d, Lists(d))
<1>1. FullScore(d) = ScoreOf(d, Lists(d))
  BY DEF FullScore, Lists
<1>2. Lists(d) \in SUBSET {k \in 1..count : d \in Docs(k)}
  BY DEF Lists
<1> HIDE DEF Lists
<1>3. ScoreOf(d, Lists(d)) \in Nat
  BY <1>2, ScoreIsNat
<1> QED
  BY <1>1, <1>3

\* How many documents reach a threshold.
LEMMA ReachingIs ==
  ASSUME NEW D, IsFiniteSet(D), NEW t
  PROVE  /\ IsFiniteSet({d \in D : FullScore(d) >= t})
         /\ Reaching(D, t) \in Nat
<1> DEFINE R == {d \in D : FullScore(d) >= t}
<1>1. R \in SUBSET D
  OBVIOUS
<1>2. Reaching(D, t) = Cardinality(R)
  BY DEF Reaching
<1> HIDE DEF R
<1>3. IsFiniteSet(R)
  BY <1>1, FS_Subset
<1> QED
  BY <1>2, <1>3, FS_CardinalityType DEF R

\* Documents that do not reach above a full queue change nothing.
LEMMA BestLeaves ==
  ASSUME InputOK, NEW q \in Seq(Nat), Len(q) = K,
         NEW D, NEW E, IsFiniteSet(E), D \subseteq E, Best(q, D),
         \A e \in E : e \notin D => FullScore(e) <= q[K]
  PROVE  Best(q, E)
<1>1. K \in Nat \ {0} /\ q[K] \in Nat /\ \A j \in 1..K : q[j] \in Nat
  BY SizesAre
<1>2. IsFiniteSet(D)
  BY FS_Subset
<1>3. ASSUME NEW t \in Nat PROVE AtLeast(q, t) = Smaller(K, Reaching(E, t))
  <2> DEFINE RD == {d \in D : FullScore(d) >= t}
             RE == {d \in E : FullScore(d) >= t}
  <2>1. AtLeast(q, t) = Smaller(K, Reaching(D, t))
    BY DEF Best
  <2>2. /\ IsFiniteSet(RE) /\ Reaching(E, t) \in Nat /\ Reaching(D, t) \in Nat
    BY <1>2, ReachingIs
  <2>3. Reaching(D, t) = Cardinality(RD) /\ Reaching(E, t) = Cardinality(RE)
    BY DEF Reaching
  <2>4. RD \subseteq RE
    OBVIOUS
  <2>5. CASE q[K] >= t
    <3>1. AtLeast(q, t) \in 0..K /\ K <= AtLeast(q, t)
      <4>1. /\ AtLeast(q, t) \in 0..Len(q)
            /\ \A j \in 1..Len(q) : q[j] >= t <=> j <= AtLeast(q, t)
        BY DescendingReaches, Zenon DEF Best
      <4>2. K \in 1..Len(q)
        BY <1>1
      <4> QED
        BY <2>5, <4>1, <4>2
    <3> HIDE DEF RD, RE
    <3>2. Cardinality(RD) <= Cardinality(RE)
      BY <2>2, <2>4, FS_Subset
    <3> QED
      BY <1>1, <2>1, <2>2, <2>3, <3>1, <3>2 DEF Smaller
  <2>6. CASE ~(q[K] >= t)
    <3>1. \A e \in E : FullScore(e) >= t => e \in D
      <4> SUFFICES ASSUME NEW e \in E, FullScore(e) >= t, e \notin D PROVE FALSE
        OBVIOUS
      <4>1. FullScore(e) <= q[K] /\ FullScore(e) \in Nat
        BY FullScoreIs
      <4> QED
        BY <1>1, <2>6, <4>1
    <3>2. RD = RE
      BY <3>1
    <3> QED
      BY <2>1, <2>3, <3>2
  <2> QED
    BY <2>5, <2>6
<1> QED
  BY <1>3 DEF Best

\* The score of a document that is put in is what makes the queue the best of
\* it too.
LEMMA BestTakes ==
  ASSUME InputOK, NEW q \in Seq(Nat), Len(q) <= K,
         NEW D, IsFiniteSet(D), Best(q, D), NEW c, c \notin D
  PROVE  Best(insert(q, FullScore(c)), D \cup {c})
<1> DEFINE s == FullScore(c)
<1>1. K \in Nat \ {0} /\ Len(q) \in Nat /\ s \in Nat
  BY SizesAre, FullScoreIs
<1>2. CASE Len(q) = K /\ ~(s > q[K])
  <2>1. insert(q, s) = q
    BY <1>1, <1>2, InsertIs
  <2>2. q[K] \in Nat
    BY <1>1, <1>2
  <2>3. IsFiniteSet(D \cup {c})
    BY FS_AddElement
  <2>4. s <= q[K]
    BY <1>1, <1>2, <2>2
  <2>5. Best(q, D \cup {c})
    BY <1>2, <2>3, <2>4, BestLeaves
  <2> QED
    BY <2>1, <2>5
<1>3. CASE Len(q) < K \/ s > q[K]
  <2>1. Descending(q)
    BY DEF Best
  <2>2. /\ Descending(insert(q, s))
        /\ \A t \in Nat : AtLeast(insert(q, s), t) =
             Smaller(K, AtLeast(q, t) + IF s >= t THEN 1 ELSE 0)
    BY <1>1, <1>3, <2>1, InsertCounts
  <2>3. ASSUME NEW t \in Nat
        PROVE  AtLeast(insert(q, s), t) = Smaller(K, Reaching(D \cup {c}, t))
    <3> DEFINE R == {d \in D : FullScore(d) >= t}
               more == IF s >= t THEN 1 ELSE 0
    <3>1. IsFiniteSet(R) /\ Reaching(D, t) = Cardinality(R) /\ Reaching(D, t) \in Nat
      BY ReachingIs DEF Reaching
    <3>2. Reaching(D \cup {c}, t) = Reaching(D, t) + more
      <4>1. {d \in D \cup {c} : FullScore(d) >= t} = IF s >= t THEN R \cup {c} ELSE R
        OBVIOUS
      <4>2. c \notin R
        OBVIOUS
      <4> HIDE DEF R
      <4>3. Cardinality(R \cup {c}) = Cardinality(R) + 1
        BY <3>1, <4>2, FS_AddElement
      <4>4. Reaching(D \cup {c}, t) = Cardinality(IF s >= t THEN R \cup {c} ELSE R)
        BY <4>1 DEF Reaching
      <4>5. Cardinality(R) \in Nat
        BY <3>1
      <4>6. CASE s >= t
        BY <3>1, <4>3, <4>4, <4>6
      <4>7. CASE ~(s >= t)
        BY <3>1, <4>4, <4>5, <4>7
      <4> QED
        BY <4>6, <4>7
    <3>3. AtLeast(q, t) = Smaller(K, Reaching(D, t))
      BY DEF Best
    <3>4. AtLeast(insert(q, s), t) = Smaller(K, AtLeast(q, t) + more)
      BY <2>2
    <3> DEFINE a == AtLeast(q, t)
               n == Reaching(D, t)
    <3>5. more \in {0, 1}
      OBVIOUS
    <3> HIDE DEF more, a, n
    <3>6. a = Smaller(K, n) /\ n \in Nat
      BY <3>1, <3>3 DEF a, n
    <3>7. Smaller(K, a + more) = Smaller(K, n + more)
      BY <1>1, <3>5, <3>6 DEF Smaller
    <3> QED
      BY <3>2, <3>4, <3>7 DEF a, n
  <2> QED
    BY <2>2, <2>3 DEF Best
<1> QED
  BY <1>1, <1>2, <1>3

-----------------------------------------------------------------------------
(* What the upper bounds promise: no document scores more than what is     *)
(* known of it and the bounds of the lists that are left.                  *)

\* The queries whose bounds hold: maxscore_query and maxscore_dyn_query do not
\* weigh the bound of a term by how often the query has it.
BoundsHold == IsMaxscore => \A k \in 1..count : q_weight[k] = 1

\* No list gives a document more than the bound stored for it.
LEMMA WeightBounded ==
  ASSUME InputOK, BoundsHold, query \in {"wand", "maxscore"},
         NEW d, NEW k \in Lists(d)
  PROVE  /\ Weight(d)[k] \in Nat /\ max_weight(k) \in Nat
         /\ Weight(d)[k] <= max_weight(k)
<1> DEFINE w == doc_term_weight(k, d)
           m == max_term_weight(k)
<1>1. k \in 1..count /\ d \in Docs(k)
  BY DEF Lists
<1>2. w \in Nat /\ m \in Nat /\ w <= m
  BY <1>1, WeightsAre
<1>3. q_weight[k] \in Nat
  BY <1>1 DEF InputOK
<1>4. Weight(d)[k] = q_weight[k] * w
  BY <1>1 DEF Weight
<1>5. CASE query = "wand"
  <2>1. max_weight(k) = q_weight[k] * m
    BY <1>5 DEF max_weight
  <2> HIDE DEF w, m
  <2>2. q_weight[k] * w <= q_weight[k] * m /\ q_weight[k] * w \in Nat
    BY <1>2, <1>3, TimesMonotone
  <2>3. q_weight[k] * m \in Nat
    BY <1>2, <1>3
  <2> QED
    BY <1>4, <2>1, <2>2, <2>3
<1>6. CASE query = "maxscore"
  <2>1. max_weight(k) = m /\ q_weight[k] = 1
    BY <1>1, <1>6 DEF max_weight, BoundsHold, IsMaxscore
  <2> HIDE DEF w, m
  <2> QED
    BY <1>2, <1>4, <2>1
<1> QED
  BY <1>5, <1>6

\* The lists of a document at the places of an order after the first p.
RestOf(o, p, d) == {o[q] : q \in (p + 1)..count} \cap Lists(d)

Rest(p, d) == RestOf(order, p, d)

\* The list at a place adds its weight, if it has the document.
LEMMA RestGrows ==
  ASSUME InputOK, NEW o, IsOrder(o), NEW d, NEW p \in 0..(count - 1)
  PROVE  LET k == o[p + 1]
         IN  /\ k \in 1..count
             /\ Total(Weight(d), RestOf(o, p + 1, d)) \in Nat
             /\ k \in Lists(d) => Weight(d)[k] \in Nat
             /\ Total(Weight(d), RestOf(o, p, d)) =
                  Total(Weight(d), RestOf(o, p + 1, d))
                    + IF k \in Lists(d) THEN Weight(d)[k] ELSE 0
<1> DEFINE k == o[p + 1]
           W == Weight(d)
           later == RestOf(o, p + 1, d)
<1>1. count \in Nat /\ p \in Nat /\ p + 1 \in 1..count
  BY SizesAre
<1>2. o \in [1..count -> 1..count] /\ k \in 1..count
  BY <1>1 DEF IsOrder
<1>3. /\ later \in SUBSET {j \in 1..count : d \in Docs(j)}
      /\ IsFiniteSet(later) /\ \A j \in later : W[j] \in Nat
  <2>1. later \in SUBSET {j \in 1..count : d \in Docs(j)}
    BY DEF RestOf, Lists
  <2> HIDE DEF later
  <2> QED
    BY <2>1, ScoreIs
<1>4. Total(W, later) \in Nat
  BY <1>3, TotalIs
<1>5. {o[q] : q \in (p + 1)..count} = {k} \cup {o[q] : q \in (p + 2)..count}
  BY <1>1
<1>6. k \notin {o[q] : q \in (p + 2)..count}
  BY <1>1 DEF IsOrder
<1>7. (p + 1) + 1 = p + 2
  BY <1>1
<1>8. CASE k \in Lists(d)
  <2>1. RestOf(o, p, d) = later \cup {k} /\ k \notin later
    BY <1>5, <1>6, <1>7, <1>8 DEF RestOf
  <2>2. W[k] \in Nat
    BY <1>8, WeightIsNat DEF Lists
  <2> HIDE DEF later, k, W
  <2>3. Total(W, later \cup {k}) = Total(W, later) + W[k]
    BY <1>3, <2>1, <2>2, TotalAdd, Zenon
  <2> QED
    BY <1>2, <1>4, <1>8, <2>1, <2>2, <2>3 DEF W, later, k
<1>9. CASE k \notin Lists(d)
  <2>1. RestOf(o, p, d) = later
    BY <1>5, <1>6, <1>7, <1>9 DEF RestOf
  <2>2. Total(W, later) = Total(W, later) + 0
    BY <1>4
  <2> HIDE DEF k
  <2> QED
    BY <1>2, <1>4, <1>9, <2>1, <2>2 DEF k
<1> QED
  BY <1>8, <1>9

\* Before the first place lie none of the lists.
LEMMA RestOfAll ==
  ASSUME InputOK, NEW o, IsOrder(o), NEW d
  PROVE  RestOf(o, 0, d) = Lists(d)
<1>1. \A k \in 1..count : \E q \in 1..count : o[q] = k
  BY SizesAre, OrderIsOnto
<1> QED
  BY <1>1 DEF RestOf, Lists

\* One more place: the list leaves the rest, and its bound comes in.
LEMMA RestStep ==
  ASSUME InputOK, NEW o, IsOrder(o), NEW b, \A j \in 1..count : b[j] \in Nat,
         NEW d, NEW p \in 0..(count - 1),
         o[p + 1] \in Lists(d) => Weight(d)[o[p + 1]] <= b[p + 1]
  PROVE  Total(Weight(d), RestOf(o, p, d)) + Total(b, 1..p)
           <= Total(Weight(d), RestOf(o, p + 1, d)) + Total(b, 1..(p + 1))
<1> DEFINE k == o[p + 1]
           e == p + 1
           first == 1..p
           w == IF k \in Lists(d) THEN Weight(d)[k] ELSE 0
<1>1. count \in Nat /\ e \in 1..count
  BY SizesAre
<1>2. b[e] \in Nat
  BY <1>1
<1>3. IsFiniteSet(first) /\ \A j \in first : b[j] \in Nat
  <2>1. first \subseteq 1..count /\ IsFiniteSet(1..count)
    BY <1>1, SizesAre
  <2> HIDE DEF first
  <2> QED
    BY <2>1, FS_Subset
<1>4. 1..e = first \cup {e} /\ e \notin first
  BY <1>1
<1>5. Total(b, first) \in Nat /\ Total(b, 1..e) = Total(b, first) + b[e]
  <2> HIDE DEF first, e
  <2>1. Total(b, first \cup {e}) = Total(b, first) + b[e]
    BY <1>2, <1>3, <1>4, TotalAdd
  <2>2. Total(b, first) \in Nat
    BY <1>3, TotalIs
  <2> QED
    BY <1>4, <2>1, <2>2
<1>6. /\ Total(Weight(d), RestOf(o, e, d)) \in Nat
      /\ Total(Weight(d), RestOf(o, p, d)) = Total(Weight(d), RestOf(o, e, d)) + w
      /\ k \in Lists(d) => Weight(d)[k] \in Nat
  BY RestGrows
<1>7. w \in Nat /\ w <= b[e]
  BY <1>2, <1>6
<1> HIDE DEF w, k, first, e
<1>8. Total(Weight(d), RestOf(o, p, d)) + Total(b, first)
        <= Total(Weight(d), RestOf(o, e, d)) + Total(b, 1..e)
  BY <1>2, <1>5, <1>6, <1>7
<1> QED
  BY <1>8 DEF first, e

\* A document scores no more than the lists at the places after the first p
\* give it and the bounds of the first p, whatever the order.
LEMMA Split ==
  ASSUME InputOK, NEW o, IsOrder(o), NEW b, \A j \in 1..count : b[j] \in Nat,
         NEW d, \A j \in 1..count : o[j] \in Lists(d) => Weight(d)[o[j]] <= b[j],
         NEW p \in 0..count
  PROVE  /\ FullScore(d) \in Nat /\ Total(b, 1..p) \in Nat
         /\ Total(Weight(d), RestOf(o, p, d)) \in Nat
         /\ ScoreOf(d, RestOf(o, p, d)) = Total(Weight(d), RestOf(o, p, d))
         /\ FullScore(d) <= Total(Weight(d), RestOf(o, p, d)) + Total(b, 1..p)
<1> DEFINE H(n) == Total(Weight(d), RestOf(o, n, d)) + Total(b, 1..n)
           Bad == {n \in 0..count : ~(FullScore(d) <= H(n))}
<1>1. count \in Nat
  BY SizesAre
<1>2. \A n : RestOf(o, n, d) \in SUBSET {j \in 1..count : d \in Docs(j)}
  BY DEF RestOf, Lists
<1>3. \A n : /\ ScoreOf(d, RestOf(o, n, d)) = Total(Weight(d), RestOf(o, n, d))
             /\ Total(Weight(d), RestOf(o, n, d)) \in Nat
  BY <1>2, ScoreIs, TotalIs
<1>4. ASSUME NEW n \in 0..count
      PROVE  Total(b, 1..n) \in Nat /\ (n = 0 => Total(b, 1..n) = 0)
  <2> DEFINE first == 1..n
  <2>1. IsFiniteSet(first) /\ (\A j \in first : b[j] \in Nat) /\ (n = 0 => first = {})
    <3>1. first \subseteq 1..count /\ IsFiniteSet(1..count) /\ (n = 0 => first = {})
      BY <1>1, SizesAre
    <3> HIDE DEF first
    <3> QED
      BY <3>1, FS_Subset
  <2> HIDE DEF first
  <2>2. Total(b, first) \in Nat /\ (first = {} => Total(b, first) = 0)
    BY <2>1, TotalIs
  <2> QED
    BY <2>1, <2>2 DEF first
<1>5. FullScore(d) \in Nat /\ FullScore(d) = ScoreOf(d, Lists(d))
  BY FullScoreIs
<1>6. RestOf(o, 0, d) = Lists(d)
  BY RestOfAll
<1>7. 0 \in 0..count /\ Total(b, 1..0) = 0
  <2>1. 0 \in 0..count
    BY <1>1
  <2> QED
    BY <1>4, <2>1
<1>8. FullScore(d) <= H(0)
  <2>1. H(0) = FullScore(d) + 0
    BY <1>3, <1>5, <1>6, <1>7
  <2> HIDE DEF H
  <2> QED
    BY <1>5, <2>1
<1>9. \A n \in 0..count : H(n) \in Nat
  BY <1>3, <1>4
<1>10. \A n \in 0..(count - 1) : H(n) <= H(n + 1)
  <2>1. ASSUME NEW n \in 0..(count - 1)
        PROVE  o[n + 1] \in Lists(d) => Weight(d)[o[n + 1]] <= b[n + 1]
    BY <1>1
  <2> QED
    BY <2>1, RestStep
<1> HIDE DEF H
<1>11. ASSUME Bad # {}
       PROVE  FALSE
  <2>1. Bad \in SUBSET Nat
    BY <1>1
  <2> HIDE DEF Bad
  <2>2. PICK n \in Bad : \A m \in Bad : n <= m
    BY <1>11, <2>1, LeastElement
  <2>3. n \in 0..count /\ n # 0 /\ ~(FullScore(d) <= H(n))
    BY <1>8, <2>2 DEF Bad
  <2>4. n - 1 \in 0..count /\ n - 1 \in 0..(count - 1) /\ (n - 1) + 1 = n /\ ~(n <= n - 1)
    BY <1>1, <2>3
  <2>5. FullScore(d) <= H(n - 1)
    BY <2>2, <2>4 DEF Bad
  <2>6. H(n - 1) <= H(n) /\ H(n - 1) \in Nat /\ H(n) \in Nat
    BY <1>9, <1>10, <2>3, <2>4
  <2> QED
    BY <1>5, <2>3, <2>5, <2>6
<1>12. FullScore(d) <= H(p)
  BY <1>11 DEF Bad
<1> QED
  BY <1>3, <1>4, <1>5, <1>12 DEF H

\* A document whose lists are all among the first ones scores no more than
\* their bounds.
LEMMA SplitSkips ==
  ASSUME InputOK, NEW o, IsOrder(o), NEW b, \A j \in 1..count : b[j] \in Nat,
         NEW d, \A j \in 1..count : o[j] \in Lists(d) => Weight(d)[o[j]] <= b[j],
         NEW p \in 0..count,
         \A k \in Lists(d) : \E q \in 1..p : o[q] = k
  PROVE  FullScore(d) <= Total(b, 1..p)
<1>1. count \in Nat
  BY SizesAre
<1>2. RestOf(o, p, d) = {}
  <2>1. ASSUME NEW k \in RestOf(o, p, d)
        PROVE  FALSE
    <3>1. PICK q \in (p + 1)..count : o[q] = k
      BY DEF RestOf
    <3>2. PICK r \in 1..p : o[r] = k
      BY DEF RestOf
    <3>3. q \in 1..count /\ r \in 1..count /\ q # r
      BY <1>1, <3>1, <3>2
    <3> QED
      BY <3>1, <3>2, <3>3 DEF IsOrder
  <2> QED
    BY <2>1
<1>3. Total(Weight(d), {}) = 0
  <2>1. IsFiniteSet({}) /\ \A k \in {} : Weight(d)[k] \in Nat
    BY FS_EmptySet
  <2> QED
    BY <2>1, TotalIs
<1>4. /\ FullScore(d) \in Nat /\ Total(b, 1..p) \in Nat
      /\ FullScore(d) <= Total(Weight(d), RestOf(o, p, d)) + Total(b, 1..p)
  BY Split
<1> QED
  BY <1>2, <1>3, <1>4

\* The bounds of wand_data are such bounds.
LEMMA BoundsAre ==
  ASSUME InputOK, BoundsHold, query \in {"wand", "maxscore"}, IsOrder(order), NEW d
  PROVE  /\ \A j \in 1..count : Bound[j] \in Nat
         /\ \A j \in 1..count : order[j] \in Lists(d)
                                 => Weight(d)[order[j]] <= Bound[j]
<1>1. count \in Nat /\ order \in [1..count -> 1..count] /\ count \in 0..count
  BY SizesAre DEF IsOrder
<1>2. \A j \in 1..count : Bound[j] \in Nat
  BY <1>1, UpperBoundIs
<1>3. \A j \in 1..count : Bound[j] = max_weight(order[j])
  BY DEF Bound
<1> QED
  BY <1>2, <1>3, WeightBounded

\* A document scores no more than the lists after a place give it and the bounds
\* of those up to it.
LEMMA BoundSplit ==
  ASSUME InputOK, BoundsHold, query \in {"wand", "maxscore"}, IsOrder(order),
         NEW d, NEW p \in 0..count
  PROVE  /\ FullScore(d) \in Nat /\ UpperBound(p) \in Nat
         /\ Total(Weight(d), Rest(p, d)) \in Nat
         /\ FullScore(d) <= Total(Weight(d), Rest(p, d)) + UpperBound(p)
<1>1. UpperBound(p) = Total(Bound, 1..p)
  BY UpperBoundIs DEF IsOrder
<1>2. /\ \A j \in 1..count : Bound[j] \in Nat
      /\ \A j \in 1..count : order[j] \in Lists(d)
                              => Weight(d)[order[j]] <= Bound[j]
  BY BoundsAre
<1> QED
  BY <1>1, <1>2, Split DEF Rest

-----------------------------------------------------------------------------
(* What a step of a query does to the queue. *)

\* A score that a queue of at most K scores does not take.
LEMMA CannotEnter ==
  ASSUME NEW q \in Seq(Nat), Len(q) <= K, K \in Nat \ {0}, NEW s \in Nat
  PROVE  ~would_enter(q, s) <=> Len(q) = K /\ s <= q[K]
<1>1. Len(q) \in Nat /\ (Len(q) >= K <=> Len(q) = K)
  OBVIOUS
<1>2. Len(q) = K => q[K] \in Nat /\ q[Len(q)] = q[K]
  BY <1>1
<1> QED
  BY <1>1, <1>2 DEF would_enter

\* A document is scored, or neither its score nor what was found of it can
\* enter; nor can those that are left out with it.
LEMMA TopTakes ==
  ASSUME InputOK, NEW q \in Seq(Nat), Len(q) <= K, NEW s \in Nat,
         NEW D, NEW E, NEW c, IsFiniteSet(E), D \cup {c} \subseteq E, c \notin D,
         Best(q, D),
         s = FullScore(c) \/ (~would_enter(q, s) /\ ~would_enter(q, FullScore(c))),
         \A e \in E : e \notin D \cup {c} => ~would_enter(q, FullScore(e))
  PROVE  /\ insert(q, s) \in Seq(Nat) /\ Len(insert(q, s)) <= K
         /\ Best(insert(q, s), E)
         /\ \A t \in Nat : ~would_enter(q, t) => ~would_enter(insert(q, s), t)
<1> DEFINE r == insert(q, s)
           F == D \cup {c}
<1>1. K \in Nat \ {0} /\ Len(q) \in Nat
  BY SizesAre
<1>2. Descending(q)
  BY DEF Best
<1>3. r \in Seq(Nat) /\ Len(r) <= K
  BY <1>1, InsertIs
<1>4. Len(q) = K => Len(r) = K /\ r[K] >= q[K] /\ q[K] \in Nat /\ r[K] \in Nat
  <2>1. Len(q) = K => Len(r) = K /\ r[K] >= q[K]
    BY <1>1, <1>2, InsertCounts
  <2> HIDE DEF r
  <2> QED
    BY <1>1, <1>3, <2>1
<1>5. ASSUME NEW t \in Nat, ~would_enter(q, t)
      PROVE  /\ ~would_enter(r, t)
             /\ Len(r) = K /\ t <= r[K]
  <2> HIDE DEF r
  <2>1. Len(q) = K /\ t <= q[K]
    BY <1>1, <1>5, CannotEnter
  <2>2. Len(r) = K /\ t <= r[K]
    BY <1>4, <2>1
  <2> QED
    BY <1>1, <1>3, <2>2, CannotEnter
<1>6. IsFiniteSet(F) /\ IsFiniteSet(D) /\ F \in SUBSET E
  BY FS_Subset
<1>7. FullScore(c) \in Nat /\ \A e : FullScore(e) \in Nat
  BY FullScoreIs
<1>8. Best(r, F)
  <2>1. CASE s = FullScore(c)
    BY <1>6, <2>1, BestTakes
  <2>2. CASE ~would_enter(q, s) /\ ~would_enter(q, FullScore(c))
    <3>1. Len(q) = K /\ s <= q[K] /\ FullScore(c) <= q[K]
      BY <1>1, <1>7, <2>2, CannotEnter
    <3>2. ~(s > q[K])
      BY <1>4, <3>1
    <3>3. r = q
      BY <1>1, <3>1, <3>2, InsertIs
    <3>4. Best(q, F)
      BY <1>6, <3>1, BestLeaves
    <3> QED
      BY <3>3, <3>4
  <2> QED
    BY <2>1, <2>2
<1>9. Best(r, E)
  <2> HIDE DEF r
  <2>1. CASE E = F
    BY <1>8, <2>1
  <2>2. CASE E # F
    <3>1. PICK e \in E : e \notin F
      BY <1>6, <2>2
    <3>2. Len(r) = K
      BY <1>5, <1>7, <3>1
    <3>3. \A x \in E : x \notin F => FullScore(x) <= r[K]
      BY <1>5, <1>7
    <3> HIDE DEF F
    <3> QED
      BY <1>3, <1>6, <1>8, <3>2, <3>3, BestLeaves
  <2> QED
    BY <2>1, <2>2
<1> QED
  BY <1>3, <1>5, <1>9

\* Documents that cannot enter may be left out.
LEMMA TopLeaves ==
  ASSUME InputOK, NEW q \in Seq(Nat), Len(q) <= K,
         NEW D, NEW E, IsFiniteSet(E), D \subseteq E, Best(q, D),
         \A e \in E : e \notin D => ~would_enter(q, FullScore(e))
  PROVE  Best(q, E)
<1>1. K \in Nat \ {0}
  BY SizesAre
<1>2. \A e : FullScore(e) \in Nat
  BY FullScoreIs
<1>3. CASE E = D
  BY <1>3
<1>4. CASE E # D
  <2>1. PICK e \in E : e \notin D
    BY <1>4
  <2>2. Len(q) = K /\ \A x \in E : x \notin D => FullScore(x) <= q[K]
    BY <1>1, <1>2, <2>1, CannotEnter
  <2> QED
    BY <2>2, BestLeaves
<1> QED
  BY <1>3, <1>4

-----------------------------------------------------------------------------
(* What stays while the input of a query does. *)

ScoresAreTotals == \A d : FullScore(d) = Total(Weight(d), Lists(d))

\* The scores of all the documents are totals, and stay what they are.
LEMMA ScoresAre == InputOK => ScoresAreTotals
BY FullScoreIs, ScoreIs DEF Lists, ScoresAreTotals

LEMMA ScoresStay ==
  ASSUME InputOK, UNCHANGED input
  PROVE  /\ \A d : Lists(d)' = Lists(d)
         /\ \A d : FullScore(d)' = FullScore(d)
         /\ Candidates' = Candidates
         /\ BoundsHold' <=> BoundsHold
         /\ \A k : max_weight(k)' = max_weight(k)
         /\ \A q, s : would_enter(q, s)' <=> would_enter(q, s)
<1>1. /\ InputOK'
      /\ UNCHANGED <<query, K, cursor, terms, q_weight, count>>
      /\ \A k : Docs(k)' = Docs(k) /\ freq(k)' = freq(k)
  BY InputStays
<1>0. (InputOK => ScoresAreTotals)'
  BY ScoresAre, PTL
<1>2. \A d : Lists(d)' = Lists(d)
  BY <1>1 DEF Lists
<1>3. ASSUME NEW d
      PROVE  FullScore(d)' = FullScore(d)
  <2>1. FullScore(d) = Total(Weight(d), Lists(d))
    BY ScoresAre DEF ScoresAreTotals
  <2>2. (FullScore(d) = Total(Weight(d), Lists(d)))'
    BY <1>1, <1>0 DEF ScoresAreTotals
  <2>3. Weight(d)' = Weight(d)
    BY <1>1 DEF Weight, doc_term_weight, IsMaxscore
  <2> QED
    BY <1>2, <2>1, <2>2, <2>3 DEF Total
<1>4. Candidates' = Candidates
  BY <1>1 DEF Candidates
<1>5. BoundsHold' <=> BoundsHold
  BY <1>1 DEF BoundsHold, IsMaxscore
<1>6. \A k : max_weight(k)' = max_weight(k)
  BY <1>1 DEF max_weight, max_term_weight
<1>7. \A q, s : would_enter(q, s)' <=> would_enter(q, s)
  BY <1>1 DEF would_enter
<1> QED
  BY <1>2, <1>3, <1>4, <1>5, <1>6, <1>7

-----------------------------------------------------------------------------
(* What the queue holds at every step: the best of the documents passed.   *)

Past == {d \in Candidates : d < Frontier}

Holds == Best(topk, Past)

\* No cursor has passed a document of its list that is not below b.
Ahead(b) == \A k \in 1..count : \A e \in Docs(k) : e >= b => docid[k] <= e

Unread(d) == \A k \in Lists(d) : docid[k] <= d

\* ranked_or_query scores every document on its way.
OrAhead ==
  query = "ranked_or" /\ pc = "loop" =>
    /\ Ahead(cur_doc)
    /\ \A k \in 1..count : cur_doc <= docid[k]
    /\ cur_doc < num_docs => \E k \in 1..count : docid[k] = cur_doc

\* A document that wand_query has moved a list past cannot enter.
WandAhead ==
  query = "wand" /\ pc = "loop" =>
    \A d \in Candidates :
      d >= docid[order[1]] => Unread(d) \/ ~would_enter(topk, FullScore(d))

EssentialFrom(b) == \A p \in (non_essential + 1)..count : b <= docid[order[p]]

\* What maxscore_query and maxscore_dyn_query keep to.  A document that is in no
\* essential list cannot enter; the cursors of those lists are on the next
\* document or after it, and no cursor has passed that; the score of a document
\* that is being completed is that of the lists that were looked at, and in the
\* end the document's, unless it does not enter.
NoneAfter(o, n, d) == \A p \in (n + 1)..count : o[p] \notin Lists(d)

OnlyLeftOut(d) == NoneAfter(order, non_essential, d)

Skips ==
  \A d \in Candidates :
    d >= cur_doc /\ OnlyLeftOut(d) => ~would_enter(topk, FullScore(d))

AtLoop ==
  pc = "loop" =>
    /\ cur_doc \in Candidates \cup {num_docs}
    /\ EssentialFrom(cur_doc)
    /\ Ahead(cur_doc)

Completed == Total(Weight(cur_doc), Rest(i, cur_doc))

Completing ==
  pc \in {"complete", "insert"} =>
    /\ cur_doc \in Candidates
    /\ next_doc \in Candidates \cup {num_docs}
    /\ cur_doc < next_doc
    /\ EssentialFrom(next_doc)
    /\ Ahead(cur_doc + 1)
    /\ i <= non_essential
    /\ score = Completed

ToComplete ==
  pc = "complete" =>
    \A p \in 1..i : cur_doc \in Docs(order[p]) => docid[order[p]] <= cur_doc

ToInsert ==
  pc = "insert" =>
    \/ score = FullScore(cur_doc)
    \/ ~would_enter(topk, score) /\ ~would_enter(topk, FullScore(cur_doc))

MaxscoreAhead ==
  IsMaxscore => Skips /\ AtLoop /\ Completing /\ ToComplete /\ ToInsert

\* The bounds of the lists of maxscore_dyn_query, now and before the loop.
Now == [k \in 1..count |-> current_max_weight(k, upper_bound_cursor[k])]

AtStart == [k \in 1..count |-> current_max_weight(k, 0)]

PlacesRight ==
  /\ upper_bound_cursor \in [1..count -> Nat]
  /\ \A k \in 1..count :
       docid[k] # num_docs => upper_bound_cursor[k] = Before(k, docid[k])

FromStart ==
  \E o : /\ IsOrder(o)
         /\ \A p \in 1..count : upper_bounds[p] = Total(Over(AtStart, o), 1..p)

Bounded ==
  \A d \in Candidates, p \in 1..count :
    d >= cur_doc =>
      FullScore(d) <= Total(Weight(d), Rest(p, d)) + upper_bounds[p]

\* The cursors of the vectors follow those of the lists, and the bounds from
\* before the loop, made for another order, do for the present one.
DynAhead ==
  query = "maxscore_dyn" => VectorsBound /\ PlacesRight /\ FromStart /\ Bounded

TopkInv ==
  BoundsHold /\ ~left_behind =>
    Holds /\ OrAhead /\ WandAhead /\ MaxscoreAhead /\ DynAhead

\* The documents that a query may return.
LEMMA CandidatesAre ==
  ASSUME InputOK
  PROVE  /\ num_docs \in Nat
         /\ Candidates \in SUBSET Document
         /\ \A d \in Candidates : d \in Nat /\ d < num_docs /\ Lists(d) # {}
         /\ \A E : E \subseteq Candidates => IsFiniteSet(E)
<1>1. count \in Nat \ {0} /\ num_docs \in Nat \ {0}
  BY SizesAre
<1>2. Candidates \in SUBSET Document
  BY DEF Candidates
<1>3. IsFiniteSet(Document)
  BY <1>1, FS_Interval DEF Document
<1>4. \A d \in Candidates : Lists(d) # {}
  <2>1. CASE query = "ranked_and"
    <3>1. 1 \in 1..count
      BY <1>1
    <3> QED
      BY <2>1, <3>1 DEF Candidates, Lists
  <2>2. CASE query # "ranked_and"
    BY <2>2 DEF Candidates, Lists
  <2> QED
    BY <2>1, <2>2
<1>5. \A E : E \subseteq Candidates => IsFiniteSet(E)
  <2>1. \A E : E \subseteq Candidates => E \in SUBSET Document
    BY <1>2
  <2> QED
    BY <1>3, <2>1, FS_Subset, Zenon
<1>6. \A d \in Candidates : d \in Nat /\ d < num_docs
  BY <1>1, <1>2 DEF Document
<1> QED
  BY <1>1, <1>2, <1>4, <1>5, <1>6

\* The queue is right when it holds the best of the documents passed.
LEMMA HoldsNext ==
  ASSUME InputOK, UNCHANGED input,
         Best(topk', {d \in Candidates : d < Frontier'})
  PROVE  Holds'
<1>1. /\ \A d : FullScore(d)' = FullScore(d)
      /\ Candidates' = Candidates
      /\ K' = K
  BY ScoresStay, InputStays
<1>2. Past' = {d \in Candidates : d < Frontier'}
  BY <1>1 DEF Past
<1>3. \A t : Reaching(Past, t)' = Reaching({d \in Candidates : d < Frontier'}, t)
  BY <1>1, <1>2 DEF Reaching
<1>4. \A t : AtLeast(topk, t)' = AtLeast(topk', t)
  BY DEF AtLeast
<1>6. \A t \in Nat : AtLeast(topk, t)' = Smaller(K, Reaching(Past, t))'
  <2> TAKE t \in Nat
  <2>1. AtLeast(topk', t) = Smaller(K, Reaching({d \in Candidates : d < Frontier'}, t))
    BY DEF Best
  <2>2. Smaller(K, Reaching(Past, t))' = Smaller(K', Reaching(Past, t)')
    BY DEF Smaller
  <2> QED
    BY <1>1, <1>3, <1>4, <2>1, <2>2
<1>7. Descending(topk)'
  BY DEF Best, Descending
<1> QED
  BY <1>6, <1>7 DEF Holds, Best

\* A document is passed: it is scored, or cannot enter.
LEMMA PassedOne ==
  ASSUME Typed, UNCHANGED input, Holds, NEW c \in Candidates, Frontier = c,
         NEW s \in Nat, topk' = insert(topk, s),
         s = FullScore(c) \/ (~would_enter(topk, s)
                              /\ ~would_enter(topk, FullScore(c))),
         Frontier' \in Nat, c < Frontier',
         \A d \in Candidates :
           c < d /\ d < Frontier' => ~would_enter(topk, FullScore(d))
  PROVE  /\ Holds'
         /\ \A t \in Nat : ~would_enter(topk, t) => ~would_enter(topk', t)
<1> DEFINE D == {d \in Candidates : d < c}
           E == {d \in Candidates : d < Frontier'}
<1>1. InputOK /\ topk \in Seq(Nat) /\ Len(topk) <= K
  BY DEF Typed
<1>2. \A d \in Candidates : d \in Nat
  BY <1>1, CandidatesAre
<1>3. IsFiniteSet(E)
  BY <1>1, CandidatesAre
<1>4. D \cup {c} \subseteq E /\ c \notin D
  BY <1>2
<1>5. \A e \in E : e \notin D \cup {c} => ~would_enter(topk, FullScore(e))
  BY <1>2
<1>6. Best(topk, D)
  BY DEF Holds, Past
<1> HIDE DEF D, E
<1>7. /\ Best(insert(topk, s), E)
      /\ \A t \in Nat : ~would_enter(topk, t) => ~would_enter(insert(topk, s), t)
  BY <1>1, <1>3, <1>4, <1>5, <1>6, TopTakes
<1>8. Holds'
  BY <1>1, <1>7, HoldsNext DEF E
<1> QED
  BY <1>7, <1>8

\* Documents that cannot enter are passed.
LEMMA PassedSome ==
  ASSUME Typed, UNCHANGED <<input, topk>>, Holds,
         Frontier \in Nat, Frontier' \in Nat, Frontier <= Frontier',
         \A d \in Candidates :
           Frontier <= d /\ d < Frontier' => ~would_enter(topk, FullScore(d))
  PROVE  Holds'
<1> DEFINE D == {d \in Candidates : d < Frontier}
           E == {d \in Candidates : d < Frontier'}
<1>1. InputOK /\ topk \in Seq(Nat) /\ Len(topk) <= K
  BY DEF Typed
<1>2. \A d \in Candidates : d \in Nat
  BY <1>1, CandidatesAre
<1>3. IsFiniteSet(E)
  BY <1>1, CandidatesAre
<1>4. D \subseteq E /\ \A e \in E : e \notin D => ~would_enter(topk, FullScore(e))
  BY <1>2
<1>5. Best(topk, D)
  BY DEF Holds, Past
<1> HIDE DEF D, E
<1>6. Best(topk, E)
  BY <1>1, <1>3, <1>4, <1>5, TopLeaves
<1> QED
  BY <1>1, <1>6, HoldsNext DEF E

\* The sets that an ordered step leaves to the right of a document.
LEMMA AheadAfter ==
  ASSUME InputOK, CursorsOK, UNCHANGED input, NEW ks, MoveOff(ks),
         NEW c \in Nat, c < num_docs, Ahead(c),
         \A k \in ks : k \in 1..count => docid[k] = c
  PROVE  /\ CursorsOK'
         /\ \A k \in 1..count : \A e \in Docs(k) : e > c => docid'[k] <= e
         /\ \A k \in 1..count : c <= docid[k] /\ (docid[k] = c => k \in ks)
                                  => c < docid'[k]
<1>1. /\ CursorsOK'
      /\ \A k \in 1..count :
           /\ k \notin ks => docid'[k] = docid[k]
           /\ k \in ks /\ docid[k] < num_docs =>
                /\ docid[k] < docid'[k]
                /\ \A e \in Docs(k) : e > docid[k] => docid'[k] <= e
  BY MoveOffIs
<1>2. /\ num_docs \in Nat
      /\ \A k \in 1..count : docid[k] \in Nat /\ \A e \in Docs(k) : e \in Nat
  BY SizesAre, ListsAre DEF CursorsOK, Document
<1>3. ASSUME NEW k \in 1..count, NEW e \in Docs(k), e > c
      PROVE  docid'[k] <= e
  <2>1. k \in ks => docid'[k] <= e
    BY <1>1, <1>3
  <2>2. k \notin ks => docid'[k] <= e
    BY <1>1, <1>2, <1>3 DEF Ahead
  <2> QED
    BY <2>1, <2>2
<1>4. ASSUME NEW k \in 1..count, c <= docid[k], docid[k] = c => k \in ks
      PROVE  c < docid'[k]
  <2>1. k \in ks => c < docid'[k]
    BY <1>1, <1>4
  <2>2. k \notin ks => c < docid'[k]
    BY <1>1, <1>2, <1>4
  <2> QED
    BY <2>1, <2>2
<1> QED
  BY <1>1, <1>3, <1>4

\* ranked_or_query: the next document is the least of those the cursors are on.
LEMMA TopkOr ==
  ASSUME Typed, Holds, OrAhead, OrDocument
  PROVE  Holds' /\ OrAhead'
<1> DEFINE on == {k \in 1..count : docid[k] = cur_doc}
<1>1. /\ query = "ranked_or" /\ pc = "loop" /\ cur_doc < num_docs
      /\ topk' = insert(topk, ScoreOf(cur_doc, on))
      /\ MoveOff(on)
      /\ cur_doc' = Least({docid'[k] : k \in 1..count})
      /\ UNCHANGED <<input, pc>>
  BY DEF OrDocument, Iterate
<1>2. InputOK /\ CursorsOK /\ cur_doc \in Nat /\ count \in Nat /\ count # 0
      /\ num_docs \in Nat
  BY SizesAre DEF Typed
<1>3. /\ InputOK' /\ UNCHANGED <<query, K, count>>
      /\ \A k : Docs(k)' = Docs(k)
  BY <1>1, <1>2, InputStays
<1>4. Ahead(cur_doc) /\ \A k \in 1..count : cur_doc <= docid[k]
  BY <1>1 DEF OrAhead
<1>5. /\ CursorsOK'
      /\ \A k \in 1..count : \A e \in Docs(k) : e > cur_doc => docid'[k] <= e
      /\ \A k \in 1..count : cur_doc < docid'[k]
  BY <1>1, <1>2, <1>4, AheadAfter
<1>6. /\ cur_doc' \in 0..num_docs
      /\ cur_doc' = num_docs \/ \E k \in 1..count : docid'[k] = cur_doc'
      /\ \A k \in 1..count : cur_doc' <= docid'[k]
  <2>1. docid' \in [1..count -> 0..num_docs]
    BY <1>3, <1>5 DEF CursorsOK
  <2> QED
    BY <1>1, <1>2, <2>1, LeastCursor
<1>7. cur_doc < cur_doc'
  BY <1>1, <1>5, <1>6
<1>8. OrAhead'
  <2>1. \A k \in 1..count : \A e \in Docs(k) : e \in Nat
    BY <1>2, ListsAre DEF Document
  <2>2. \A k \in 1..count : \A e \in Docs(k) : e >= cur_doc' => docid'[k] <= e
    BY <1>2, <1>5, <1>6, <1>7, <2>1
  <2> QED
    BY <1>3, <1>6, <2>2 DEF OrAhead, Ahead
<1>9. Frontier = cur_doc /\ Frontier' = cur_doc'
  BY <1>1, <1>3 DEF Frontier
<1>10. cur_doc \in Candidates
  <2>1. \E k \in 1..count : docid[k] = cur_doc
    BY <1>1 DEF OrAhead
  <2> QED
    BY <1>1, <1>2, <2>1, OnDocument, ListsAre DEF Candidates
<1>11. Holds'
  <2>2. on = Lists(cur_doc)
    <3>1. on \subseteq Lists(cur_doc)
      BY <1>1, <1>2, OnDocument DEF Lists
    <3>2. \A k \in Lists(cur_doc) : docid[k] = cur_doc
      BY <1>2, <1>4 DEF Lists, Ahead, CursorsOK
    <3> QED
      BY <3>1, <3>2 DEF Lists
  <2>3. topk' = insert(topk, FullScore(cur_doc)) /\ FullScore(cur_doc) \in Nat
    BY <1>1, <1>2, <2>2, FullScoreIs
  <2>4. \A d \in Candidates : ~(cur_doc < d /\ d < cur_doc')
    <3>1. \A d \in Candidates : d \in Nat /\ \E k \in 1..count : d \in Docs(k)
      BY <1>1, <1>2, CandidatesAre DEF Candidates
    <3>2. \A k \in 1..count : docid'[k] \in Nat
      BY <1>3, <1>5 DEF CursorsOK
    <3> QED
      BY <1>2, <1>5, <1>6, <3>1, <3>2
  <2>5. cur_doc' \in Nat
    BY <1>6
  <2> QED
    BY <1>1, <1>7, <1>9, <1>10, <2>3, <2>4, <2>5, PassedOne
<1> QED
  BY <1>8, <1>11

\* ranked_and_query goes from candidate to candidate: a document that it leaves
\* out is not in the list it has looked at.
LEMMA TopkAndProbe ==
  ASSUME Typed, Holds, AndProbe
  PROVE  Holds'
<1> DEFINE k == order[i]
           d == FirstFrom(Docs(k), cur_doc)
<1>1. /\ query = "ranked_and" /\ pc = "loop" /\ i <= count
      /\ cur_doc' = d
      /\ UNCHANGED <<input, topk, pc>>
  BY DEF AndProbe, Iterate
<1>2. InputOK /\ cur_doc \in 0..num_docs /\ k \in 1..count /\ num_docs \in Nat
  <2>1. i \in 1..count
    BY <1>1, SizesAre DEF Typed
  <2> QED
    BY <2>1, SizesAre DEF Typed, IsOrder
<1>3. UNCHANGED query
  BY <1>1, <1>2, InputStays
<1>4. /\ d \in 0..num_docs /\ cur_doc <= d
      /\ \A e \in Docs(k) : e >= cur_doc => d <= e
  BY <1>2, NextGeqIs
<1>5. Frontier = cur_doc /\ Frontier' = d
  BY <1>1, <1>3 DEF Frontier
<1>6. \A e \in Candidates : e \in Nat /\ e \in Docs(k)
  BY <1>1, <1>2, CandidatesAre DEF Candidates
<1> HIDE DEF d, k
<1>7. \A e \in Candidates : ~(cur_doc <= e /\ e < d)
  BY <1>2, <1>4, <1>6
<1>8. cur_doc \in Nat /\ d \in Nat
  BY <1>2, <1>4
<1> QED
  BY <1>1, <1>4, <1>5, <1>7, <1>8, PassedSome

\* ranked_and_query: a document between two candidates is not in the first list.
LEMMA TopkAndMatch ==
  ASSUME Typed, Holds, AndMatch
  PROVE  Holds'
<1> DEFINE k == order[1]
<1>1. /\ query = "ranked_and" /\ pc = "loop" /\ cur_doc < num_docs
      /\ i = count + 1
      /\ topk' = insert(topk, ScoreOf(cur_doc, 1..count))
      /\ MoveOff({k})
      /\ cur_doc' = docid'[k]
      /\ UNCHANGED <<input, pc>>
  BY DEF AndMatch, Iterate
<1>2. /\ InputOK /\ CursorsOK /\ IsOrder(order) /\ cur_doc \in 0..num_docs
      /\ count \in Nat \ {0} /\ num_docs \in Nat
      /\ \A j \in 1..count : j < i => docid[order[j]] = cur_doc
  BY <1>1, SizesAre DEF Typed
<1>3. \A j \in 1..count : docid[j] = cur_doc /\ cur_doc \in Docs(j)
  <2>1. \A j \in 1..count : docid[order[j]] = cur_doc
    BY <1>1, <1>2
  <2>2. \A j \in 1..count : \E p \in 1..count : order[p] = j
    BY <1>2, OrderIsOnto
  <2>3. \A j \in 1..count : docid[j] = cur_doc
    BY <2>1, <2>2
  <2> QED
    BY <1>1, <1>2, <2>3, OnDocument
<1>4. k \in 1..count
  BY <1>2 DEF IsOrder
<1>5. UNCHANGED query
  BY <1>1, <1>2, InputStays
<1>6. cur_doc \in Candidates
  <2>1. cur_doc \in Document
    BY <1>1, <1>2 DEF Document
  <2> QED
    BY <1>1, <1>3, <2>1 DEF Candidates
<1>7. topk' = insert(topk, FullScore(cur_doc)) /\ FullScore(cur_doc) \in Nat
  <2>1. Lists(cur_doc) = 1..count
    BY <1>3 DEF Lists
  <2> QED
    BY <1>1, <1>2, <2>1, FullScoreIs
<1>8. /\ cur_doc' \in Nat /\ cur_doc < cur_doc'
      /\ \A e \in Docs(k) : e > cur_doc => cur_doc' <= e
  <2>1. /\ docid' \in [1..count -> 0..num_docs]
        /\ docid[k] < docid'[k]
        /\ \A e \in Docs(k) : e > docid[k] => docid'[k] <= e
    <3>1. /\ CursorsOK'
          /\ docid[k] < num_docs =>
                /\ docid[k] < docid'[k]
                /\ \A e \in Docs(k) : e > docid[k] => docid'[k] <= e
      BY <1>1, <1>2, <1>4, MoveOffIs
    <3>2. UNCHANGED count
      BY <1>1, <1>2, InputStays
    <3> QED
      BY <1>1, <1>3, <1>4, <3>1, <3>2 DEF CursorsOK
  <2> QED
    BY <1>1, <1>3, <1>4, <2>1
<1>9. Frontier = cur_doc /\ Frontier' = cur_doc'
  BY <1>1, <1>5 DEF Frontier
<1>10. \A e \in Candidates : ~(cur_doc < e /\ e < cur_doc')
  <2>1. \A e \in Candidates : e \in Nat /\ e \in Docs(k)
    BY <1>1, <1>2, <1>4, CandidatesAre DEF Candidates
  <2> HIDE DEF k
  <2> QED
    BY <1>2, <1>8, <2>1
<1> QED
  BY <1>1, <1>6, <1>7, <1>8, <1>9, <1>10, PassedOne

\* What a score cannot do a smaller one cannot.
LEMMA CannotEnterLess ==
  ASSUME InputOK, NEW q \in Seq(Nat), Len(q) <= K, NEW t \in Nat,
         ~would_enter(q, t), NEW s \in Nat, s <= t
  PROVE  ~would_enter(q, s)
<1>1. K \in Nat \ {0}
  BY SizesAre
<1>2. Len(q) = K /\ t <= q[K]
  BY <1>1, CannotEnter
<1>3. q[K] \in Nat
  BY <1>1, <1>2
<1>4. s <= q[K]
  BY <1>2, <1>3
<1> QED
  BY <1>1, <1>2, <1>4, CannotEnter

\* A part of the lists of a document scores no more than the document.
LEMMA PartScore ==
  ASSUME InputOK, NEW d, NEW ks \in SUBSET Lists(d)
  PROVE  ScoreOf(d, ks) \in Nat /\ ScoreOf(d, ks) <= FullScore(d)
<1>1. Lists(d) = {k \in 1..count : d \in Docs(k)}
  BY DEF Lists
<1>2. /\ ScoreOf(d, ks) = Total(Weight(d), ks)
      /\ ScoreOf(d, Lists(d)) = Total(Weight(d), Lists(d))
      /\ IsFiniteSet(Lists(d)) /\ \A k \in Lists(d) : Weight(d)[k] \in Nat
  BY <1>1, ScoreIs
<1>3. Total(Weight(d), ks) <= Total(Weight(d), Lists(d))
  BY <1>2, TotalGrows
<1>4. ScoreOf(d, ks) \in Nat
  BY <1>1, ScoreIsNat
<1> QED
  BY <1>2, <1>3, <1>4, FullScoreIs

\* The first list of wand_query's order is on the least of the documents.
FirstIsLeast ==
  /\ count \in Nat \ {0} /\ num_docs \in Nat /\ docid[order[1]] \in 0..num_docs
  /\ \A k \in 1..count : docid[k] \in 0..num_docs /\ docid[order[1]] <= docid[k]

\* The first list of wand_query is on the least document.
LEMMA WandFirst == Typed /\ InOrder /\ query = "wand" => FirstIsLeast
<1> SUFFICES ASSUME Typed, InOrder, query = "wand"
             PROVE  FirstIsLeast
  OBVIOUS
<1>1. /\ InputOK /\ CursorsOK /\ IsOrder(order) /\ count \in Nat \ {0}
      /\ num_docs \in Nat
  BY SizesAre DEF Typed
<1>2. 1 \in 1..count
  BY <1>1
<1>3. ASSUME NEW k \in 1..count
      PROVE  docid[order[1]] <= docid[k]
  <2>1. PICK q \in 1..count : order[q] = k
    BY <1>1, OrderIsOnto
  <2>2. q \in 1..count /\ 1 \in 1..count /\ q \in 1..count
    BY <1>2
  <2> QED
    BY <1>1, <2>1, <2>2, InOrderThroughout
<1>4. \A k \in 1..count : docid[k] \in 0..num_docs
  BY <1>1 DEF CursorsOK
<1>5. order[1] \in 1..count
  BY <1>1, <1>2 DEF IsOrder
<1> QED
  BY <1>1, <1>3, <1>4, <1>5 DEF FirstIsLeast

\* What wand_query scores: the lists on the first document, which are in front.
LEMMA WandMatches ==
  ASSUME Typed, InOrder, WandMatch
  PROVE  LET c == docid[order[1]]
             on == {k \in 1..count : docid[k] = c}
         IN  /\ c < num_docs
             /\ on \in SUBSET Lists(c) /\ order[1] \in on
             /\ topk' = insert(topk, ScoreOf(c, on))
             /\ MoveOff(on)
<1> DEFINE c == docid[order[1]]
           on == {k \in 1..count : docid[k] = c}
           front == {order[q] : q \in {p \in 1..count :
                       \A r \in 1..p : docid[order[r]] = c}}
<1>1. /\ query = "wand"
      /\ \E p \in 1..count : IsPivot(p) /\ docid[order[p]] = docid[order[1]]
      /\ topk' = insert(topk, ScoreOf(c, front))
      /\ MoveOff(front)
  BY DEF WandMatch
<1>2. /\ InputOK /\ CursorsOK /\ IsOrder(order) /\ count \in Nat \ {0}
      /\ num_docs \in Nat /\ order[1] \in 1..count
  BY SizesAre DEF Typed, IsOrder
<1>3. FirstIsLeast
  BY <1>1, WandFirst
<1>4. c < num_docs
  <2>1. PICK p \in 1..count : IsPivot(p)
    BY <1>1
  <2>2. 1 \in 1..p
    BY <1>2
  <2> QED
    BY <1>3, <2>1, <2>2 DEF IsPivot, FirstIsLeast
<1>5. front = on
  <2>1. \A k \in front : k \in 1..count /\ docid[k] = c
    <3>1. \A p \in 1..count : p \in 1..p
      OBVIOUS
    <3> QED
      BY <1>2, <3>1 DEF IsOrder
  <2>2. ASSUME NEW k \in on
        PROVE  k \in front
    <3>1. PICK q \in 1..count : order[q] = k
      BY <1>2, OrderIsOnto
    <3>2. ASSUME NEW r \in 1..q
          PROVE  docid[order[r]] = c
      <4>1. r \in 1..count /\ q \in r..count
        BY <1>2
      <4>2. docid[order[r]] <= c
        BY <1>1, <1>2, <3>1, <4>1, InOrderThroughout
      <4>3. order[r] \in 1..count
        BY <1>2, <4>1 DEF IsOrder
      <4>4. c <= docid[order[r]] /\ docid[order[r]] \in Nat /\ c \in Nat
        BY <1>3, <4>3 DEF FirstIsLeast
      <4> QED
        BY <4>2, <4>4
    <3> QED
      BY <3>1, <3>2
  <2> QED
    BY <2>1, <2>2
<1>6. on \in SUBSET Lists(c)
  BY <1>2, <1>4, OnDocument DEF Lists
<1> QED
  BY <1>1, <1>2, <1>4, <1>5, <1>6

\* wand_query scores the document of its pivot, and passes no other.
LEMMA TopkWandMatch ==
  ASSUME Typed, InOrder, Holds, WandAhead, WandMatch
  PROVE  Holds' /\ WandAhead'
<1> DEFINE c == docid[order[1]]
           f == docid'[order'[1]]
           on == {k \in 1..count : docid[k] = c}
           s == ScoreOf(c, on)
<1>1. query = "wand" /\ pc = "loop" /\ UNCHANGED <<input, pc>>
  BY DEF WandMatch
<1>2. /\ c < num_docs
      /\ on \in SUBSET Lists(c) /\ order[1] \in on
      /\ topk' = insert(topk, s)
      /\ MoveOff(on)
  BY WandMatches
<1>3. InputOK /\ CursorsOK /\ topk \in Seq(Nat) /\ Len(topk) <= K
  BY DEF Typed
<1>4. UNCHANGED <<query, K, count, num_docs>> /\ \A k : Docs(k)' = Docs(k)
  BY <1>1, <1>3, InputStays
<1>5. FirstIsLeast
  BY <1>1, WandFirst
<1>6. FirstIsLeast'
  <2>1. (Typed /\ InOrder /\ query = "wand" => FirstIsLeast)'
    BY WandFirst, PTL
  <2> QED
    BY <1>1, <1>4, <2>1, TypedWandMatch, InOrderWandMatch
<1>7. /\ c \in Nat /\ f \in Nat
      /\ \A k \in 1..count : /\ docid[k] \in Nat /\ docid'[k] \in Nat
                             /\ c <= docid[k] /\ f <= docid'[k]
  BY <1>4, <1>5, <1>6 DEF FirstIsLeast
<1>8. \A k \in 1..count :
        /\ k \notin on => docid'[k] = docid[k]
        /\ k \in on => /\ c < docid'[k]
                       /\ \A e \in Docs(k) : e > c => docid'[k] <= e
  BY <1>1, <1>2, <1>3, MoveOffIs
<1>9. \A k \in 1..count : c < docid'[k]
  BY <1>7, <1>8
<1>10. order'[1] \in 1..count
  <2>1. Typed' /\ count \in Nat \ {0}
    BY <1>3, SizesAre, TypedWandMatch
  <2>2. IsOrder(order)'
    BY <2>1 DEF Typed
  <2> QED
    BY <1>4, <2>1, <2>2 DEF IsOrder
<1>11. c < f
  BY <1>9, <1>10
<1>12. c \in Candidates
  BY <1>1, <1>2, <1>3, ListsAre DEF Candidates, Lists
<1>13. FullScore(c) \in Nat /\ \A d : FullScore(d) \in Nat
  BY <1>3, FullScoreIs
<1>14. s \in Nat /\ s <= FullScore(c)
  BY <1>2, <1>3, PartScore
<1>15. s = FullScore(c) \/ (~would_enter(topk, s) /\ ~would_enter(topk, FullScore(c)))
  <2>1. CASE Unread(c)
    <3>1. \A k \in Lists(c) : k \in on
      BY <1>7, <2>1 DEF Unread, Lists
    <3>2. on = Lists(c)
      BY <1>2, <3>1
    <3> QED
      BY <1>3, <3>2, FullScoreIs
  <2>2. CASE ~Unread(c)
    <3>1. ~would_enter(topk, FullScore(c))
      BY <1>1, <1>7, <1>12, <2>2 DEF WandAhead
    <3> HIDE DEF s, c
    <3> QED
      BY <1>3, <1>13, <1>14, <3>1, CannotEnterLess
  <2> QED
    BY <2>1, <2>2
<1>16. \A d \in Candidates : d \in Nat /\ Lists(d) # {}
  BY <1>3, CandidatesAre
<1>17. ASSUME NEW d \in Candidates, c < d, Unread(d), NEW k \in Lists(d)
       PROVE  docid'[k] <= d
  <2>1. k \in 1..count /\ d \in Docs(k) /\ docid[k] <= d
    BY <1>17 DEF Lists, Unread
  <2> HIDE DEF on, c
  <2> QED
    BY <1>7, <1>8, <1>16, <1>17, <2>1
<1>18. ASSUME NEW d \in Candidates, c < d, d < f
       PROVE  ~would_enter(topk, FullScore(d))
  <2>1. PICK k \in Lists(d) : TRUE
    BY <1>16
  <2>2. k \in 1..count
    BY DEF Lists
  <2>3. ~Unread(d)
    <3>1. f <= docid'[k] /\ docid'[k] \in Nat /\ d \in Nat
      BY <1>7, <1>16, <2>2
    <3>2. Unread(d) => docid'[k] <= d
      BY <1>17, <1>18
    <3> HIDE DEF f
    <3> QED
      BY <1>7, <1>18, <3>1, <3>2
  <2>4. d >= c
    BY <1>7, <1>16, <1>18
  <2> QED
    BY <1>1, <2>3, <2>4 DEF WandAhead
<1>19. Frontier = c /\ Frontier' = f
  BY <1>1, <1>4 DEF Frontier
<1> HIDE DEF c, f, s, on
<1>20. /\ Holds'
       /\ \A t \in Nat : ~would_enter(topk, t) => ~would_enter(topk', t)
  BY <1>1, <1>2, <1>7, <1>11, <1>12, <1>14, <1>15, <1>18, <1>19, PassedOne
<1>21. ASSUME NEW d \in Candidates, d >= f
       PROVE  Unread(d)' \/ ~would_enter(topk', FullScore(d))
  <2>1. d \in Nat /\ c < d /\ d >= c
    BY <1>7, <1>11, <1>16, <1>21
  <2>2. Unread(d) \/ ~would_enter(topk, FullScore(d))
    BY <1>1, <2>1 DEF WandAhead, c
  <2>3. Unread(d) => Unread(d)'
    BY <1>1, <1>3, <1>17, <2>1, ScoresStay DEF Unread
  <2> QED
    BY <1>13, <1>20, <2>2, <2>3
<1>22. WandAhead'
  <2>1. Candidates' = Candidates /\ \A d : FullScore(d)' = FullScore(d)
    BY <1>1, <1>3, ScoresStay
  <2>2. \A d : would_enter(topk, FullScore(d))' = would_enter(topk', FullScore(d))
    BY <1>4, <2>1 DEF would_enter
  <2> QED
    BY <1>21, <2>1, <2>2 DEF WandAhead, f
<1> QED
  BY <1>20, <1>22

\* A document whose lists are all among the first ones cannot enter if their
\* bounds cannot.
LEMMA BoundSkips ==
  ASSUME InputOK, IsOrder(order), BoundsHold, query \in {"wand", "maxscore"},
         NEW d, NEW p \in 0..count,
         \A k \in Lists(d) : \E q \in 1..p : order[q] = k
  PROVE  /\ FullScore(d) \in Nat /\ UpperBound(p) \in Nat
         /\ FullScore(d) <= UpperBound(p)
<1>1. UpperBound(p) = Total(Bound, 1..p)
  BY UpperBoundIs DEF IsOrder
<1>2. /\ \A j \in 1..count : Bound[j] \in Nat
      /\ \A j \in 1..count : order[j] \in Lists(d)
                              => Weight(d)[order[j]] <= Bound[j]
  BY BoundsAre
<1>3. FullScore(d) <= Total(Bound, 1..p)
  BY <1>2, SplitSkips
<1> QED
  BY <1>1, <1>3, BoundSplit

\* A list is only moved past documents that are in no list after it.
LEMMA TopkWandAdvance ==
  ASSUME Typed, InOrder, BoundsHold, Holds, WandAhead, WandAdvance
  PROVE  Holds' /\ WandAhead'
<1> DEFINE c == docid[order[1]]
           f == docid'[order'[1]]
<1>1. query = "wand" /\ pc = "loop" /\ UNCHANGED <<input, topk, pc>>
  BY DEF WandAdvance
<1>2. PICK p \in 1..count, from \in 1..count :
           /\ from <= p /\ CanAdvance(p, from)
           /\ docid[order[p]] # docid[order[1]]
           /\ LET d == FirstFrom(Docs(order[from]), docid[order[p]])
              IN /\ docid' = [docid EXCEPT ![order[from]] = d]
                 /\ docid'[order[from]] = d
                 /\ d \in 0..num_docs
                 /\ docid[order[p]] <= d
                 /\ \A e \in Docs(order[from]) : e >= docid[order[p]] => d <= e
                 /\ order' = BubbleDown(from, d)
  BY WandAdvances
<1> DEFINE dp == docid[order[p]]
           l == order[from]
<1>3. /\ InputOK /\ CursorsOK /\ topk \in Seq(Nat) /\ Len(topk) <= K
      /\ IsOrder(order) /\ count \in Nat \ {0}
  BY SizesAre DEF Typed
<1>4. UNCHANGED <<query, K, count, num_docs>> /\ \A k : Docs(k)' = Docs(k)
  BY <1>1, <1>3, InputStays
<1>5. FirstIsLeast
  BY <1>1, WandFirst
<1>6. FirstIsLeast'
  <2>1. (Typed /\ InOrder /\ query = "wand" => FirstIsLeast)'
    BY WandFirst, PTL
  <2> QED
    BY <1>1, <1>4, <2>1, TypedWandAdvance, InOrderWandAdvance
<1>7. /\ c \in Nat /\ f \in Nat
      /\ \A k \in 1..count : /\ docid[k] \in Nat /\ docid'[k] \in Nat
                             /\ c <= docid[k] /\ f <= docid'[k]
  BY <1>4, <1>5, <1>6 DEF FirstIsLeast
<1>8. order[p] \in 1..count /\ l \in 1..count
  BY <1>3 DEF IsOrder
<1>9. dp \in Nat /\ c <= dp
  BY <1>7, <1>8
<1>10. /\ \A k \in 1..count : k # l => docid'[k] = docid[k]
       /\ dp <= docid'[l]
       /\ \A e \in Docs(l) : e >= dp => docid'[l] <= e
  BY <1>2, <1>3 DEF CursorsOK
<1>11. order'[1] \in 1..count
  <2>1. Typed' /\ count \in Nat \ {0}
    BY <1>3, SizesAre, TypedWandAdvance
  <2>2. IsOrder(order)'
    BY <2>1 DEF Typed
  <2> QED
    BY <1>4, <2>1, <2>2 DEF IsOrder
<1>12. c <= f
  <2>1. \A k \in 1..count : c <= docid'[k]
    <3> HIDE DEF c, dp, l
    <3> QED
      BY <1>7, <1>8, <1>9, <1>10
  <2> QED
    BY <1>11, <2>1
<1>13. from < p /\ \A q \in (from + 1)..p : docid[order[q]] = dp
  BY <1>2, <1>3 DEF CanAdvance
<1>14. \A q \in (from + 1)..count : dp <= docid[order[q]]
  <2>1. ASSUME NEW q \in (from + 1)..count
        PROVE  dp <= docid[order[q]]
    <3>1. from + 1 \in 1..count /\ q \in (from + 1)..count /\ from + 1 \in (from + 1)..p
      BY <1>3, <1>13
    <3>2. docid[order[from + 1]] = dp
      BY <1>13, <3>1
    <3>3. docid[order[from + 1]] <= docid[order[q]]
      BY <1>1, <1>3, <3>1, InOrderThroughout
    <3> QED
      BY <3>2, <3>3
  <2> QED
    BY <2>1
<1>15. ~would_enter(topk, UpperBound(from))
  <2>1. from \in 1..(p - 1)
    BY <1>3, <1>13
  <2> QED
    BY <1>2, <2>1 DEF CanAdvance, IsPivot
<1>16. \A d \in Candidates : d \in Nat /\ Lists(d) # {}
  BY <1>3, CandidatesAre
<1>17. ASSUME NEW d \in Candidates, Unread(d), d < dp
       PROVE  ~would_enter(topk, FullScore(d))
  <2>1. ASSUME NEW k \in Lists(d)
        PROVE  \E q \in 1..from : order[q] = k
    <3>1. k \in 1..count /\ docid[k] <= d
      BY <1>17 DEF Lists, Unread
    <3>2. PICK q \in 1..count : order[q] = k
      BY <1>3, <3>1, OrderIsOnto
    <3>3. ~(dp <= docid[order[q]])
      <4>1. docid[k] \in Nat /\ d \in Nat
        BY <1>7, <1>16, <3>1
      <4> HIDE DEF dp
      <4> QED
        BY <1>9, <1>17, <3>1, <3>2, <4>1
    <3>4. q \in 1..from
      BY <1>3, <1>14, <3>3
    <3> QED
      BY <3>2, <3>4
  <2>2. from \in 0..count
    BY <1>3
  <2>3. /\ FullScore(d) \in Nat /\ UpperBound(from) \in Nat
        /\ FullScore(d) <= UpperBound(from)
    BY <1>1, <1>3, <2>1, <2>2, BoundSkips
  <2> QED
    BY <1>3, <1>15, <2>3, CannotEnterLess
<1>18. ASSUME NEW d \in Candidates, Unread(d), dp <= d, NEW k \in Lists(d)
       PROVE  docid'[k] <= d
  <2>1. k \in 1..count /\ d \in Docs(k) /\ docid[k] <= d
    BY <1>18 DEF Lists, Unread
  <2> HIDE DEF dp, l
  <2> QED
    BY <1>9, <1>10, <1>16, <1>18, <2>1
<1>19. ASSUME NEW d \in Candidates, c <= d
       PROVE  \/ ~would_enter(topk, FullScore(d))
              \/ \A k \in Lists(d) : docid'[k] <= d
  <2>1. Unread(d) \/ ~would_enter(topk, FullScore(d))
    <3>1. d >= c
      BY <1>7, <1>16, <1>19
    <3> QED
      BY <1>1, <3>1 DEF WandAhead
  <2>2. d < dp \/ dp <= d
    BY <1>9, <1>16
  <2> QED
    BY <1>17, <1>18, <2>1, <2>2
<1>20. ASSUME NEW d \in Candidates, c <= d, d < f
       PROVE  ~would_enter(topk, FullScore(d))
  <2>1. PICK k \in Lists(d) : TRUE
    BY <1>16
  <2>2. k \in 1..count /\ f <= docid'[k] /\ docid'[k] \in Nat /\ d \in Nat
    BY <1>7, <1>16 DEF Lists
  <2>3. ~(docid'[k] <= d)
    BY <1>7, <1>20, <2>2
  <2> QED
    BY <1>19, <1>20, <2>3
<1>21. Frontier = c /\ Frontier' = f
  BY <1>1, <1>4 DEF Frontier
<1> HIDE DEF c, f
<1>22. Holds'
  BY <1>1, <1>7, <1>12, <1>20, <1>21, PassedSome
<1>23. WandAhead'
  <2>1. /\ Candidates' = Candidates /\ \A d : FullScore(d)' = FullScore(d)
        /\ \A d : Lists(d)' = Lists(d)
    BY <1>1, <1>3, ScoresStay
  <2>2. \A d : would_enter(topk, FullScore(d))' = would_enter(topk, FullScore(d))
    BY <1>1, <1>4, <2>1 DEF would_enter
  <2>3. \A d \in Candidates : d >= f => c <= d
    BY <1>7, <1>12, <1>16
  <2> QED
    BY <1>19, <2>1, <2>2, <2>3 DEF WandAhead, Unread, f
<1> QED
  BY <1>22, <1>23

\* When no prefix of the lists has a bound that would enter, no document that
\* is left does.
LEMMA TopkWandFinish ==
  ASSUME Typed, InOrder, BoundsHold, Holds, WandAhead, WandFinish
  PROVE  Holds' /\ WandAhead'
<1> DEFINE c == docid[order[1]]
<1>1. /\ query = "wand" /\ pc = "loop" /\ pc' = "done"
      /\ ~\E p \in 1..count : IsPivot(p)
      /\ UNCHANGED <<input, topk>>
  BY DEF WandFinish
<1>2. /\ InputOK /\ CursorsOK /\ topk \in Seq(Nat) /\ Len(topk) <= K
      /\ IsOrder(order) /\ count \in Nat \ {0} /\ num_docs \in Nat
  BY SizesAre DEF Typed
<1>3. FirstIsLeast
  BY <1>1, WandFirst
<1>4. c \in Nat /\ c <= num_docs
  BY <1>3 DEF FirstIsLeast
<1>5. Frontier = c /\ Frontier' = num_docs
  BY <1>1 DEF Frontier
<1>6. \A d \in Candidates : d \in Nat /\ d < num_docs /\ Lists(d) # {}
  BY <1>2, CandidatesAre
<1>7. \A p \in 1..count : order[p] \in 1..count /\ docid[order[p]] \in 0..num_docs
  BY <1>2 DEF IsOrder, CursorsOK
<1>8. ASSUME NEW p \in 1..count, docid[order[p]] # num_docs
      PROVE  ~would_enter(topk, UpperBound(p))
  <2> DEFINE Enter == {q \in 1..p : would_enter(topk, UpperBound(q))}
  <2>1. ASSUME Enter # {}
        PROVE  FALSE
    <3>1. Enter \in SUBSET Nat
      BY <1>2
    <3> HIDE DEF Enter
    <3>2. PICK m \in Enter : \A e \in Enter : m <= e
      BY <2>1, <3>1, LeastElement
    <3>3. m \in 1..p /\ m \in 1..count /\ would_enter(topk, UpperBound(m))
      BY <1>2, <3>2 DEF Enter
    <3>4. \A q \in 1..(m - 1) : ~would_enter(topk, UpperBound(q))
      <4>1. \A q \in 1..(m - 1) : q \in 1..p /\ ~(m <= q)
        BY <1>2, <3>3
      <4> QED
        BY <3>2, <4>1 DEF Enter
    <3>5. \A q \in 1..m : docid[order[q]] # num_docs
      <4>1. ASSUME NEW q \in 1..m
            PROVE  docid[order[q]] # num_docs
        <5>1. q \in 1..count /\ p \in q..count
          BY <1>2, <3>3
        <5>2. docid[order[q]] <= docid[order[p]]
          BY <1>1, <1>2, <5>1, InOrderThroughout
        <5> QED
          BY <1>2, <1>7, <1>8, <5>1, <5>2
      <4> QED
        BY <4>1
    <3> QED
      BY <1>1, <3>3, <3>4, <3>5 DEF IsPivot
  <2>2. p \in 1..p
    BY <1>2
  <2> QED
    BY <2>1, <2>2
<1>9. ASSUME NEW d \in Candidates, c <= d
      PROVE  ~would_enter(topk, FullScore(d))
  <2>1. Unread(d) \/ ~would_enter(topk, FullScore(d))
    <3>1. d >= c
      BY <1>4, <1>6, <1>9
    <3> QED
      BY <1>1, <3>1 DEF WandAhead
  <2>2. CASE Unread(d)
    <3> DEFINE live == {p \in 1..count : docid[order[p]] # num_docs}
    <3>1. \A k \in Lists(d) : \E q \in live : order[q] = k
      <4>1. ASSUME NEW k \in Lists(d)
            PROVE  \E q \in live : order[q] = k
        <5>1. k \in 1..count /\ docid[k] <= d
          BY <2>2 DEF Lists, Unread
        <5>2. PICK q \in 1..count : order[q] = k
          BY <1>2, <5>1, OrderIsOnto
        <5>3. docid[order[q]] # num_docs
          BY <1>2, <1>6, <5>1, <5>2
        <5> QED
          BY <5>2, <5>3
      <4> QED
        BY <4>1
    <3>2. live # {} /\ live \in SUBSET (1..count)
      BY <1>6, <3>1
    <3>3. IsFiniteSet(live) /\ live \in SUBSET Nat
      <4> HIDE DEF live
      <4> QED
        <5>1. IsFiniteSet(1..count) /\ 1..count \in SUBSET Nat
          BY <1>2, FS_Interval
        <5>2. IsFiniteSet(live)
          BY <3>2, <5>1, FS_Subset, Zenon
        <5> QED
          BY <3>2, <5>1, <5>2
    <3> HIDE DEF live
    <3>4. PICK m \in live : \A e \in live : m >= e
      BY <3>2, <3>3, FiniteGreatest
    <3>5. m \in 1..count /\ m \in 0..count
      BY <1>2, <3>2
    <3>6. ~would_enter(topk, UpperBound(m))
      BY <1>8, <3>4 DEF live
    <3>7. \A k \in Lists(d) : \E q \in 1..m : order[q] = k
      <4>1. \A q \in live : q \in 1..m
        BY <1>2, <3>2, <3>4, <3>5
      <4> QED
        BY <3>1, <4>1
    <3>8. /\ FullScore(d) \in Nat /\ UpperBound(m) \in Nat
          /\ FullScore(d) <= UpperBound(m)
      BY <1>1, <1>2, <3>5, <3>7, BoundSkips
    <3> QED
      BY <1>2, <3>6, <3>8, CannotEnterLess
  <2> QED
    BY <2>1, <2>2
<1>10. Holds'
  <2> HIDE DEF c
  <2> QED
    BY <1>1, <1>2, <1>4, <1>5, <1>9, PassedSome
<1> QED
  BY <1>1, <1>10 DEF WandAhead

-----------------------------------------------------------------------------
(* maxscore_query and maxscore_dyn_query *)

\* What is summed up stays while the input and the order do.
LEMMA SumsStay ==
  ASSUME InputOK, UNCHANGED input
  PROVE  /\ \A d : Weight(d)' = Weight(d)
         /\ UNCHANGED order => \A p, d : Rest(p, d)' = Rest(p, d)
         /\ UNCHANGED order => \A c, j : cur_doc' = c /\ i' = j =>
              Completed' = Total(Weight(c), Rest(j, c))
<1>1. /\ UNCHANGED <<query, K, cursor, terms, q_weight, count>>
      /\ \A k : Docs(k)' = Docs(k) /\ freq(k)' = freq(k)
  BY InputStays
<1>2. \A d : Weight(d)' = Weight(d)
  <2>1. \A k, d : doc_term_weight(k, d)' = doc_term_weight(k, d)
    BY <1>1 DEF doc_term_weight, IsMaxscore
  <2> QED
    BY <1>1, <2>1 DEF Weight
<1>3. ASSUME UNCHANGED order
      PROVE  \A p, d : Rest(p, d)' = Rest(p, d)
  <2>1. \A d : Lists(d)' = Lists(d)
    BY <1>1 DEF Lists
  <2> QED
    BY <1>1, <1>3, <2>1 DEF Rest, RestOf
<1>4. ASSUME UNCHANGED order, NEW c, NEW j, cur_doc' = c, i' = j
      PROVE  Completed' = Total(Weight(c), Rest(j, c))
  <2>1. Weight(cur_doc)' = Weight(c)
    <3>1. \A k : doc_term_weight(k, cur_doc)' = doc_term_weight(k, c)
      BY <1>1, <1>4 DEF doc_term_weight, IsMaxscore
    <3> QED
      BY <1>1, <3>1 DEF Weight
  <2>2. Rest(i, cur_doc)' = Rest(j, c)
    <3>1. Lists(cur_doc)' = Lists(c)
      BY <1>1, <1>4 DEF Lists
    <3> QED
      BY <1>1, <1>4, <3>1 DEF Rest, RestOf
  <2>3. Completed' = Total(Weight(cur_doc)', Rest(i, cur_doc)')
    BY DEF Completed
  <2> QED
    BY <2>1, <2>2, <2>3
<1> QED
  BY <1>2, <1>3, <1>4

\* What has been left out stays so while the queue and the order do not change.
LEMMA SkipsStay ==
  ASSUME InputOK, UNCHANGED <<input, order, cur_doc, non_essential, topk>>, Skips
  PROVE  Skips'
<1>1. /\ K' = K /\ count' = count /\ Candidates' = Candidates
      /\ \A d : Lists(d)' = Lists(d) /\ FullScore(d)' = FullScore(d)
  BY InputStays, ScoresStay
<1>2. \A d : OnlyLeftOut(d)' <=> OnlyLeftOut(d)
  BY <1>1 DEF OnlyLeftOut, NoneAfter
<1>3. \A d : would_enter(topk, FullScore(d))' <=> would_enter(topk, FullScore(d))
  BY <1>1 DEF would_enter
<1> QED
  BY <1>1, <1>2, <1>3 DEF Skips

\* The lists of a document that is in none of the last ones.
AllWithin(o, n, d) == \A k \in Lists(d) : \E q \in 1..n : o[q] = k

\* A document in none of the later lists is in the first ones only.
LEMMA InFirst ==
  ASSUME count \in Nat, NEW o, IsOrder(o), NEW d, NEW n \in 0..count,
         NoneAfter(o, n, d)
  PROVE  AllWithin(o, n, d)
<1> SUFFICES ASSUME NEW k \in Lists(d)
             PROVE  \E q \in 1..n : o[q] = k
  BY DEF AllWithin
<1>1. PICK q \in 1..count : o[q] = k
  BY OrderIsOnto DEF Lists
<1>2. q \in 1..n
  BY <1>1 DEF NoneAfter
<1> QED
  BY <1>1, <1>2

-----------------------------------------------------------------------------
(* The bounds of maxscore_dyn_query. *)

\* A bound of a list never grows with the place of its cursor.
LEMMA VectorIs ==
  ASSUME count \in Nat, VectorsBound, NEW k \in 1..count, NEW place \in Nat
  PROVE  /\ current_max_weight(k, place) \in Nat
         /\ current_max_weight(k, 0) \in Nat
         /\ current_max_weight(k, place) <= current_max_weight(k, 0)
<1> DEFINE v == max_weights_vectors[k]
<1>1. k \in 1..Len(max_weights_vectors) /\ max_weights_vectors \in Seq(Seq(Nat))
  BY RankedAssumption DEF VectorsBound, RankedAssumption
<1>2. v \in Seq(Nat) /\ \A m, n \in 1..Len(v) : m <= n => v[n] <= v[m]
  BY <1>1, RankedAssumption DEF RankedAssumption
<1>3. current_max_weight(k, place) = IF place < Len(v) THEN v[place + 1] ELSE 0
  BY DEF current_max_weight
<1>4. current_max_weight(k, 0) = IF 0 < Len(v) THEN v[1] ELSE 0
  BY DEF current_max_weight
<1> HIDE DEF v
<1>5. \A n \in 1..Len(v) : v[n] \in Nat
  BY <1>2
<1>6. CASE place < Len(v)
  <2>1. 1 \in 1..Len(v) /\ place + 1 \in 1..Len(v) /\ 1 <= place + 1 /\ 0 < Len(v)
    BY <1>2, <1>6
  <2> QED
    BY <1>2, <1>3, <1>4, <1>5, <1>6, <2>1
<1>7. CASE ~(place < Len(v))
  <2>1. 0 < Len(v) => 1 \in 1..Len(v)
    BY <1>2
  <2> QED
    BY <1>3, <1>4, <1>5, <1>7, <2>1
<1> QED
  BY <1>6, <1>7

\* The bounds of the present are natural numbers, and below those of the start.
LEMMA NowIs ==
  ASSUME count \in Nat, VectorsBound, PlacesRight
  PROVE  \A k \in 1..count : /\ Now[k] \in Nat /\ AtStart[k] \in Nat
                             /\ Now[k] <= AtStart[k]
BY VectorIs DEF PlacesRight, Now, AtStart

\* What a list brings a document that its cursor has not passed.
LEMMA WeightNow ==
  ASSUME InputOK, CursorsOK, BoundsHold, query = "maxscore_dyn",
         VectorsBound, PlacesRight,
         NEW d, NEW k \in Lists(d), docid[k] <= d
  PROVE  Weight(d)[k] <= Now[k]
<1>1. k \in 1..count /\ d \in Docs(k)
  BY DEF Lists
<1>2. docid[k] \in Docs(k)
  <2>1. d \in Nat /\ d < num_docs /\ num_docs \in Nat
    BY <1>1, ListsAre, SizesAre DEF Document
  <2> QED
    BY <1>1, <2>1 DEF CursorsOK
<1>3. docid[k] # num_docs
  BY <1>1, <1>2, ListsAre, SizesAre DEF Document
<1>4. freq(k)[d] <= current_max_weight(k, Before(k, docid[k]))
  BY <1>1, <1>2 DEF VectorsBound
<1>5. Now[k] = current_max_weight(k, Before(k, docid[k]))
  BY <1>1, <1>3 DEF PlacesRight, Now
<1>6. Weight(d)[k] = freq(k)[d]
  <2>1. Weight(d)[k] = q_weight[k] * doc_term_weight(k, d)
    BY <1>1 DEF Weight
  <2>2. q_weight[k] = 1 /\ doc_term_weight(k, d) = freq(k)[d]
    BY <1>1 DEF BoundsHold, IsMaxscore, doc_term_weight
  <2>3. freq(k)[d] \in Nat
    BY <1>1, ListsAre
  <2> QED
    BY <2>1, <2>2, <2>3
<1> QED
  BY <1>4, <1>5, <1>6

\* The sums of get_current_max_weight over an order.
LEMMA BoundsOfIs ==
  ASSUME InputOK, VectorsBound, NEW o, IsOrder(o),
         NEW places \in [1..count -> Nat],
         NEW f, f = [k \in 1..count |-> current_max_weight(k, places[k])],
         NEW p \in 1..count
  PROVE  BoundsOf(o, places)[p] = Total(Over(f, o), 1..p)
<1> DEFINE b == Over(f, o)
           E(sum) == sum = [s \in SUBSET (1..p) |->
             IF s = {} THEN 0
             ELSE current_max_weight(o[CHOOSE x \in s : TRUE],
                                     places[o[CHOOSE x \in s : TRUE]])
                  + sum[s \ {CHOOSE x \in s : TRUE}]]
<1>0. 1..p \subseteq 1..count /\ count \in Nat
  BY SizesAre
<1>3. BoundsOf(o, places)[p] = (CHOOSE sum : E(sum))[1..p]
  BY DEF BoundsOf, MapThenSumSet, MapThenFoldSet
<1>4. \A sum : E(sum) <=> IsSum(sum, b, 1..p)
  <2> SUFFICES ASSUME NEW sum PROVE E(sum) <=> IsSum(sum, b, 1..p)
    OBVIOUS
  <2>1. ASSUME NEW s \in SUBSET (1..p), s # {}
        PROVE  b[Chosen(s)] = current_max_weight(o[CHOOSE x \in s : TRUE],
                                places[o[CHOOSE x \in s : TRUE]])
    <3>1. Chosen(s) \in 1..count
      BY <1>0, <2>1 DEF Chosen
    <3>2. o[Chosen(s)] \in 1..count
      BY <3>1 DEF IsOrder
    <3> QED
      BY <3>1, <3>2 DEF Chosen, Over
  <2>2. [s \in SUBSET (1..p) |->
           IF s = {} THEN 0 ELSE b[Chosen(s)] + sum[s \ {Chosen(s)}]]
        = [s \in SUBSET (1..p) |->
             IF s = {} THEN 0
             ELSE current_max_weight(o[CHOOSE x \in s : TRUE],
                                     places[o[CHOOSE x \in s : TRUE]])
                  + sum[s \ {CHOOSE x \in s : TRUE}]]
    BY <2>1 DEF Chosen
  <2> QED
    BY <2>2 DEF IsSum
<1> HIDE DEF E, b
<1>5. (CHOOSE sum : E(sum)) = (CHOOSE sum : IsSum(sum, b, 1..p))
  BY <1>4
<1>6. Total(b, 1..p) = (CHOOSE sum : IsSum(sum, b, 1..p))[1..p]
  BY DEF Total
<1> QED
  BY <1>3, <1>5, <1>6 DEF b

\* The same of the places the code keeps.
LEMMA BoundsNow ==
  ASSUME InputOK, VectorsBound, NEW o, IsOrder(o),
         upper_bound_cursor \in [1..count -> Nat],
         NEW p \in 1..count
  PROVE  BoundsOf(o, upper_bound_cursor)[p] = Total(Over(Now, o), 1..p)
<1> DEFINE f == Now
<1>1. f = [k \in 1..count |-> current_max_weight(k, upper_bound_cursor[k])]
  BY DEF Now
<1> HIDE DEF f
<1>2. BoundsOf(o, upper_bound_cursor)[p] = Total(Over(f, o), 1..p)
  BY <1>1, BoundsOfIs
<1> QED
  BY <1>2 DEF f

\* A sum of bounds is a natural number.
LEMMA OverIsNat ==
  ASSUME count \in Nat, NEW f, \A k \in 1..count : f[k] \in Nat,
         NEW o, IsOrder(o), NEW p \in 0..count
  PROVE  Total(Over(f, o), 1..p) \in Nat
<1> DEFINE b == Over(f, o)
           first == 1..p
<1>1. \A j \in 1..count : b[j] \in Nat
  BY DEF Over, IsOrder
<1>2. first \subseteq 1..count
  OBVIOUS
<1> HIDE DEF b, first
<1>3. IsFiniteSet(1..count)
  BY FS_Interval
<1>4. IsFiniteSet(first) /\ \A j \in first : b[j] \in Nat
  BY <1>1, <1>2, <1>3, FS_Subset
<1>5. Total(b, first) \in Nat
  BY <1>4, TotalIs
<1> QED
  BY <1>5 DEF b, first

\* The bounds from before the loop are not below those of an order by the
\* present ones.
LEMMA StartBounds ==
  ASSUME InputOK, VectorsBound, PlacesRight, FromStart,
         NEW o, IsOrder(o), Ascending(Now, o), NEW p \in 1..count
  PROVE  /\ Total(Over(Now, o), 1..p) \in Nat /\ upper_bounds[p] \in Nat
         /\ Total(Over(Now, o), 1..p) <= upper_bounds[p]
<1>1. count \in Nat /\ p \in 0..count
  BY SizesAre
<1>2. PICK r : /\ IsOrder(r)
               /\ \A q \in 1..count : upper_bounds[q] = Total(Over(AtStart, r), 1..q)
  BY DEF FromStart
<1>3. \A k \in 1..count : Now[k] \in Nat /\ AtStart[k] \in Nat /\ Now[k] <= AtStart[k]
  BY <1>1, NowIs
<1> DEFINE n == Now
           a == AtStart
<1>4. (\A k \in 1..count : n[k] \in Nat /\ a[k] \in Nat /\ n[k] <= a[k])
      /\ Ascending(n, o)
  BY <1>3
<1> HIDE DEF n, a
<1>5. Total(Over(n, o), 1..p) <= Total(Over(a, r), 1..p)
  BY <1>1, <1>2, <1>4, LightestFirst
<1>6. Total(Over(n, o), 1..p) \in Nat /\ Total(Over(a, r), 1..p) \in Nat
  BY <1>1, <1>2, <1>4, OverIsNat
<1> QED
  BY <1>2, <1>5, <1>6 DEF n, a

\* With what is left of the lists bounded now, documents are bounded whatever
\* order the lists are put in by that.
LEMMA BoundedNow ==
  ASSUME InputOK, CursorsOK, BoundsHold, query = "maxscore_dyn",
         VectorsBound, PlacesRight, FromStart,
         NEW o, IsOrder(o), Ascending(Now, o),
         NEW d, \A k \in Lists(d) : docid[k] <= d
  PROVE  /\ \A p \in 1..count :
              FullScore(d) <= Total(Weight(d), RestOf(o, p, d)) + upper_bounds[p]
         /\ \A p \in 1..count :
              (\A k \in Lists(d) : \E q \in 1..p : o[q] = k)
                => FullScore(d) <= Total(Over(Now, o), 1..p)
<1> DEFINE b == Over(Now, o)
<1>1. count \in Nat /\ \A j \in 1..count : o[j] \in 1..count
  BY SizesAre DEF IsOrder
<1>2. \A j \in 1..count : b[j] = Now[o[j]]
  BY DEF Over
<1>3. /\ \A j \in 1..count : b[j] \in Nat
      /\ \A j \in 1..count : o[j] \in Lists(d) => Weight(d)[o[j]] <= b[j]
  <2> HIDE DEF b
  <2>1. \A k \in Lists(d) : Weight(d)[k] <= Now[k]
    BY WeightNow
  <2> QED
    BY <1>1, <1>2, <2>1, NowIs
<1> HIDE DEF b
<1>4. ASSUME NEW p \in 1..count
      PROVE  FullScore(d) <= Total(Weight(d), RestOf(o, p, d)) + upper_bounds[p]
  <2>1. p \in 0..count
    BY <1>1
  <2>2. /\ FullScore(d) \in Nat /\ Total(b, 1..p) \in Nat
        /\ Total(Weight(d), RestOf(o, p, d)) \in Nat
        /\ FullScore(d) <= Total(Weight(d), RestOf(o, p, d)) + Total(b, 1..p)
    BY <1>3, <2>1, Split
  <2>3. upper_bounds[p] \in Nat /\ Total(b, 1..p) <= upper_bounds[p]
    BY StartBounds DEF b
  <2> QED
    BY <2>2, <2>3
<1>5. ASSUME NEW p \in 1..count, \A k \in Lists(d) : \E q \in 1..p : o[q] = k
      PROVE  FullScore(d) <= Total(b, 1..p)
  <2>1. p \in 0..count
    BY <1>1
  <2> QED
    BY <1>3, <1>5, <2>1, SplitSkips
<1> QED
  BY <1>4, <1>5 DEF b

\* What the steps of maxscore_dyn_query that leave the bounds alone keep.
LEMMA StartStays ==
  ASSUME InputOK, UNCHANGED <<input, upper_bounds>>, VectorsBound, FromStart
  PROVE  VectorsBound' /\ FromStart'
<1>1. count' = count /\ \A k : Docs(k)' = Docs(k) /\ freq(k)' = freq(k)
  BY InputStays
<1>2. \A k, e : Before(k, e)' = Before(k, e)
  BY <1>1 DEF Before
<1>3. VectorsBound'
  BY <1>1, <1>2 DEF VectorsBound
<1>4. AtStart' = AtStart
  BY <1>1 DEF AtStart
<1>5. \A o : IsOrder(o)' <=> IsOrder(o)
  BY <1>1 DEF IsOrder
<1>6. \A o : Over(AtStart, o)' = Over(AtStart, o)
  BY <1>1, <1>4 DEF Over
<1>7. FromStart'
  BY <1>1, <1>5, <1>6 DEF FromStart
<1> QED
  BY <1>3, <1>7

LEMMA BoundedStays ==
  ASSUME InputOK, UNCHANGED <<input, order, cur_doc, upper_bounds>>, Bounded
  PROVE  Bounded'
<1>1. count' = count /\ Candidates' = Candidates
      /\ \A d : FullScore(d)' = FullScore(d)
  BY InputStays, ScoresStay
<1>2. (\A d : Weight(d)' = Weight(d)) /\ \A p, d : Rest(p, d)' = Rest(p, d)
  BY SumsStay
<1>3. \A p, d : Total(Weight(d), Rest(p, d))' = Total(Weight(d), Rest(p, d))
  BY <1>2 DEF Total
<1> QED
  BY <1>1, <1>3 DEF Bounded

\* A document scores no more than the lists that were looked at give it and
\* the bound of the others.
LEMMA RestBounded ==
  ASSUME Typed, BoundsHold, IsMaxscore, DynAhead,
         NEW d \in Candidates, d >= cur_doc, NEW p \in 1..count
  PROVE  /\ FullScore(d) \in Nat /\ RestBound(p) \in Nat
         /\ Total(Weight(d), Rest(p, d)) \in Nat
         /\ FullScore(d) <= Total(Weight(d), Rest(p, d)) + RestBound(p)
<1>1. InputOK /\ IsOrder(order) /\ count \in Nat /\ p \in 0..count
  BY SizesAre DEF Typed
<1>2. CASE query = "maxscore"
  BY <1>1, <1>2, BoundSplit DEF RestBound
<1>3. CASE query = "maxscore_dyn"
  <2>1. VectorsBound /\ FromStart /\ Bounded /\ RestBound(p) = upper_bounds[p]
    BY <1>3 DEF DynAhead, RestBound
  <2>2. FullScore(d) \in Nat
    BY <1>1, FullScoreIs
  <2>3. Total(Weight(d), Rest(p, d)) \in Nat
    <3>1. Rest(p, d) \in SUBSET {k \in 1..count : d \in Docs(k)}
      BY DEF Rest, RestOf, Lists
    <3> QED
      BY <1>1, <3>1, ScoreIs, TotalIs
  <2>4. upper_bounds[p] \in Nat
    <3>1. PICK r : /\ IsOrder(r)
                   /\ \A q \in 1..count : upper_bounds[q] = Total(Over(AtStart, r), 1..q)
      BY <2>1 DEF FromStart
    <3> DEFINE f == AtStart
    <3>2. \A k \in 1..count : f[k] \in Nat
      BY <1>1, <2>1, VectorIs DEF AtStart
    <3>3. upper_bounds[p] = Total(Over(f, r), 1..p)
      BY <3>1
    <3> HIDE DEF f
    <3> QED
      BY <1>1, <3>1, <3>2, <3>3, OverIsNat
  <2>5. FullScore(d) <= Total(Weight(d), Rest(p, d)) + upper_bounds[p]
    BY <2>1 DEF Bounded
  <2> QED
    BY <2>1, <2>2, <2>3, <2>4, <2>5
<1> QED
  BY <1>2, <1>3 DEF IsMaxscore

-----------------------------------------------------------------------------
(* The steps of both. *)

\* The essential lists give the candidate its first part; next_doc is the least
\* document after it in any of them.
LEMMA TopkMaxscoreEssential ==
  ASSUME Typed, BoundsHold, Holds, MaxscoreAhead, MaxscoreEssential
  PROVE  Holds' /\ MaxscoreAhead'
<1> DEFINE c == cur_doc
           on == {k \in Essential : docid[k] = c}
           S == {docid'[k] : k \in Essential}
<1>1. /\ IsMaxscore /\ pc = "loop"
      /\ query \notin {"ranked_and", "wand"}
      /\ c < num_docs /\ non_essential < count
      /\ score' = ScoreOf(c, on)
      /\ MoveOff(on)
      /\ next_doc' = Least(S)
      /\ i' = non_essential
      /\ pc' = "complete"
      /\ UNCHANGED <<input, order, cur_doc, non_essential, topk>>
  BY DEF MaxscoreEssential, Iterate, IsMaxscore
<1>2. /\ InputOK /\ CursorsOK /\ IsOrder(order) /\ count \in Nat \ {0}
      /\ non_essential \in 0..count /\ c \in Nat /\ num_docs \in Nat
  BY SizesAre DEF Typed
<1>3. /\ UNCHANGED <<query, K, count>> /\ \A k : Docs(k)' = Docs(k)
  BY <1>1, <1>2, InputStays
<1>4. /\ Skips /\ c \in Candidates /\ EssentialFrom(c) /\ Ahead(c)
  BY <1>1, <1>2 DEF MaxscoreAhead, AtLoop
<1>5. Essential \subseteq 1..count
  BY <1>2 DEF Essential, IsOrder
<1>6. /\ CursorsOK'
      /\ \A k \in 1..count : \A e \in Docs(k) : e > c => docid'[k] <= e
      /\ \A k \in 1..count : c <= docid[k] /\ (docid[k] = c => k \in on)
                               => c < docid'[k]
  BY <1>1, <1>2, <1>4, AheadAfter
<1>7. \A k \in Essential : c <= docid[k] /\ c < docid'[k]
  <2>1. \A k \in Essential : c <= docid[k]
    BY <1>4 DEF Essential, EssentialFrom
  <2> QED
    BY <1>5, <1>6, <2>1
<1>8. \A k \in 1..count : docid'[k] \in 0..num_docs /\ docid'[k] \in Docs(k) \cup {num_docs}
  BY <1>3, <1>6 DEF CursorsOK
<1>9. on = Rest(non_essential, c)
  <2>1. \A k \in Essential : docid[k] = c => k \in Lists(c)
    BY <1>1, <1>2, <1>5, OnDocument DEF Lists
  <2>2. \A k \in Essential : k \in Lists(c) => docid[k] = c
    <3>1. \A k \in 1..count : k \in Lists(c) => docid[k] <= c /\ docid[k] \in Nat
      BY <1>2, <1>4 DEF Ahead, Lists, CursorsOK
    <3> QED
      BY <1>2, <1>5, <1>7, <3>1
  <2>3. Rest(non_essential, c) = Essential \cap Lists(c)
    BY DEF Rest, RestOf, Essential
  <2> QED
    BY <2>1, <2>2, <2>3
<1>10. /\ next_doc' \in S \cup {num_docs} /\ next_doc' \in 0..num_docs
       /\ \A k \in Essential : next_doc' <= docid'[k]
  <2>1. S \in SUBSET (0..num_docs)
    BY <1>5, <1>8
  <2>2. /\ Least(S) \in S \cup {num_docs} /\ Least(S) \in 0..num_docs
        /\ \A e \in S : e >= 0 => Least(S) <= e
    BY <2>1, FirstFromFinds DEF Least
  <2>3. \A k \in Essential : docid'[k] \in S /\ docid'[k] >= 0
    BY <1>5, <1>8
  <2> QED
    BY <1>1, <2>2, <2>3
<1>11. next_doc' \in Candidates \cup {num_docs} /\ c < next_doc'
  <2>1. \A k \in Essential : docid'[k] \in Candidates \cup {num_docs}
    <3>1. \A k \in 1..count : Docs(k) \subseteq Candidates
      BY <1>1, <1>2, ListsAre DEF Candidates
    <3> QED
      BY <1>5, <1>8, <3>1
  <2> QED
    BY <1>1, <1>7, <1>10, <2>1
<1>12. Candidates' = Candidates
  BY <1>1, <1>2, ScoresStay
<1>13. Skips'
  BY <1>1, <1>2, <1>4, SkipsStay
<1>14. Completing'
  <2>1. score' = Total(Weight(c), Rest(non_essential, c))
    <3>1. Rest(non_essential, c) \in SUBSET {k \in 1..count : c \in Docs(k)}
      BY DEF Rest, RestOf, Lists
    <3> QED
      BY <1>1, <1>2, <1>9, <3>1, ScoreIs
  <2>2. Completed' = Total(Weight(c), Rest(non_essential, c))
    BY <1>1, <1>2, SumsStay
  <2>3. EssentialFrom(next_doc)'
    <3>1. \A p \in (non_essential + 1)..count : order[p] \in Essential
      BY DEF Essential
    <3> QED
      BY <1>1, <1>3, <1>10, <3>1 DEF EssentialFrom
  <2>4. Ahead(cur_doc + 1)'
    <3>1. \A k \in 1..count : \A e \in Docs(k) : e >= c + 1 => docid'[k] <= e
      <4>1. \A k \in 1..count : \A e \in Docs(k) : e \in Nat
        BY <1>2, ListsAre DEF Document
      <4> QED
        BY <1>2, <1>6, <4>1
    <3> QED
      BY <1>1, <1>3, <3>1 DEF Ahead
  <2>5. i' <= non_essential'
    BY <1>1, <1>2
  <2> QED
    BY <1>1, <1>4, <1>11, <1>12, <2>1, <2>2, <2>3, <2>4, <2>5 DEF Completing
<1>15. ToComplete'
  <2>1. ASSUME NEW p \in 1..non_essential, c \in Docs(order[p])
        PROVE  docid'[order[p]] <= c
    <3>1. p \in 1..count /\ order[p] \in 1..count
      BY <1>2 DEF IsOrder
    <3>2. order[p] \notin on
      <4>1. \A q \in (non_essential + 1)..count : q \in 1..count /\ q # p
        BY <1>2
      <4> QED
        BY <1>2, <3>1, <4>1 DEF Essential, IsOrder
    <3>3. docid'[order[p]] = docid[order[p]]
      BY <1>1, <1>2, <3>1, <3>2, MoveOffIs
    <3>4. docid[order[p]] <= c
      BY <1>2, <1>4, <2>1, <3>1 DEF Ahead
    <3> QED
      BY <3>3, <3>4
  <2> QED
    BY <1>1, <1>3, <2>1 DEF ToComplete
<1>16. Holds'
  <2>1. Frontier = c /\ Frontier' = c
    BY <1>1, <1>3 DEF Frontier
  <2>2. \A d \in Candidates : ~(c <= d /\ d < c)
    BY <1>2, CandidatesAre
  <2> HIDE DEF c
  <2> QED
    BY <1>1, <1>2, <2>1, <2>2, PassedSome
<1> QED
  BY <1>1, <1>3, <1>13, <1>14, <1>15, <1>16 DEF MaxscoreAhead, AtLoop, ToInsert

\* Where the cursor of a list lands that has not passed a document: on it, if it
\* is in the list.
LEMMA LandingIs ==
  ASSUME InputOK, CursorsOK, NEW k \in 1..count, NEW c \in Nat, c < num_docs,
         c \in Docs(k) => docid[k] <= c,
         \A e \in Docs(k) : e >= c + 1 => docid[k] <= e
  PROVE  /\ next_geq(k, c) = c <=> c \in Docs(k)
         /\ \A e \in Docs(k) : e >= c + 1 => next_geq(k, c) <= e
<1>1. /\ num_docs \in Nat /\ docid[k] \in 0..num_docs
      /\ docid[k] \in Docs(k) \cup {num_docs}
      /\ \A e \in Docs(k) : e \in Nat
  BY SizesAre, ListsAre DEF CursorsOK, Document
<1>2. c \in 0..num_docs
  BY <1>1
<1>3. /\ FirstFrom(Docs(k), c) \in Docs(k) \cup {num_docs}
      /\ FirstFrom(Docs(k), c) \in 0..num_docs
      /\ c <= FirstFrom(Docs(k), c)
      /\ \A e \in Docs(k) : e >= c => FirstFrom(Docs(k), c) <= e
  BY <1>2, NextGeqIs
<1>4. CASE cursor = "block" /\ docid[k] >= c
  <2>1. next_geq(k, c) = docid[k]
    BY <1>4 DEF next_geq
  <2> QED
    BY <1>1, <1>4, <2>1
<1>5. CASE ~(cursor = "block" /\ docid[k] >= c)
  <2>1. next_geq(k, c) = FirstFrom(Docs(k), c)
    BY <1>5 DEF next_geq
  <2> DEFINE f == FirstFrom(Docs(k), c)
  <2>2. f \in Nat /\ c <= f /\ f \in Docs(k) \cup {num_docs}
        /\ \A e \in Docs(k) : e >= c => f <= e
    BY <1>1, <1>3
  <2> HIDE DEF f
  <2>3. f = c <=> c \in Docs(k)
    BY <1>1, <2>2
  <2>4. \A e \in Docs(k) : e >= c + 1 => f <= e
    BY <1>1, <2>2
  <2> QED
    BY <2>1, <2>3, <2>4 DEF f
<1> QED
  BY <1>4, <1>5

\* A further list is asked only while the bounds of the rest could lift the score
\* into the queue; a candidate given up could not have entered.
LEMMA TopkMaxscoreComplete ==
  ASSUME Typed, BoundsHold, Holds, MaxscoreAhead, DynAhead, MaxscoreComplete
  PROVE  Holds' /\ MaxscoreAhead'
<1> DEFINE c == cur_doc
           k == order[i]
           d == next_geq(k, c)
           More == /\ i > 0
                   /\ docid' = [docid EXCEPT ![k] = d]
                   /\ score' = IF docid'[k] = c
                               THEN score + q_weight[k] * doc_term_weight(k, c)
                               ELSE score
                   /\ i' = i - 1
                   /\ UNCHANGED pc
           Enough == /\ ~(i > 0 /\ would_enter(topk, score + RestBound(i)))
                     /\ pc' = "insert"
                     /\ UNCHANGED <<docid, score, i>>
<1>1. /\ pc = "complete"
      /\ More \/ Enough
      /\ UNCHANGED <<input, order, cur_doc, next_doc, non_essential, topk>>
  BY DEF MaxscoreComplete
<1>2. /\ InputOK /\ CursorsOK /\ IsOrder(order) /\ count \in Nat \ {0}
      /\ i \in 0..count /\ c \in Nat /\ c < num_docs /\ num_docs \in Nat
      /\ score \in Nat /\ non_essential \in 0..count /\ next_doc \in Nat
      /\ IsMaxscore /\ query \notin {"ranked_and", "wand"}
  BY <1>1, SizesAre DEF Typed, IsMaxscore
<1>3. /\ UNCHANGED <<query, K, count>> /\ \A j : Docs(j)' = Docs(j)
      /\ Candidates' = Candidates
  BY <1>1, <1>2, InputStays, ScoresStay
<1>4. /\ Skips /\ c \in Candidates /\ next_doc \in Candidates \cup {num_docs}
      /\ c < next_doc /\ EssentialFrom(next_doc) /\ Ahead(c + 1)
      /\ i <= non_essential /\ score = Completed
      /\ \A p \in 1..i : c \in Docs(order[p]) => docid[order[p]] <= c
  BY <1>1, <1>2 DEF MaxscoreAhead, Completing, ToComplete
<1>5. Skips'
  BY <1>1, <1>2, <1>4, SkipsStay
<1>6. Holds'
  <2>1. pc' \in {"complete", "insert"}
    BY <1>1
  <2>2. Frontier = c /\ Frontier' = c
    BY <1>1, <1>2, <1>3, <2>1 DEF Frontier
  <2>3. \A e \in Candidates : ~(c <= e /\ e < c)
    BY <1>2, CandidatesAre
  <2> HIDE DEF c, More, Enough
  <2> QED
    BY <1>1, <1>2, <2>2, <2>3, PassedSome
<1>7. CASE More
  <2>1. i \in 1..count /\ k \in 1..count /\ i - 1 \in 0..(count - 1)
        /\ (i - 1) + 1 = i
    BY <1>2, <1>7 DEF IsOrder
  <2>2. /\ d = c <=> c \in Docs(k)
        /\ \A e \in Docs(k) : e >= c + 1 => d <= e
    <3>1. c \in Docs(k) => docid[k] <= c
      <4>1. i \in 1..i
        BY <2>1
      <4> QED
        BY <1>4, <4>1
    <3>2. \A e \in Docs(k) : e >= c + 1 => docid[k] <= e
      BY <1>4, <2>1 DEF Ahead
    <3> HIDE DEF k, c
    <3> QED
      BY <1>2, <2>1, <3>1, <3>2, LandingIs
  <2>3. docid'[k] = d /\ \A j \in 1..count : j # k => docid'[j] = docid[j]
    BY <1>2, <1>7, <2>1 DEF CursorsOK
  <2>4. score' = Completed'
    <3> DEFINE later == Total(Weight(c), Rest(i, c))
               w == IF k \in Lists(c) THEN Weight(c)[k] ELSE 0
    <3>1. Total(Weight(c), Rest(i - 1, c)) = later + w /\ later \in Nat
      BY <1>2, <2>1, RestGrows DEF Rest
    <3>2. score = later
      BY <1>4 DEF Completed
    <3>3. Completed' = Total(Weight(c), Rest(i - 1, c))
      BY <1>1, <1>2, <1>7, SumsStay
    <3>4. w = IF d = c THEN q_weight[k] * doc_term_weight(k, c) ELSE 0
      BY <2>1, <2>2 DEF Lists, Weight
    <3>5. score' = IF d = c THEN score + q_weight[k] * doc_term_weight(k, c)
                            ELSE score
      BY <1>7, <2>3
    <3> HIDE DEF d, c, k, later, w
    <3>6. CASE d = c
      BY <3>1, <3>2, <3>3, <3>4, <3>5, <3>6
    <3>7. CASE d # c
      <4>1. later + 0 = later
        BY <3>1
      <4> QED
        BY <3>1, <3>2, <3>3, <3>4, <3>5, <3>7, <4>1
    <3> QED
      BY <3>6, <3>7
  <2>5. EssentialFrom(next_doc)'
    <3>1. \A p \in (non_essential + 1)..count : p \in 1..count /\ p # i
      BY <1>2, <1>4
    <3>2. \A p \in (non_essential + 1)..count :
            order[p] \in 1..count /\ order[p] # k
      BY <1>2, <2>1, <3>1 DEF IsOrder
    <3> QED
      BY <1>1, <1>3, <1>4, <2>3, <3>2 DEF EssentialFrom
  <2>6. Ahead(cur_doc + 1)'
    <3>1. \A j \in 1..count : \A e \in Docs(j) : e >= c + 1 => docid'[j] <= e
      <4>1. ASSUME NEW j \in 1..count, NEW e \in Docs(j), e >= c + 1
            PROVE  docid'[j] <= e
        <5>1. CASE j = k
          BY <2>2, <2>3, <4>1, <5>1
        <5>2. CASE j # k
          BY <1>4, <2>3, <4>1, <5>2 DEF Ahead
        <5> QED
          BY <5>1, <5>2
      <4> QED
        BY <4>1
    <3> QED
      BY <1>1, <1>3, <3>1 DEF Ahead
  <2>7. Completing'
    <3>1. i' <= non_essential'
      BY <1>1, <1>2, <1>4, <1>7
    <3>2. /\ cur_doc' \in Candidates' /\ next_doc' \in Candidates' \cup {num_docs}
          /\ cur_doc' < next_doc'
      BY <1>1, <1>3, <1>4
    <3> HIDE DEF More, Enough, c
    <3> QED
      BY <2>4, <2>5, <2>6, <3>1, <3>2 DEF Completing
  <2>8. ToComplete'
    <3>1. ASSUME NEW p \in 1..(i - 1), c \in Docs(order[p])
          PROVE  docid'[order[p]] <= c
      <4>1. p \in 1..i /\ p \in 1..count /\ p # i
        BY <1>2, <2>1
      <4>2. order[p] \in 1..count /\ order[p] # k
        BY <1>2, <2>1, <4>1 DEF IsOrder
      <4> QED
        BY <1>4, <2>3, <3>1, <4>1, <4>2
    <3> QED
      BY <1>1, <1>3, <1>7, <3>1 DEF ToComplete
  <2>9. pc' = "complete"
    BY <1>1, <1>7
  <2> QED
    BY <1>5, <1>6, <2>7, <2>8, <2>9 DEF MaxscoreAhead, AtLoop, ToInsert
<1>8. CASE Enough
  <2>1. Completed' = Completed
    BY <1>1, <1>2, <1>8, SumsStay DEF Completed
  <2>2. EssentialFrom(next_doc)' /\ Ahead(cur_doc + 1)'
    BY <1>1, <1>3, <1>4, <1>8 DEF EssentialFrom, Ahead
  <2>3. Completing'
    BY <1>1, <1>3, <1>4, <1>8, <2>1, <2>2 DEF Completing
  <2>4. ToInsert'
    <3>1. Total(Weight(c), Rest(i, c)) = score
      BY <1>4 DEF Completed
    <3>2. FullScore(c) \in Nat /\ InputOK /\ topk \in Seq(Nat) /\ Len(topk) <= K
      BY <1>2, FullScoreIs DEF Typed
    <3>3. \/ score = FullScore(c)
          \/ ~would_enter(topk, score) /\ ~would_enter(topk, FullScore(c))
      <4>1. CASE i = 0
        <5>1. Rest(0, c) = Lists(c)
          BY <1>2, RestOfAll DEF Rest
        <5>2. FullScore(c) = Total(Weight(c), Lists(c))
          BY <1>2, ScoresAre DEF ScoresAreTotals
        <5> QED
          BY <3>1, <4>1, <5>1, <5>2
      <4>2. CASE i # 0
        <5>1. i \in 1..count /\ c >= cur_doc
          BY <1>2, <4>2
        <5>2. RestBound(i) \in Nat /\ FullScore(c) <= score + RestBound(i)
          BY <1>2, <1>4, <3>1, <5>1, RestBounded
        <5>3. ~would_enter(topk, score + RestBound(i))
          BY <1>8, <5>1
        <5> HIDE DEF c
        <5>4. score + RestBound(i) \in Nat /\ score <= score + RestBound(i)
          BY <1>2, <5>2
        <5> QED
          BY <1>2, <3>2, <5>2, <5>3, <5>4, CannotEnterLess
      <4> QED
        BY <4>1, <4>2
    <3>4. FullScore(cur_doc)' = FullScore(c)
      BY <1>1, <1>2, ScoresStay
    <3> QED
      BY <1>1, <1>3, <1>8, <3>3, <3>4 DEF ToInsert, would_enter
  <2>5. pc' = "insert"
    BY <1>8
  <2> QED
    BY <1>5, <1>6, <2>3, <2>4, <2>5 DEF MaxscoreAhead, AtLoop, ToComplete
<1> QED
  BY <1>1, <1>7, <1>8

\* The lists that maxscore_query gives up next cannot enter the new queue.
LEMMA NonEssentialIs ==
  ASSUME Typed, MaxscoreInsert
  PROVE  /\ non_essential' \in non_essential..count
         /\ non_essential' = non_essential
              \/ ~would_enter(topk', UpperBound(non_essential'))
<1> DEFINE places == {p \in non_essential..count :
                        p = count \/ would_enter(topk', UpperBound(p + 1))}
<1>1. non_essential' = IF would_enter(topk, score) THEN Min(places)
                                                   ELSE non_essential
  BY DEF MaxscoreInsert
<1>2. count \in Nat \ {0} /\ non_essential \in 0..count
  BY SizesAre DEF Typed
<1>3. places \in SUBSET Nat /\ places # {}
  <2>1. count \in places
    BY <1>2
  <2> QED
    BY <1>2, <2>1
<1>4. \A p \in places : p \in non_essential..count
  OBVIOUS
<1>5. \A p \in non_essential..count : p \notin places =>
        ~would_enter(topk', UpperBound(p + 1))
  OBVIOUS
<1> HIDE DEF places
<1>6. Min(places) \in places /\ \A q \in places : Min(places) <= q
  <2>1. \E p \in places : \A q \in places : p <= q
    BY <1>3, LeastElement
  <2> QED
    BY <2>1 DEF Min
<1>7. CASE would_enter(topk, score)
  <2> DEFINE m == non_essential'
  <2>1. m \in places /\ \A q \in places : m <= q
    BY <1>1, <1>6, <1>7
  <2>2. m \in non_essential..count
    BY <1>4, <2>1
  <2> HIDE DEF m
  <2>3. ASSUME m # non_essential
        PROVE  ~would_enter(topk', UpperBound(m))
    <3>1. m - 1 \in non_essential..count /\ (m - 1) + 1 = m /\ ~(m <= m - 1)
      BY <1>2, <2>2, <2>3
    <3>2. m - 1 \notin places
      BY <2>1, <3>1
    <3>3. ~would_enter(topk', UpperBound((m - 1) + 1))
      BY <1>5, <3>1, <3>2
    <3> QED
      BY <3>1, <3>3
  <2> QED
    BY <2>2, <2>3 DEF m
<1>8. CASE ~would_enter(topk, score)
  BY <1>1, <1>2, <1>8
<1> QED
  BY <1>7, <1>8

\* The insertion of a completed document, which both make before they give up
\* lists.
LEMMA InsertPasses ==
  ASSUME Typed, Holds, IsMaxscore, MaxscoreAhead, pc = "insert",
         UNCHANGED <<input, docid>>, topk' = insert(topk, score),
         cur_doc' = next_doc, pc' = "loop"
  PROVE  /\ Holds'
         /\ \A t \in Nat : ~would_enter(topk, t) => ~would_enter(topk', t)
         /\ cur_doc < next_doc
         /\ cur_doc' \in Candidates \cup {num_docs}
         /\ EssentialFrom(next_doc)
         /\ Ahead(next_doc) /\ Ahead(cur_doc)'
<1> DEFINE c == cur_doc
<1>1. /\ InputOK /\ CursorsOK /\ IsOrder(order) /\ count \in Nat
      /\ c \in Nat /\ num_docs \in Nat /\ score \in Nat
      /\ non_essential \in 0..count /\ next_doc \in Nat
      /\ topk \in Seq(Nat) /\ Len(topk) <= K
      /\ query \notin {"ranked_and", "wand"}
  BY SizesAre DEF Typed, IsMaxscore
<1>2. /\ UNCHANGED <<query, K, count>> /\ \A j : Docs(j)' = Docs(j)
      /\ Candidates' = Candidates
  BY <1>1, InputStays, ScoresStay
<1>3. /\ Skips /\ c \in Candidates /\ next_doc \in Candidates \cup {num_docs}
      /\ c < next_doc /\ EssentialFrom(next_doc) /\ Ahead(c + 1)
      /\ \/ score = FullScore(c)
         \/ ~would_enter(topk, score) /\ ~would_enter(topk, FullScore(c))
  BY DEF MaxscoreAhead, Completing, ToInsert
<1>4. \A d \in Candidates : d \in Nat
  BY <1>1, CandidatesAre
<1>5. ASSUME NEW d \in Candidates, c < d, d < next_doc
      PROVE  ~would_enter(topk, FullScore(d))
  <2>1. ASSUME NEW p \in (non_essential + 1)..count, order[p] \in Lists(d)
        PROVE  FALSE
    <3>1. order[p] \in 1..count /\ d \in Docs(order[p]) /\ docid[order[p]] \in Nat
      BY <1>1, <2>1 DEF Lists, CursorsOK
    <3>2. next_doc <= docid[order[p]]
      BY <1>3 DEF EssentialFrom
    <3>3. docid[order[p]] <= d
      <4>1. d >= c + 1
        BY <1>1, <1>4, <1>5
      <4> QED
        BY <1>3, <3>1, <4>1 DEF Ahead
    <3> QED
      BY <1>1, <1>4, <1>5, <3>1, <3>2, <3>3
  <2>2. OnlyLeftOut(d) /\ d >= cur_doc
    BY <1>1, <1>4, <1>5, <2>1 DEF OnlyLeftOut, NoneAfter
  <2> QED
    BY <1>3, <2>2 DEF Skips
<1>6. Frontier = c /\ Frontier' = next_doc
  BY <1>1, <1>2 DEF Frontier
<1>7. /\ Holds'
      /\ \A t \in Nat : ~would_enter(topk, t) => ~would_enter(topk', t)
  <2> HIDE DEF c
  <2> QED
    BY <1>1, <1>3, <1>5, <1>6, PassedOne
<1>8. Ahead(next_doc)
  <2>1. \A k \in 1..count : \A e \in Docs(k) : e \in Nat
    BY <1>1, ListsAre DEF Document
  <2>2. \A k \in 1..count : \A e \in Docs(k) : e >= next_doc => e >= c + 1
    BY <1>1, <1>3, <2>1
  <2> QED
    BY <1>3, <2>2 DEF Ahead
<1>9. Ahead(cur_doc)'
  BY <1>2, <1>8 DEF Ahead
<1> QED
  BY <1>3, <1>7, <1>8, <1>9

\* The essential lists are fewer when the threshold has grown: what only the others
\* hold cannot enter any more.
LEMMA TopkMaxscoreInsert ==
  ASSUME Typed, BoundsHold, Holds, MaxscoreAhead, MaxscoreInsert
  PROVE  Holds' /\ MaxscoreAhead'
<1>1. /\ query = "maxscore" /\ IsMaxscore /\ pc = "insert" /\ pc' = "loop"
      /\ topk' = insert(topk, score)
      /\ cur_doc' = next_doc
      /\ UNCHANGED <<input, docid, order>>
  BY DEF MaxscoreInsert, IsMaxscore
<1>2. /\ InputOK /\ IsOrder(order) /\ count \in Nat /\ cur_doc \in Nat
      /\ non_essential \in 0..count /\ next_doc \in Nat
      /\ topk \in Seq(Nat) /\ Len(topk) <= K
  BY <1>1, SizesAre DEF Typed
<1>3. /\ UNCHANGED <<query, K, count>> /\ Candidates' = Candidates
      /\ \A d : Lists(d)' = Lists(d) /\ FullScore(d)' = FullScore(d)
  BY <1>1, <1>2, InputStays, ScoresStay
<1>4. /\ Holds'
      /\ \A t \in Nat : ~would_enter(topk, t) => ~would_enter(topk', t)
      /\ cur_doc < next_doc
      /\ cur_doc' \in Candidates \cup {num_docs}
      /\ EssentialFrom(next_doc)
      /\ Ahead(cur_doc)'
  BY <1>1, InsertPasses
<1>5. /\ non_essential' \in non_essential..count
      /\ non_essential' = non_essential
           \/ ~would_enter(topk', UpperBound(non_essential'))
  BY NonEssentialIs
<1>6. insert(topk, score) \in Seq(Nat) /\ Len(insert(topk, score)) <= K
  BY InsertTyped DEF Typed
<1>7. ASSUME NEW d \in Candidates, d >= next_doc,
             \A p \in (non_essential' + 1)..count : order[p] \notin Lists(d)
      PROVE  ~would_enter(topk', FullScore(d))
  <2>1. FullScore(d) \in Nat /\ d \in Nat
    BY <1>2, FullScoreIs, CandidatesAre
  <2>2. CASE non_essential' = non_essential
    <3>1. OnlyLeftOut(d)
      BY <1>7, <2>2 DEF OnlyLeftOut, NoneAfter
    <3>2. d >= cur_doc
      BY <1>2, <1>4, <1>7, <2>1
    <3>3. Skips
      BY <1>1 DEF MaxscoreAhead
    <3>4. ~would_enter(topk, FullScore(d))
      BY <3>1, <3>2, <3>3 DEF Skips
    <3> QED
      BY <1>4, <2>1, <3>4
  <2>3. CASE non_essential' # non_essential
    <3> DEFINE m == non_essential'
    <3>1. m \in 0..count
      BY <1>2, <1>5
    <3>2. ~would_enter(topk', UpperBound(m))
      BY <1>5, <2>3
    <3>3. \A p \in (m + 1)..count : order[p] \notin Lists(d)
      BY <1>7
    <3> HIDE DEF m
    <3>4. \A k \in Lists(d) : \E q \in 1..m : order[q] = k
      <4>1. IsOrder(order) /\ count \in Nat /\ NoneAfter(order, m, d)
        BY <1>2, <3>3 DEF NoneAfter
      <4>2. AllWithin(order, m, d)
        BY <3>1, <4>1, InFirst
      <4> QED
        BY <4>2 DEF AllWithin
    <3>5. UpperBound(m) \in Nat /\ FullScore(d) <= UpperBound(m)
      BY <1>1, <1>2, <3>1, <3>4, BoundSkips
    <3> QED
      BY <1>1, <1>2, <1>6, <2>1, <3>2, <3>5, CannotEnterLess
  <2> QED
    BY <2>2, <2>3
<1>8. Skips'
  BY <1>1, <1>3, <1>7 DEF Skips, OnlyLeftOut, NoneAfter, would_enter
<1>9. AtLoop'
  <2>1. \A p \in (non_essential' + 1)..count : p \in (non_essential + 1)..count
    <3> DEFINE m == non_essential'
    <3>1. m \in Nat /\ non_essential \in Nat /\ non_essential <= m
      BY <1>2, <1>5
    <3> HIDE DEF m
    <3>2. \A p \in (m + 1)..count : p \in (non_essential + 1)..count
      BY <1>2, <3>1
    <3> QED
      BY <3>2 DEF m
  <2>2. EssentialFrom(cur_doc)'
    BY <1>1, <1>3, <1>4, <2>1 DEF EssentialFrom
  <2> QED
    BY <1>3, <1>4, <2>2 DEF AtLoop
<1> QED
  BY <1>1, <1>4, <1>8, <1>9 DEF MaxscoreAhead, Completing, ToComplete, ToInsert

\* maxscore_dyn_query puts the lists in order by their present bounds and gives
\* up the first of them.
LEMMA DynOrderIs ==
  ASSUME Typed, MaxscoreDynInsert
  PROVE  /\ IsOrder(order') /\ Ascending(Now, order')
         /\ non_essential' \in 0..count
         /\ non_essential' # 0 =>
              ~would_enter(topk', BoundsOf(order', upper_bound_cursor)[non_essential'])
<1> DEFINE bounds == BoundsOf(order', upper_bound_cursor)
           places == {p \in 0..count : p = count \/ would_enter(topk', bounds[p + 1])}
<1>1. /\ InputOK /\ count \in Nat \ {0} /\ Cardinality(1..count) = count
  BY SizesAre DEF Typed
<1>2. /\ order' \in [1..count -> 1..count]
      /\ \A p, q \in 1..count : order'[p] = order'[q] => p = q
      /\ \A p \in 2..count :
           current_max_weight(order'[p - 1], upper_bound_cursor[order'[p - 1]])
             <= current_max_weight(order'[p], upper_bound_cursor[order'[p]])
  BY <1>1 DEF MaxscoreDynInsert, SortedBy
<1>3. IsOrder(order')
  BY <1>2 DEF IsOrder
<1>4. Ascending(Now, order')
  <2>1. ASSUME NEW p \in 2..count
        PROVE  Now[order'[p - 1]] <= Now[order'[p]]
    <3>1. p - 1 \in 1..count /\ p \in 1..count
      BY <1>1
    <3>2. order'[p - 1] \in 1..count /\ order'[p] \in 1..count
      BY <1>2, <3>1
    <3>3. current_max_weight(order'[p - 1], upper_bound_cursor[order'[p - 1]])
            <= current_max_weight(order'[p], upper_bound_cursor[order'[p]])
      BY <1>2
    <3> QED
      BY <3>2, <3>3 DEF Now
  <2> QED
    BY <2>1 DEF Ascending
<1>5. non_essential' = Min(places)
  BY DEF MaxscoreDynInsert
<1>6. places \in SUBSET Nat /\ count \in places
  BY <1>1
<1>7. \A p \in places : p \in 0..count
  OBVIOUS
<1>8. \A p \in 0..count : p \notin places => ~would_enter(topk', bounds[p + 1])
  OBVIOUS
<1> HIDE DEF places, bounds
<1>9. Min(places) \in places /\ \A q \in places : Min(places) <= q
  <2>1. \E p \in places : \A q \in places : p <= q
    BY <1>6, LeastElement
  <2> QED
    BY <2>1 DEF Min
<1> DEFINE m == non_essential'
<1>10. m \in 0..count /\ \A q \in places : m <= q
  BY <1>5, <1>7, <1>9
<1>11. m # 0 => ~would_enter(topk', bounds[m])
  <2> HIDE DEF m
  <2>1. ASSUME m # 0
        PROVE  ~would_enter(topk', bounds[m])
    <3>1. m - 1 \in 0..count /\ (m - 1) + 1 = m /\ ~(m <= m - 1)
      BY <1>1, <1>10, <2>1
    <3>2. ~would_enter(topk', bounds[(m - 1) + 1])
      BY <1>8, <1>10, <3>1
    <3> QED
      BY <3>1, <3>2
  <2> QED
    BY <2>1
<1> QED
  BY <1>3, <1>4, <1>10, <1>11 DEF bounds

\* Unless it takes a list back that is before the next document.
LEMMA TopkDynInsert ==
  ASSUME Typed, BoundsHold, Holds, MaxscoreAhead, DynAhead, MaxscoreDynInsert,
         ~left_behind'
  PROVE  Holds' /\ MaxscoreAhead' /\ DynAhead'
<1> DEFINE m == non_essential'
           o == order'
           bounds == BoundsOf(o, upper_bound_cursor)
<1>1. /\ query = "maxscore_dyn" /\ IsMaxscore /\ pc = "insert" /\ pc' = "loop"
      /\ topk' = insert(topk, score)
      /\ cur_doc' = next_doc
      /\ UNCHANGED <<input, docid, upper_bound_cursor, upper_bounds>>
      /\ \A p \in (m + 1)..count : ~(docid[o[p]] < next_doc)
  BY DEF MaxscoreDynInsert, IsMaxscore
<1>2. /\ InputOK /\ CursorsOK /\ count \in Nat /\ cur_doc \in Nat
      /\ num_docs \in Nat /\ next_doc \in Nat
      /\ topk \in Seq(Nat) /\ Len(topk) <= K
  BY <1>1, SizesAre DEF Typed
<1>3. /\ UNCHANGED <<query, K, count>> /\ Candidates' = Candidates
      /\ \A d : Lists(d)' = Lists(d) /\ FullScore(d)' = FullScore(d)
      /\ \A k : Docs(k)' = Docs(k)
      /\ \A d : Weight(d)' = Weight(d)
  BY <1>1, <1>2, InputStays, ScoresStay, SumsStay
<1>4. /\ Holds'
      /\ cur_doc' \in Candidates \cup {num_docs}
      /\ Ahead(next_doc) /\ Ahead(cur_doc)'
  BY <1>1, InsertPasses
<1>5. VectorsBound /\ PlacesRight /\ FromStart
  BY <1>1 DEF DynAhead
<1>6. /\ IsOrder(o) /\ Ascending(Now, o)
      /\ m \in 0..count
      /\ m # 0 => ~would_enter(topk', bounds[m])
  BY DynOrderIs
<1>7. insert(topk, score) \in Seq(Nat) /\ Len(insert(topk, score)) <= K
  BY InsertTyped DEF Typed
<1> HIDE DEF o, m, bounds
<1>8. ASSUME NEW d \in Candidates, d >= next_doc
      PROVE  /\ \A p \in 1..count :
                  FullScore(d) <= Total(Weight(d), RestOf(o, p, d)) + upper_bounds[p]
             /\ \A p \in 1..count :
                  (\A k \in Lists(d) : \E q \in 1..p : o[q] = k)
                    => FullScore(d) <= Total(Over(Now, o), 1..p)
  <2>1. \A k \in Lists(d) : docid[k] <= d
    BY <1>4, <1>8 DEF Ahead, Lists
  <2> QED
    BY <1>1, <1>2, <1>5, <1>6, <2>1, BoundedNow
<1>9. ASSUME NEW d \in Candidates, d >= next_doc,
             \A p \in (m + 1)..count : o[p] \notin Lists(d)
      PROVE  ~would_enter(topk', FullScore(d))
  <2>1. \A k \in Lists(d) : \E q \in 1..m : o[q] = k
    <3>1. NoneAfter(o, m, d) /\ count \in Nat
      BY <1>2, <1>9 DEF NoneAfter
    <3>2. AllWithin(o, m, d)
      BY <1>6, <3>1, InFirst
    <3> QED
      BY <3>2 DEF AllWithin
  <2>2. m \in 1..count
    <3>1. Lists(d) # {}
      BY <1>2, CandidatesAre
    <3> QED
      BY <1>6, <2>1, <3>1
  <2>3. FullScore(d) <= Total(Over(Now, o), 1..m)
    BY <1>8, <1>9, <2>1, <2>2
  <2>4. bounds[m] = Total(Over(Now, o), 1..m)
    <3>1. /\ InputOK /\ VectorsBound /\ IsOrder(o)
          /\ upper_bound_cursor \in [1..count -> Nat]
      BY <1>2, <1>5, <1>6 DEF PlacesRight
    <3>2. BoundsOf(o, upper_bound_cursor)[m] = Total(Over(Now, o), 1..m)
      BY <2>2, <3>1, BoundsNow
    <3> QED
      BY <3>2 DEF bounds
  <2>5. FullScore(d) \in Nat /\ bounds[m] \in Nat
    BY <1>2, <1>5, <1>6, <2>2, <2>4, FullScoreIs, StartBounds
  <2>6. ~would_enter(topk', bounds[m])
    BY <1>6, <2>2
  <2> QED
    BY <1>1, <1>2, <1>7, <2>3, <2>4, <2>5, <2>6, CannotEnterLess
<1>10. Skips'
  BY <1>1, <1>3, <1>9 DEF Skips, OnlyLeftOut, NoneAfter, would_enter, o, m
<1>11. AtLoop'
  <2>1. \A p \in (m + 1)..count : next_doc <= docid[o[p]]
    <3>1. ASSUME NEW p \in (m + 1)..count
          PROVE  docid[o[p]] \in Nat
      <4>1. p \in 1..count
        BY <1>2, <1>6
      <4>2. o[p] \in 1..count
        BY <1>6, <4>1 DEF IsOrder
      <4> QED
        BY <1>2, <4>2 DEF CursorsOK
    <3> QED
      BY <1>1, <1>2, <3>1
  <2>2. EssentialFrom(cur_doc)'
    BY <1>1, <1>3, <2>1 DEF EssentialFrom, o, m
  <2> QED
    BY <1>3, <1>4, <2>2 DEF AtLoop
<1>12. VectorsBound' /\ FromStart'
  BY <1>1, <1>2, <1>5, StartStays
<1>13. PlacesRight'
  <2>1. \A k, e : Before(k, e)' = Before(k, e)
    BY <1>3 DEF Before
  <2> QED
    BY <1>1, <1>3, <1>5, <2>1 DEF PlacesRight
<1>14. Bounded'
  <2>1. \A p, d : Rest(p, d)' = RestOf(o, p, d)
    BY <1>3 DEF Rest, RestOf, o
  <2>2. \A p, d : Total(Weight(d), Rest(p, d))' = Total(Weight(d), RestOf(o, p, d))
    BY <1>3, <2>1 DEF Total
  <2> QED
    BY <1>1, <1>3, <1>8, <2>2 DEF Bounded
<1>15. MaxscoreAhead'
  BY <1>1, <1>10, <1>11 DEF MaxscoreAhead, Completing, ToComplete, ToInsert
<1> QED
  BY <1>4, <1>12, <1>13, <1>14, <1>15 DEF DynAhead

\* The places of the vectors follow the cursors.
LEMMA DynEssential ==
  ASSUME Typed, DynAhead, MaxscoreEssential
  PROVE  DynAhead'
<1> DEFINE on == {k \in Essential : docid[k] = cur_doc}
<1>1. /\ cur_doc < num_docs
      /\ MoveOff(on)
      /\ upper_bound_cursor' =
           [k \in 1..count |-> upper_bound_cursor[k]
              + IF query = "maxscore_dyn" /\ k \in on THEN 1 ELSE 0]
      /\ UNCHANGED <<input, upper_bounds, order, cur_doc>>
  BY DEF MaxscoreEssential, Iterate
<1>2. InputOK /\ CursorsOK /\ count \in Nat /\ num_docs \in Nat
  BY SizesAre DEF Typed
<1>3. UNCHANGED <<query, count>> /\ \A k : Docs(k)' = Docs(k)
  BY <1>1, <1>2, InputStays
<1> SUFFICES ASSUME query = "maxscore_dyn"
             PROVE  VectorsBound' /\ PlacesRight' /\ FromStart' /\ Bounded'
  BY <1>3 DEF DynAhead
<1>4. VectorsBound /\ PlacesRight /\ FromStart /\ Bounded
  BY DEF DynAhead
<1>5. VectorsBound' /\ FromStart' /\ Bounded'
  BY <1>1, <1>2, <1>4, StartStays, BoundedStays
<1>6. /\ CursorsOK'
      /\ \A k \in 1..count :
           /\ k \notin on => docid'[k] = docid[k]
           /\ k \in on /\ docid[k] < num_docs =>
                /\ docid[k] < docid'[k]
                /\ \A e \in Docs(k) : e > docid[k] => docid'[k] <= e
  BY <1>1, <1>2, MoveOffIs
<1>7. ASSUME NEW k \in 1..count
      PROVE  /\ upper_bound_cursor'[k] \in Nat
             /\ docid'[k] # num_docs => upper_bound_cursor'[k] = Before(k, docid'[k])
  <2>1. upper_bound_cursor[k] \in Nat
        /\ (docid[k] # num_docs => upper_bound_cursor[k] = Before(k, docid[k]))
    BY <1>4 DEF PlacesRight
  <2>2. CASE k \notin on
    <3>1. upper_bound_cursor'[k] = upper_bound_cursor[k] + 0
      BY <1>1, <2>2
    <3> HIDE DEF on
    <3> QED
      BY <1>6, <2>1, <2>2, <3>1
  <2>3. CASE k \in on
    <3> DEFINE d == docid[k]
               e == docid'[k]
               before == {x \in Docs(k) : x < d}
    <3>1. upper_bound_cursor'[k] = upper_bound_cursor[k] + 1
      BY <1>1, <2>3
    <3>2. d = cur_doc /\ d < num_docs /\ d \in Docs(k)
      BY <1>1, <1>2, <2>3, OnDocument
    <3>3. d < e /\ \A x \in Docs(k) : x > d => e <= x
      BY <1>6, <2>3, <3>2
    <3>4. e \in Nat /\ d \in Nat /\ \A x \in Docs(k) : x \in Nat
      BY <1>2, <1>3, <1>6, ListsAre DEF CursorsOK, Document
    <3>5. {x \in Docs(k) : x < e} = before \cup {d}
      <4> HIDE DEF e, d
      <4>1. \A x \in Docs(k) : x < e <=> x < d \/ x = d
        BY <3>3, <3>4
      <4> QED
        BY <3>2, <4>1
    <3>6. IsFiniteSet(before) /\ d \notin before
      <4>1. before \in SUBSET Docs(k)
        OBVIOUS
      <4> HIDE DEF before
      <4>2. IsFiniteSet(before)
        BY <1>2, <4>1, ListsAre, FS_Subset
      <4> QED
        BY <3>4, <4>2 DEF before
    <3>7. Before(k, d) = Cardinality(before) /\ Before(k, e) = Cardinality(before \cup {d})
      BY <3>5 DEF Before
    <3>8. upper_bound_cursor[k] = Before(k, d)
      BY <2>1, <3>2, <3>4
    <3> HIDE DEF before, d, e
    <3>9. Cardinality(before \cup {d}) = Cardinality(before) + 1
      BY <3>6, FS_AddElement
    <3> QED
      BY <2>1, <3>1, <3>7, <3>8, <3>9 DEF e
  <2> QED
    BY <2>2, <2>3
<1>8. PlacesRight'
  <2>1. \A k, e : Before(k, e)' = Before(k, e)
    BY <1>3 DEF Before
  <2>2. upper_bound_cursor' \in [1..count -> Nat]
    BY <1>1, <1>7
  <2> QED
    BY <1>3, <1>7, <2>1, <2>2 DEF PlacesRight
<1> QED
  BY <1>5, <1>8

\* The bounds of maxscore_dyn_query hold on while a document is completed.
LEMMA DynComplete ==
  ASSUME Typed, DynAhead, MaxscoreComplete
  PROVE  DynAhead'
<1> DEFINE k == order[i]
           d == next_geq(k, cur_doc)
           More == /\ i > 0
                   /\ docid' = [docid EXCEPT ![k] = d]
                   /\ upper_bound_cursor' =
                        IF query = "maxscore_dyn"
                        THEN [upper_bound_cursor EXCEPT ![k] = PlaceAt(k, docid'[k])]
                        ELSE upper_bound_cursor
           Enough == UNCHANGED <<docid, upper_bound_cursor>>
<1>1. /\ pc = "complete"
      /\ More \/ Enough
      /\ UNCHANGED <<input, upper_bounds, order, cur_doc>>
  BY DEF MaxscoreComplete
<1>2. /\ InputOK /\ CursorsOK /\ IsOrder(order) /\ count \in Nat
      /\ i \in 0..count /\ num_docs \in Nat
  BY <1>1, SizesAre DEF Typed
<1>3. UNCHANGED <<query, count>> /\ \A j : Docs(j)' = Docs(j)
  BY <1>1, <1>2, InputStays
<1> SUFFICES ASSUME query = "maxscore_dyn"
             PROVE  VectorsBound' /\ PlacesRight' /\ FromStart' /\ Bounded'
  BY <1>3 DEF DynAhead
<1>4. VectorsBound /\ PlacesRight /\ FromStart /\ Bounded
  BY DEF DynAhead
<1>5. VectorsBound' /\ FromStart' /\ Bounded'
  BY <1>1, <1>2, <1>4, StartStays, BoundedStays
<1>6. \A j, e : Before(j, e)' = Before(j, e)
  BY <1>3 DEF Before
<1>7. CASE More
  <2>1. k \in 1..count
    BY <1>2, <1>7 DEF IsOrder
  <2>2. /\ docid'[k] = d /\ \A j \in 1..count : j # k => docid'[j] = docid[j]
        /\ upper_bound_cursor' = [upper_bound_cursor EXCEPT ![k] = PlaceAt(k, d)]
    BY <1>2, <1>7, <2>1 DEF CursorsOK
  <2> HIDE DEF k, d, More
  <2>3. Before(k, d) \in Nat
    <3>1. {e \in Docs(k) : e < d} \in SUBSET Docs(k) /\ IsFiniteSet(Docs(k))
      BY <1>2, <2>1, ListsAre
    <3>2. IsFiniteSet({e \in Docs(k) : e < d})
      BY <3>1, FS_Subset
    <3> QED
      BY <3>2, FS_CardinalityType DEF Before
  <2>4. PlaceAt(k, d) \in Nat /\ (d # num_docs => PlaceAt(k, d) = Before(k, d))
    BY <1>4, <2>1, <2>3 DEF PlaceAt, PlacesRight
  <2>5. upper_bound_cursor' \in [1..count -> Nat]
    BY <1>4, <2>2, <2>4 DEF PlacesRight
  <2>6. ASSUME NEW j \in 1..count, docid'[j] # num_docs
        PROVE  upper_bound_cursor'[j] = Before(j, docid'[j])
    <3>1. CASE j = k
      BY <1>4, <2>1, <2>2, <2>4, <2>6, <3>1 DEF PlacesRight
    <3>2. CASE j # k
      BY <1>4, <2>1, <2>2, <2>6, <3>2 DEF PlacesRight
    <3> QED
      BY <3>1, <3>2
  <2>7. PlacesRight'
    BY <1>3, <1>6, <2>5, <2>6 DEF PlacesRight
  <2> QED
    BY <1>5, <2>7
<1>8. CASE Enough
  <2>1. PlacesRight'
    BY <1>3, <1>4, <1>6, <1>8 DEF PlacesRight
  <2> QED
    BY <1>5, <2>1
<1> QED
  BY <1>1, <1>7, <1>8

\* And where neither cursors nor bounds change.
LEMMA DynStays ==
  ASSUME InputOK, DynAhead,
         UNCHANGED <<input, docid, upper_bound_cursor, upper_bounds, order, cur_doc>>
  PROVE  DynAhead'
<1>1. UNCHANGED <<query, count>> /\ \A j : Docs(j)' = Docs(j)
  BY InputStays
<1> SUFFICES ASSUME query = "maxscore_dyn"
             PROVE  VectorsBound' /\ PlacesRight' /\ FromStart' /\ Bounded'
  BY <1>1 DEF DynAhead
<1>2. VectorsBound /\ PlacesRight /\ FromStart /\ Bounded
  BY DEF DynAhead
<1>3. VectorsBound' /\ FromStart' /\ Bounded'
  BY <1>2, StartStays, BoundedStays
<1>4. \A j, e : Before(j, e)' = Before(j, e)
  BY <1>1 DEF Before
<1>5. PlacesRight'
  BY <1>1, <1>2, <1>4 DEF PlacesRight
<1> QED
  BY <1>3, <1>5

\* At the end no document is left that could enter.
LEMMA TopkFinish ==
  ASSUME Typed, Holds, MaxscoreAhead, DynAhead, Finish
  PROVE  Holds' /\ MaxscoreAhead' /\ DynAhead'
<1>1. /\ pc = "loop" /\ query # "wand" /\ pc' = "done"
      /\ cur_doc >= num_docs \/ (IsMaxscore /\ non_essential = count)
      /\ UNCHANGED <<input, dyn, docid, order, cur_doc, non_essential, topk>>
  BY DEF Finish
<1>2. /\ InputOK /\ num_docs \in Nat /\ cur_doc \in 0..num_docs /\ count \in Nat
  BY SizesAre DEF Typed
<1>3. Frontier = cur_doc /\ Frontier' = num_docs
  BY <1>1 DEF Frontier
<1>4. \A d \in Candidates : d \in Nat /\ d < num_docs
  BY <1>2, CandidatesAre
<1>5. ASSUME NEW d \in Candidates, cur_doc <= d
      PROVE  ~would_enter(topk, FullScore(d))
  <2>1. IsMaxscore /\ non_essential = count
    BY <1>1, <1>2, <1>4, <1>5
  <2>2. Skips
    BY <2>1 DEF MaxscoreAhead
  <2>3. OnlyLeftOut(d) /\ d >= cur_doc
    BY <1>2, <1>4, <1>5, <2>1 DEF OnlyLeftOut, NoneAfter
  <2> QED
    BY <2>2, <2>3 DEF Skips
<1>6. Holds'
  BY <1>1, <1>2, <1>3, <1>5, PassedSome
<1>7. MaxscoreAhead'
  <2>1. CASE IsMaxscore
    <3>1. Skips'
      BY <1>1, <1>2, <2>1, SkipsStay DEF MaxscoreAhead
    <3> QED
      BY <1>1, <3>1 DEF MaxscoreAhead, AtLoop, Completing, ToComplete, ToInsert
  <2>2. CASE ~IsMaxscore
    BY <1>1, <1>2, <2>2, InputStays DEF MaxscoreAhead, IsMaxscore
  <2> QED
    BY <2>1, <2>2
<1>8. DynAhead'
  BY <1>1, <1>2, DynStays DEF dyn
<1> QED
  BY <1>6, <1>7, <1>8

-----------------------------------------------------------------------------
(* Every query. *)

\* At first every cursor is on the first document of its list and none is
\* before the frontier.
LEMMA TopkInit ==
  ASSUME Init
  PROVE  TopkInv
<1>1. Typed
  BY TypedInit
<1>2. /\ InputOK /\ CursorsOK /\ IsOrder(order) /\ count \in Nat \ {0}
      /\ num_docs \in Nat /\ K \in Nat \ {0} /\ cur_doc \in 0..num_docs
  BY <1>1, SizesAre DEF Typed
<1>3. /\ docid = [k \in 1..count |-> Least(Docs(k))]
      /\ cur_doc = IF query = "ranked_and" THEN docid[order[1]] ELSE LeastDocid
      /\ pc = "loop" /\ topk = <<>> /\ non_essential = 0
  BY DEF Init
<1>4. \A k \in 1..count : docid[k] \in 0..num_docs
                          /\ docid[k] \in Docs(k) \cup {num_docs}
  BY <1>2 DEF CursorsOK
<1>5. \A k \in 1..count : \A e \in Docs(k) : docid[k] <= e /\ e \in Nat
  <2>1. ASSUME NEW k \in 1..count, NEW e \in Docs(k)
        PROVE  docid[k] <= e /\ e \in Nat
    <3>1. Docs(k) \in SUBSET Document
      BY <1>2, ListsAre
    <3>2. Least(Docs(k)) <= e /\ e \in Nat
      BY <3>1, LeastIsFirst DEF Document
    <3> QED
      BY <1>3, <3>2
  <2> QED
    BY <2>1
<1>6. query # "ranked_and" =>
        /\ \A k \in 1..count : cur_doc <= docid[k]
        /\ cur_doc = num_docs \/ \E k \in 1..count : docid[k] = cur_doc
  <2>1. docid \in [1..count -> 0..num_docs] /\ count \in Nat /\ count # 0
    BY <1>2 DEF CursorsOK
  <2>2. /\ \A k \in 1..count : LeastDocid <= docid[k]
        /\ LeastDocid = num_docs \/ \E k \in 1..count : docid[k] = LeastDocid
    BY <2>1, LeastCursor DEF LeastDocid
  <2> QED
    BY <1>3, <2>2
<1>7. order[1] \in 1..count /\ 1 \in 1..count
  BY <1>2 DEF IsOrder
<1>8. \A d \in Candidates : d \in Nat
  BY <1>2, CandidatesAre
<1>9. \A d \in Candidates : Frontier \in Nat /\ Frontier <= d
  <2>1. CASE query = "ranked_and"
    <3>1. Frontier = docid[order[1]]
      BY <1>3, <2>1 DEF Frontier
    <3>2. \A d \in Candidates : d \in Docs(order[1])
      BY <1>7, <2>1 DEF Candidates
    <3> QED
      BY <1>4, <1>5, <1>7, <3>1, <3>2
  <2>2. CASE query = "wand"
    <3>1. Frontier = docid[order[1]]
      BY <1>3, <2>2 DEF Frontier
    <3>2. FirstIsLeast
      BY <1>1, <2>2, InOrderInit, WandFirst
    <3>3. \A d \in Candidates : \E k \in 1..count : d \in Docs(k)
      BY <2>2 DEF Candidates
    <3>4. \A k \in 1..count : docid[order[1]] <= docid[k]
      BY <3>2 DEF FirstIsLeast
    <3>5. docid[order[1]] \in Nat /\ \A k \in 1..count : docid[k] \in Nat
      BY <1>4, <1>7
    <3> QED
      BY <1>5, <1>8, <3>1, <3>3, <3>4, <3>5
  <2>3. CASE query \notin {"ranked_and", "wand"}
    <3>1. Frontier = cur_doc
      BY <1>3, <2>3 DEF Frontier
    <3>2. \A d \in Candidates : \E k \in 1..count : d \in Docs(k)
      BY <2>3 DEF Candidates
    <3>3. cur_doc \in Nat /\ \A k \in 1..count : docid[k] \in Nat /\ cur_doc <= docid[k]
      BY <1>2, <1>4, <1>6, <2>3
    <3> QED
      BY <1>5, <1>8, <3>1, <3>2, <3>3
  <2> QED
    BY <2>1, <2>2, <2>3
<1>10. Holds
  <2>1. Past = {}
    BY <1>8, <1>9 DEF Past
  <2>2. ASSUME NEW t \in Nat
        PROVE  AtLeast(topk, t) = Smaller(K, Reaching(Past, t))
    <3>1. {j \in 1..Len(topk) : topk[j] >= t} = {}
      BY <1>3
    <3>2. {d \in Past : FullScore(d) >= t} = {}
      BY <2>1
    <3>3. AtLeast(topk, t) = 0 /\ Reaching(Past, t) = 0
      BY <3>1, <3>2, FS_EmptySet DEF AtLeast, Reaching
    <3> QED
      BY <1>2, <3>3 DEF Smaller
  <2>3. Descending(topk)
    BY <1>3 DEF Descending
  <2> QED
    BY <2>2, <2>3 DEF Holds, Best
<1>11. \A b : Ahead(b)
  BY <1>5 DEF Ahead
<1>12. OrAhead
  BY <1>2, <1>6, <1>11 DEF OrAhead
<1>13. WandAhead
  <2>1. \A d \in Candidates : Unread(d)
    BY <1>5 DEF Unread, Lists
  <2> QED
    BY <2>1 DEF WandAhead
<1>14. MaxscoreAhead
  <2>1. ASSUME IsMaxscore
        PROVE  Skips /\ cur_doc \in Candidates \cup {num_docs} /\ EssentialFrom(cur_doc)
    <3>1. query \notin {"ranked_and", "wand"}
      BY <2>1 DEF IsMaxscore
    <3>2. cur_doc \in Candidates \cup {num_docs}
      <4>1. \A k \in 1..count : Docs(k) \subseteq Candidates
        BY <1>2, <3>1, ListsAre DEF Candidates
      <4> QED
        BY <1>4, <1>6, <3>1, <4>1
    <3>3. EssentialFrom(cur_doc)
      <4>1. \A p \in (non_essential + 1)..count : order[p] \in 1..count
        BY <1>2, <1>3 DEF IsOrder
      <4> QED
        BY <1>6, <3>1, <4>1 DEF EssentialFrom
    <3>4. \A d \in Candidates : ~OnlyLeftOut(d)
      <4>1. \A d \in Candidates : Lists(d) # {}
        BY <1>2, CandidatesAre
      <4>2. \A k \in 1..count : \E p \in 1..count : order[p] = k
        BY <1>2, OrderIsOnto
      <4>3. (non_essential + 1)..count = 1..count
        BY <1>3
      <4> QED
        BY <4>1, <4>2, <4>3 DEF OnlyLeftOut, NoneAfter, Lists
    <3> QED
      BY <3>2, <3>3, <3>4 DEF Skips
  <2> QED
    BY <1>3, <1>11, <2>1 DEF MaxscoreAhead, AtLoop, Completing, ToComplete, ToInsert
<1>15. ASSUME BoundsHold, query = "maxscore_dyn"
       PROVE  VectorsBound /\ PlacesRight /\ FromStart /\ Bounded
  <2>1. /\ VectorsBound
        /\ upper_bound_cursor = [k \in 1..count |-> 0]
        /\ upper_bounds = BoundsOf(order, upper_bound_cursor)
    BY <1>15 DEF Init
  <2>2. PlacesRight
    <3>1. ASSUME NEW k \in 1..count
          PROVE  Before(k, docid[k]) = 0
      <4>1. {e \in Docs(k) : e < docid[k]} = {}
        BY <1>4, <1>5
      <4> QED
        BY <4>1, FS_EmptySet DEF Before
    <3> QED
      BY <2>1, <3>1 DEF PlacesRight
  <2>3. Now = AtStart
    BY <2>1 DEF Now, AtStart
  <2>4. \A p \in 1..count : upper_bounds[p] = Total(Over(Now, order), 1..p)
    <3> DEFINE f == Now
    <3>1. f = [k \in 1..count |-> current_max_weight(k, upper_bound_cursor[k])]
          /\ upper_bound_cursor \in [1..count -> Nat]
      BY <2>1 DEF Now
    <3> HIDE DEF f
    <3>2. \A p \in 1..count : BoundsOf(order, upper_bound_cursor)[p] = Total(Over(f, order), 1..p)
      BY <1>2, <2>1, <3>1, BoundsOfIs
    <3> QED
      BY <2>1, <3>2 DEF f
  <2>5. FromStart
    BY <1>2, <2>3, <2>4 DEF FromStart
  <2>6. Ascending(Now, order)
    <3>1. order \in {o \in [1..Cardinality(1..count) -> 1..count] :
                      \A p \in 2..Cardinality(1..count) :
                        current_max_weight(o[p - 1], 0) <= current_max_weight(o[p], 0)}
      BY <1>15 DEF Init, SortedBy
    <3>2. Cardinality(1..count) = count
      BY <1>2, SizesAre
    <3>3. ASSUME NEW p \in 2..count
          PROVE  AtStart[order[p - 1]] <= AtStart[order[p]]
      <4>1. p - 1 \in 1..count /\ p \in 1..count
        BY <1>2
      <4>2. order[p - 1] \in 1..count /\ order[p] \in 1..count
        BY <1>2, <4>1 DEF IsOrder
      <4>3. current_max_weight(order[p - 1], 0) <= current_max_weight(order[p], 0)
        BY <3>1, <3>2
      <4> QED
        BY <4>2, <4>3 DEF AtStart
    <3> QED
      BY <2>3, <3>3 DEF Ascending
  <2>7. Bounded
    <3>1. ASSUME NEW d \in Candidates, NEW p \in 1..count
          PROVE  FullScore(d) <= Total(Weight(d), Rest(p, d)) + upper_bounds[p]
      <4>1. \A k \in Lists(d) : docid[k] <= d
        BY <1>5 DEF Lists
      <4> QED
        BY <1>2, <1>15, <2>1, <2>2, <2>5, <2>6, <4>1, BoundedNow DEF Rest
    <3> QED
      BY <3>1 DEF Bounded
  <2> QED
    BY <2>1, <2>2, <2>5, <2>7
<1> QED
  BY <1>10, <1>12, <1>13, <1>14, <1>15 DEF TopkInv, DynAhead

\* A step that is about another query, or about none.
LEMMA TopkStutter ==
  ASSUME Typed, UNCHANGED vars,
         Holds /\ OrAhead /\ WandAhead /\ MaxscoreAhead /\ DynAhead
  PROVE  Holds' /\ OrAhead' /\ WandAhead' /\ MaxscoreAhead' /\ DynAhead'
<1>1. /\ UNCHANGED <<input, docid, order, cur_doc, i, score, next_doc,
                     non_essential, topk, pc>>
      /\ InputOK /\ num_docs \in Nat /\ cur_doc \in 0..num_docs
      /\ CursorsOK /\ IsOrder(order) /\ count \in Nat \ {0}
  BY SizesAre DEF vars, Typed
<1>2. /\ UNCHANGED <<query, K, count>> /\ \A k : Docs(k)' = Docs(k)
      /\ Candidates' = Candidates /\ \A d : Lists(d)' = Lists(d)
      /\ \A d : FullScore(d)' = FullScore(d)
  BY <1>1, InputStays, ScoresStay
<1>3. Holds'
  <2>1. Frontier' = Frontier /\ Frontier \in Nat
    <3>1. order[1] \in 1..count
      BY <1>1 DEF IsOrder
    <3>2. docid[order[1]] \in Nat
      BY <1>1, <3>1 DEF CursorsOK
    <3> QED
      BY <1>1, <1>2, <3>2 DEF Frontier
  <2>2. \A d \in Candidates : d \in Nat
    BY <1>1, CandidatesAre
  <2>3. \A d \in Candidates : ~(Frontier <= d /\ d < Frontier)
    BY <2>1, <2>2
  <2>4. Frontier <= Frontier'
    BY <2>1
  <2> QED
    BY <1>1, <2>1, <2>3, <2>4, PassedSome
<1>4. OrAhead'
  BY <1>1, <1>2 DEF OrAhead, Ahead
<1>5. WandAhead'
  <2>1. \A d : Unread(d)' = Unread(d)
    BY <1>1, <1>2 DEF Unread
  <2>2. \A d : would_enter(topk, FullScore(d))' = would_enter(topk, FullScore(d))
    BY <1>1, <1>2 DEF would_enter
  <2> QED
    BY <1>1, <1>2, <2>1, <2>2 DEF WandAhead
<1>6. MaxscoreAhead'
  <2>1. ASSUME IsMaxscore
        PROVE  (Skips /\ AtLoop /\ Completing /\ ToComplete /\ ToInsert)'
    <3>1. Skips /\ AtLoop /\ Completing /\ ToComplete /\ ToInsert
      BY <2>1 DEF MaxscoreAhead
    <3>2. Skips'
      BY <1>1, <3>1, SkipsStay
    <3>3. AtLoop'
      BY <1>1, <1>2, <3>1 DEF AtLoop, EssentialFrom, Ahead
    <3>4. Completing'
      <4>1. Completed' = Completed
        BY <1>1, SumsStay DEF Completed
      <4> QED
        BY <1>1, <1>2, <3>1, <4>1 DEF Completing, EssentialFrom, Ahead
    <3>5. ToComplete'
      BY <1>1, <1>2, <3>1 DEF ToComplete
    <3>6. ToInsert'
      <4>1. FullScore(cur_doc)' = FullScore(cur_doc)
        BY <1>1, <1>2
      <4> QED
        BY <1>1, <1>2, <3>1, <4>1 DEF ToInsert, would_enter
    <3> QED
      BY <3>2, <3>3, <3>4, <3>5, <3>6
  <2> QED
    BY <1>2, <2>1 DEF MaxscoreAhead, IsMaxscore
<1>7. DynAhead'
  BY <1>1, DynStays DEF vars, dyn
<1> QED
  BY <1>3, <1>4, <1>5, <1>6, <1>7

\* A list that maxscore_dyn_query has left behind stays so.
LEMMA LeftBehindStays ==
  ASSUME [Next]_vars
  PROVE  UNCHANGED input /\ (left_behind => left_behind')
<1>1. CASE OrDocument \/ AndProbe \/ AndMatch
  BY <1>1 DEF OrDocument, AndProbe, AndMatch, dyn
<1>2. CASE WandMatch \/ WandAdvance \/ WandFinish
  BY <1>2 DEF WandMatch, WandAdvance, WandFinish, dyn
<1>3. CASE MaxscoreEssential \/ MaxscoreComplete
  BY <1>3 DEF MaxscoreEssential, MaxscoreComplete
<1>4. CASE MaxscoreInsert \/ Finish \/ UNCHANGED vars
  BY <1>4 DEF MaxscoreInsert, Finish, dyn, vars
<1>5. CASE MaxscoreDynInsert
  BY <1>5 DEF MaxscoreDynInsert
<1> QED
  BY <1>1, <1>2, <1>3, <1>4, <1>5 DEF Next

\* The invariant is inductive.
LEMMA TopkNext ==
  ASSUME Typed, InOrder, TopkInv, [Next]_vars
  PROVE  TopkInv'
<1>1. InputOK
  BY DEF Typed
<1>2. UNCHANGED input /\ (left_behind => left_behind')
  BY LeftBehindStays
<1>3. (BoundsHold' <=> BoundsHold) /\ UNCHANGED query
  BY <1>1, <1>2, ScoresStay, InputStays
<1> SUFFICES ASSUME BoundsHold, ~left_behind'
             PROVE  Holds' /\ OrAhead' /\ WandAhead' /\ MaxscoreAhead' /\ DynAhead'
  BY <1>3 DEF TopkInv
<1>4. Holds /\ OrAhead /\ WandAhead /\ MaxscoreAhead /\ DynAhead
  BY <1>2 DEF TopkInv
<1>5. IsMaxscore' <=> IsMaxscore
  BY <1>3 DEF IsMaxscore
<1>6. CASE OrDocument
  <2>1. query = "ranked_or" /\ ~IsMaxscore
    BY <1>6 DEF OrDocument, Iterate, IsMaxscore
  <2> QED
    BY <1>3, <1>4, <1>5, <1>6, <2>1, TopkOr DEF WandAhead, MaxscoreAhead, DynAhead
<1>7. CASE AndProbe \/ AndMatch
  <2>1. query = "ranked_and" /\ ~IsMaxscore
    BY <1>7 DEF AndProbe, AndMatch, Iterate, IsMaxscore
  <2> QED
    BY <1>3, <1>4, <1>5, <1>7, <2>1, TopkAndProbe, TopkAndMatch
    DEF OrAhead, WandAhead, MaxscoreAhead, DynAhead
<1>8. CASE WandMatch \/ WandAdvance \/ WandFinish
  <2>1. query = "wand" /\ ~IsMaxscore
    BY <1>8 DEF WandMatch, WandAdvance, WandFinish, IsMaxscore
  <2> QED
    BY <1>3, <1>4, <1>5, <1>8, <2>1, TopkWandMatch, TopkWandAdvance, TopkWandFinish
    DEF OrAhead, MaxscoreAhead, DynAhead
<1>9. CASE MaxscoreEssential \/ MaxscoreComplete
  <2>1. query \notin {"ranked_or", "wand"}
    <3>1. CASE MaxscoreComplete
      <4>1. pc = "complete"
        BY <3>1 DEF MaxscoreComplete
      <4> QED
        BY <4>1 DEF Typed
    <3>2. CASE MaxscoreEssential
      BY <3>2 DEF MaxscoreEssential, Iterate
    <3> QED
      BY <1>9, <3>1, <3>2
  <2>2. Holds' /\ MaxscoreAhead'
    BY <1>4, <1>9, TopkMaxscoreEssential, TopkMaxscoreComplete
  <2>3. DynAhead'
    BY <1>4, <1>9, DynEssential, DynComplete
  <2> QED
    BY <1>3, <2>1, <2>2, <2>3 DEF OrAhead, WandAhead
<1>10. CASE MaxscoreInsert
  <2>1. query = "maxscore"
    BY <1>10 DEF MaxscoreInsert
  <2>2. Holds' /\ MaxscoreAhead'
    BY <1>4, <1>10, TopkMaxscoreInsert
  <2> QED
    BY <1>3, <2>1, <2>2 DEF OrAhead, WandAhead, DynAhead
<1>11. CASE MaxscoreDynInsert
  <2>1. query = "maxscore_dyn"
    BY <1>11 DEF MaxscoreDynInsert
  <2>2. Holds' /\ MaxscoreAhead' /\ DynAhead'
    BY <1>4, <1>11, TopkDynInsert
  <2> QED
    BY <1>3, <2>1, <2>2 DEF OrAhead, WandAhead
<1>12. CASE Finish
  <2>1. pc' = "done" /\ query # "wand"
    BY <1>12 DEF Finish
  <2>2. Holds' /\ MaxscoreAhead' /\ DynAhead'
    BY <1>4, <1>12, TopkFinish
  <2> QED
    BY <1>3, <2>1, <2>2 DEF OrAhead, WandAhead
<1>13. CASE UNCHANGED vars
  BY <1>4, <1>13, TopkStutter
<1> QED
  BY <1>6, <1>7, <1>8, <1>9, <1>10, <1>11, <1>12, <1>13 DEF Next

\* The smaller of two numbers.
LEMMA SmallerIs ==
  ASSUME NEW a \in Nat, NEW b \in Nat
  PROVE  Min({a, b}) = Smaller(a, b)
<1>1. CASE a <= b
  <2>1. \E x \in {a, b} : \A y \in {a, b} : x <= y
    BY <1>1
  <2>2. \A x \in {a, b} : (\A y \in {a, b} : x <= y) => x = a
    BY <1>1
  <2> QED
    BY <1>1, <2>1, <2>2 DEF Min, Smaller
<1>2. CASE ~(a <= b)
  <2>1. \E x \in {a, b} : \A y \in {a, b} : x <= y
    BY <1>2
  <2>2. \A x \in {a, b} : (\A y \in {a, b} : x <= y) => x = b
    BY <1>2
  <2> QED
    BY <1>2, <2>1, <2>2 DEF Min, Smaller
<1> QED
  BY <1>1, <1>2

\* Best says of every score what IsBestOf says of those that occur.
LEMMA BestIs ==
  ASSUME InputOK, NEW q \in Seq(Nat), NEW D, IsFiniteSet(D), Best(q, D)
  PROVE  IsBestOf(q, D)
<1> DEFINE full == [d \in D |-> FullScore(d)]
<1>1. K \in Nat /\ \A d : FullScore(d) \in Nat
  BY SizesAre, FullScoreIs
<1>2. Descending(q) /\ \A t \in Nat : AtLeast(q, t) = Smaller(K, Reaching(D, t))
  BY DEF Best
<1>3. Len(q) = Min({K, Cardinality(D)})
  <2>1. AtLeast(q, 0) = Len(q)
    <3>1. {j \in 1..Len(q) : q[j] >= 0} = 1..Len(q)
      OBVIOUS
    <3>2. Cardinality(1..Len(q)) = Len(q)
      <4> DEFINE n == Len(q)
      <4>1. n \in Nat
        OBVIOUS
      <4> HIDE DEF n
      <4>2. Cardinality(1..n) = n
        BY <4>1, FS_Interval
      <4> QED
        BY <4>2 DEF n
    <3> QED
      BY <3>1, <3>2 DEF AtLeast
  <2>2. Reaching(D, 0) = Cardinality(D) /\ Cardinality(D) \in Nat
    <3>1. {d \in D : FullScore(d) >= 0} = D
      BY <1>1
    <3> QED
      BY <3>1, FS_CardinalityType DEF Reaching
  <2> QED
    BY <1>1, <1>2, <2>1, <2>2, SmallerIs
<1>4. ASSUME NEW t \in Nat
      PROVE  Cardinality({j \in 1..Len(q) : q[j] >= t})
               = Min({K, Cardinality({d \in D : full[d] >= t})})
  <2>1. {d \in D : full[d] >= t} = {d \in D : FullScore(d) >= t}
    OBVIOUS
  <2>2. Reaching(D, t) \in Nat
    BY ReachingIs
  <2>3. AtLeast(q, t) = Smaller(K, Reaching(D, t))
    BY <1>2
  <2>4. AtLeast(q, t) = Min({K, Reaching(D, t)})
    BY <1>1, <2>2, <2>3, SmallerIs
  <2> QED
    BY <2>1, <2>4 DEF AtLeast, Reaching
<1>5. Range(q) \subseteq Nat /\ Range(full) \subseteq Nat
  BY <1>1 DEF Range
<1>6. \A s \in Range(q) \cup Range(full) :
        Cardinality({j \in 1..Len(q) : q[j] >= s})
          = Min({K, Cardinality({d \in D : full[d] >= s})})
  BY <1>4, <1>5
<1> QED
  BY <1>2, <1>3, <1>6 DEF IsBestOf, Descending

LEMMA TopkAlways == Spec => []TopkInv
<1>1. Typed /\ InOrder /\ TopkInv /\ [Next]_vars => TopkInv'
  BY TopkNext
<1> QED
  BY <1>1, TopkInit, TypedAlways, InOrderAlways, PTL DEF Spec

\* Every query holds the K best scores of all the documents it has passed, those
\* that it has never scored among them, and at the end the K best of the query,
\* whatever the index and the weights; maxscore_query and maxscore_dyn_query only
\* for queries that repeat no term, and maxscore_dyn_query, with vectors that
\* bound the lists, until a list that it has left behind becomes essential again.
THEOREM TopkCorrect == Spec => [](BoundsHold => TopkIsBestSoFar)
<1>1. Typed /\ TopkInv => (BoundsHold => TopkIsBestSoFar)
  <2> SUFFICES ASSUME Typed, TopkInv, BoundsHold, ~left_behind
               PROVE  IsBestOf(topk, {d \in Candidates : d < Frontier})
    BY DEF TopkIsBestSoFar
  <2> DEFINE D == {d \in Candidates : d < Frontier}
  <2>1. InputOK /\ topk \in Seq(Nat)
    BY DEF Typed
  <2>2. Best(topk, D)
    BY DEF TopkInv, Holds, Past
  <2>3. IsFiniteSet(D)
    BY <2>1, CandidatesAre
  <2> HIDE DEF D
  <2>4. IsBestOf(topk, D)
    BY <2>1, <2>2, <2>3, BestIs
  <2> QED
    BY <2>4 DEF D
<1> QED
  BY <1>1, TypedAlways, TopkAlways, PTL
=============================================================================
