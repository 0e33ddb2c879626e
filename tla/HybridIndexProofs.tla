------------------------- MODULE HybridIndexProofs -------------------------
(***************************************************************************)
(* Proofs about HybridIndex and about the queue that brings the points of  *)
(* its lists to the file in order (SemiAsyncQueue), for every collection,  *)
(* profile, coding and budget, and for every number of jobs and threads.   *)
(*                                                                         *)
(* First the parts: the length of a number, the blocks of the lists, the   *)
(* buffer of append_lambdas and the lines it bends along.  Then the        *)
(* inductive invariant, with one lemma per action, and the three theorems. *)
(* The queue is last.                                                      *)
(***************************************************************************)
EXTENDS SemiAsyncQueue, HybridIndex, SortedSequencesProofs, SequenceTheorems

-----------------------------------------------------------------------------
(* The length of a list, as it is written: seven bits to a byte. *)

\* A bit that is in a number with so many groups of seven.
LEMMA BitInGroup ==
  ASSUME NEW x \in Nat, NEW m \in 0..30, 2^m <= x
  PROVE  /\ x < 128 => m < 7
         /\ x < 128^2 => m < 14
         /\ x < 128^3 => m < 21
         /\ x < 128^4 => m < 28
<1>1. \/ m = 0 \/ m = 1 \/ m = 2 \/ m = 3 \/ m = 4 \/ m = 5 \/ m = 6 \/ m = 7
      \/ m = 8 \/ m = 9 \/ m = 10 \/ m = 11 \/ m = 12 \/ m = 13 \/ m = 14
      \/ m = 15 \/ m = 16 \/ m = 17 \/ m = 18 \/ m = 19 \/ m = 20 \/ m = 21
      \/ m = 22 \/ m = 23 \/ m = 24 \/ m = 25 \/ m = 26 \/ m = 27 \/ m = 28
      \/ m = 29 \/ m = 30
  OBVIOUS
<1>2. /\ (m = 0 => 2^m = 2^0) /\ (m = 1 => 2^m = 2^1) /\ (m = 2 => 2^m = 2^2)
      /\ (m = 3 => 2^m = 2^3) /\ (m = 4 => 2^m = 2^4) /\ (m = 5 => 2^m = 2^5)
      /\ (m = 6 => 2^m = 2^6) /\ (m = 7 => 2^m = 2^7) /\ (m = 8 => 2^m = 2^8)
      /\ (m = 9 => 2^m = 2^9) /\ (m = 10 => 2^m = 2^10) /\ (m = 11 => 2^m = 2^11)
      /\ (m = 12 => 2^m = 2^12) /\ (m = 13 => 2^m = 2^13) /\ (m = 14 => 2^m = 2^14)
      /\ (m = 15 => 2^m = 2^15) /\ (m = 16 => 2^m = 2^16) /\ (m = 17 => 2^m = 2^17)
      /\ (m = 18 => 2^m = 2^18) /\ (m = 19 => 2^m = 2^19) /\ (m = 20 => 2^m = 2^20)
      /\ (m = 21 => 2^m = 2^21) /\ (m = 22 => 2^m = 2^22) /\ (m = 23 => 2^m = 2^23)
      /\ (m = 24 => 2^m = 2^24) /\ (m = 25 => 2^m = 2^25) /\ (m = 26 => 2^m = 2^26)
      /\ (m = 27 => 2^m = 2^27) /\ (m = 28 => 2^m = 2^28) /\ (m = 29 => 2^m = 2^29)
      /\ (m = 30 => 2^m = 2^30)
  BY Zenon
<1>3. x < 128 => m < 7
  BY <1>1, <1>2
<1>4. x < 128^2 => m < 14
  BY <1>1, <1>2
<1>5. x < 128^3 => m < 21
  BY <1>1, <1>2
<1>6. x < 128^4 => m < 28
  BY <1>1, <1>2
<1> QED
  BY <1>3, <1>4, <1>5, <1>6

\* The bytes of a number are counted from its highest bit.
LEMMA LengthIsEncoded ==
  ASSUME NEW x \in Nat \ {0}, x < 2^30
  PROVE  vbyte_size(x) = EncodedLength(x) /\ vbyte_size(x) \in 1..5
<1> DEFINE S == {k \in 0..30 : 2^k <= x}
           Ends(k) == x < 128^k /\ (k = 1 \/ x >= 128^(k - 1))
           m == msb(x)
<1>1. m \in S /\ \A k \in S : m >= k
  <2>1. 0 \in S
    <3>1. 2^0 <= x /\ 0 \in 0..30
      OBVIOUS
    <3> QED
      BY <3>1, Zenon
  <2>2. S \in SUBSET (0..30)
    OBVIOUS
  <2>3. m = CHOOSE g \in S : \A k \in S : g >= k
    BY DEF msb, Max
  <2> HIDE DEF S, m
  <2>4. \E g \in S : \A k \in S : g >= k
    BY <2>1, <2>2, GreatestElement
  <2> QED
    BY <2>3, <2>4
<1>2. m \in 0..30 /\ 2^m <= x
  BY <1>1
<1>3. \A k \in 0..30 : 2^k <= x => m >= k
  BY <1>1
<1>4. /\ x < 128 => m < 7
      /\ x < 128^2 => m < 14
      /\ x < 128^3 => m < 21
      /\ x < 128^4 => m < 28
  <2> HIDE DEF m
  <2> QED
    BY <1>2, BitInGroup
<1>5. vbyte_size(x) = (m + 7) \div 7
  <2>1. vbyte_size(x) = (m + 1 + 6) \div 7
    BY DEF vbyte_size
  <2> HIDE DEF m
  <2> QED
    BY <1>2, <2>1
<1>6. 128^1 = 128 /\ 128^(2 - 1) = 128 /\ 3 - 1 = 2 /\ 4 - 1 = 3 /\ 5 - 1 = 4
      /\ 2 # 1 /\ 3 # 1 /\ 4 # 1 /\ 5 # 1
  OBVIOUS
<1> HIDE DEF m, S
<1>7. /\ Ends(1) <=> (x < 128)
      /\ Ends(2) <=> (x < 128^2 /\ x >= 128)
      /\ Ends(3) <=> (x < 128^3 /\ x >= 128^2)
      /\ Ends(4) <=> (x < 128^4 /\ x >= 128^3)
      /\ Ends(5) <=> (x < 128^5 /\ x >= 128^4)
  <2> HIDE DEF Ends
  <2>1. Ends(1) <=> (x < 128)
    BY <1>6, Zenon DEF Ends
  <2>2. Ends(2) <=> (x < 128^2 /\ x >= 128)
    BY <1>6, Zenon DEF Ends
  <2>3. Ends(3) <=> (x < 128^3 /\ x >= 128^2)
    BY <1>6, Zenon DEF Ends
  <2>4. Ends(4) <=> (x < 128^4 /\ x >= 128^3)
    BY <1>6, Zenon DEF Ends
  <2>5. Ends(5) <=> (x < 128^5 /\ x >= 128^4)
    BY <1>6, Zenon DEF Ends
  <2> QED
    BY <2>1, <2>2, <2>3, <2>4, <2>5
<1> DEFINE v == (m + 7) \div 7
<1>8. v \in 1..5 /\ Ends(v)
  <2>1. CASE x < 128
    <3>1. m < 7
      BY <1>4, <2>1
    <3>2. v = 1
      BY <1>2, <3>1
    <3> HIDE DEF v, Ends
    <3> QED
      BY <1>7, <2>1, <3>2
  <2>2. CASE 128 <= x /\ x < 128^2
    <3>1. m < 14 /\ m >= 7
      <4>1. 2^7 <= x /\ 7 \in 0..30
        BY <2>2
      <4> QED
        BY <1>3, <1>4, <2>2, <4>1, Zenon
    <3>2. v = 2
      BY <1>2, <3>1
    <3> HIDE DEF v, Ends
    <3> QED
      BY <1>7, <2>2, <3>2
  <2>3. CASE 128^2 <= x /\ x < 128^3
    <3>1. m < 21 /\ m >= 14
      <4>1. 2^14 <= x /\ 14 \in 0..30
        BY <2>3
      <4> QED
        BY <1>3, <1>4, <2>3, <4>1, Zenon
    <3>2. v = 3
      BY <1>2, <3>1
    <3> HIDE DEF v, Ends
    <3> QED
      BY <1>7, <2>3, <3>2
  <2>4. CASE 128^3 <= x /\ x < 128^4
    <3>1. m < 28 /\ m >= 21
      <4>1. 2^21 <= x /\ 21 \in 0..30
        BY <2>4
      <4> QED
        BY <1>3, <1>4, <2>4, <4>1, Zenon
    <3>2. v = 4
      BY <1>2, <3>1
    <3> HIDE DEF v, Ends
    <3> QED
      BY <1>7, <2>4, <3>2
  <2>5. CASE 128^4 <= x
    <3>1. m >= 28 /\ x < 128^5
      <4>1. 2^28 <= x /\ 28 \in 0..30 /\ x < 128^5
        BY <2>5
      <4> QED
        BY <1>3, <4>1, Zenon
    <3>2. v = 5
      BY <1>2, <3>1
    <3> HIDE DEF v, Ends
    <3> QED
      BY <1>7, <2>5, <3>1, <3>2
  <2> QED
    BY <2>1, <2>2, <2>3, <2>4, <2>5
<1> HIDE DEF v
<1>9. ASSUME NEW k \in 1..5, Ends(k) PROVE k = v
  <2> HIDE DEF Ends
  <2>1. \A j \in 1..5 : j = 1 \/ j = 2 \/ j = 3 \/ j = 4 \/ j = 5
    OBVIOUS
  <2>2. \A j \in 1..5 : Ends(j) => \/ j = 1 /\ Ends(1)
                                   \/ j = 2 /\ Ends(2)
                                   \/ j = 3 /\ Ends(3)
                                   \/ j = 4 /\ Ends(4)
                                   \/ j = 5 /\ Ends(5)
    BY <2>1, Zenon
  <2>3. \/ k = 1 /\ Ends(1)
        \/ k = 2 /\ Ends(2)
        \/ k = 3 /\ Ends(3)
        \/ k = 4 /\ Ends(4)
        \/ k = 5 /\ Ends(5)
    BY <1>9, <2>2, Zenon
  <2>4. \/ v = 1 /\ Ends(1)
        \/ v = 2 /\ Ends(2)
        \/ v = 3 /\ Ends(3)
        \/ v = 4 /\ Ends(4)
        \/ v = 5 /\ Ends(5)
    BY <1>8, <2>2, Zenon
  <2> QED
    BY <1>7, <2>3, <2>4
<1>10. EncodedLength(x) = CHOOSE k \in 1..5 : Ends(k)
  BY DEF EncodedLength
<1> HIDE DEF Ends
<1>11. EncodedLength(x) = v
  BY <1>8, <1>9, <1>10
<1> QED
  BY <1>5, <1>8, <1>11 DEF v
-----------------------------------------------------------------------------
(* The lists and their blocks *)

\* The number of lists, their slots, and the first block of each of them.
N == Len(Sizes)
Width == [t \in Terms |-> 2 * num_blocks(t)]
BaseOf(t) == Total(Width, 0..(t - 1))

\* The lists of the collection are finitely many, each with its slots.
LEMMA ListsAre ==
  /\ N \in Nat /\ Terms = 0..(N - 1) /\ IsFiniteSet(Terms)
  /\ \A t \in Terms : /\ Postings(t) \in Nat \ {0} /\ Postings(t) < 2^30
                      /\ num_blocks(t) \in Nat \ {0}
                      /\ Width[t] = 2 * num_blocks(t) /\ Width[t] \in Nat
                      /\ Slots(t) = 0..(Width[t] - 1)
<1>1. N \in Nat /\ Terms = 0..(N - 1) /\ DOMAIN Sizes = 1..N
  BY ProfilerAssumption DEF ProfilerAssumption, N, Terms
<1>2. IsFiniteSet(Terms)
  BY <1>1, FS_Interval
<1>3. ASSUME NEW t \in Terms
      PROVE  /\ Postings(t) \in Nat \ {0} /\ Postings(t) < 2^30
             /\ num_blocks(t) \in Nat \ {0}
  <2>1. t + 1 \in 1..N
    BY <1>1
  <2>2. Postings(t) \in Nat \ {0} /\ Postings(t) < 2^30
    BY <1>1, <2>1, ProfilerAssumption DEF ProfilerAssumption, Postings
  <2>3. block_size \in Nat \ {0}
    BY ProfilerAssumption DEF ProfilerAssumption
  <2> DEFINE p == Postings(t) + block_size - 1
             d == p \div block_size
             z == d * block_size
  <2>4. p \in Nat /\ p >= block_size
    BY <2>2, <2>3
  <2>5. d \in Nat /\ z \in Nat /\ p = z + (p % block_size) /\ p % block_size \in 0..(block_size - 1)
    BY <2>3, <2>4, Division
  <2>6. d # 0
    <3> SUFFICES ASSUME d = 0 PROVE FALSE
      OBVIOUS
    <3>1. z = 0
      BY <2>3, <2>5
    <3> HIDE DEF z, d, p
    <3> QED
      BY <2>3, <2>4, <2>5, <3>1
  <2> QED
    BY <2>2, <2>5, <2>6 DEF num_blocks
<1>4. \A t \in Terms : /\ Width[t] = 2 * num_blocks(t) /\ Width[t] \in Nat
                       /\ Slots(t) = 0..(Width[t] - 1)
  BY <1>3 DEF Width, Slots
<1> QED
  BY <1>1, <1>2, <1>3, <1>4

\* The fold of a function is its total.
LEMMA SumFunctionIs ==
  ASSUME NEW f
  PROVE  SumFunction(f) = Total(f, DOMAIN f)
BY DEF SumFunction, SumFunctionOnSet, FoldFunctionOnSet, MapThenFoldSet, Total, IsSum, Chosen

\* The blocks end where the first block of a list behind the last would be.
LEMMA BlocksAre ==
  /\ Blocks = 0..(BaseOf(N) - 1) /\ IsFiniteSet(Blocks)
  /\ BaseOf(N) \in Nat /\ BaseOf(0) = 0
<1> DEFINE f == [t \in Terms |-> num_blocks(t)]
<1>1. SumFunction(f) = Total(f, Terms)
  <2>1. DOMAIN f = Terms
    OBVIOUS
  <2> HIDE DEF f
  <2> QED
    BY <2>1, SumFunctionIs
<1>4. \A t \in Terms : f[t] \in Nat /\ Width[t] = f[t] + f[t]
  BY ListsAre
<1>2. Blocks = 0..(2 * SumFunction(f) - 1)
  BY DEF Blocks
<1> HIDE DEF f
<1>5. Total(f, Terms) \in Nat
  <2>1. IsFiniteSet(Terms)
    BY ListsAre
  <2> QED
    BY <1>4, <2>1, TotalIs
<1>6. Total(Width, Terms) = Total(f, Terms) + Total(f, Terms)
  <2>1. IsFiniteSet(Terms)
    BY ListsAre
  <2>2. \A t \in Terms : f[t] \in Nat /\ f[t] \in Nat /\ Width[t] = f[t] + f[t]
    BY <1>4
  <2> QED
    BY <2>1, <2>2, TotalOfSums
<1>7. BaseOf(N) = Total(Width, Terms)
  BY ListsAre DEF BaseOf
<1>8. BaseOf(0) = 0
  <2>1. 0..(0 - 1) = {}
    OBVIOUS
  <2> QED
    BY <2>1, TotalEmpty DEF BaseOf
<1>9. Blocks = 0..(BaseOf(N) - 1) /\ BaseOf(N) \in Nat
  BY <1>1, <1>2, <1>5, <1>6, <1>7
<1> QED
  BY <1>8, <1>9, FS_Interval

\* Where the lists begin.
LEMMA BasesAre ==
  /\ \A t \in 0..N : BaseOf(t) \in Nat /\ BaseOf(t) <= BaseOf(N)
  /\ \A t \in Terms : /\ BaseOf(t + 1) = BaseOf(t) + Width[t]
                      /\ \A slot \in Slots(t) : BaseOf(t) + slot \in Blocks
<1>1. ASSUME NEW t \in 0..N PROVE BaseOf(t) \in Nat /\ BaseOf(t) <= BaseOf(N)
  <2>1. /\ \A x \in 0..(t - 1) : Width[x] \in Nat
        /\ 0..(t - 1) \in SUBSET (0..(N - 1))
        /\ \A x \in 0..(N - 1) : Width[x] \in Nat
    BY ListsAre
  <2>2. IsFiniteSet(0..(t - 1)) /\ IsFiniteSet(0..(N - 1))
    BY ListsAre, FS_Interval
  <2>3. Total(Width, 0..(t - 1)) \in Nat
    BY <2>1, <2>2, TotalIs
  <2>4. Total(Width, 0..(t - 1)) <= Total(Width, 0..(N - 1))
    BY <2>1, <2>2, TotalGrows
  <2> QED
    BY <2>3, <2>4 DEF BaseOf
<1>2. ASSUME NEW t \in Terms PROVE BaseOf(t + 1) = BaseOf(t) + Width[t]
  <2>1. t \in Nat /\ t + 1 - 1 = t /\ \A x \in 0..t : Width[x] \in Nat
    BY ListsAre
  <2>2. Total(Width, 0..t) = Total(Width, 0..(t - 1)) + Width[t]
    BY <2>1, TotalNext
  <2> QED
    BY <2>1, <2>2 DEF BaseOf
<1>3. ASSUME NEW t \in Terms, NEW slot \in Slots(t) PROVE BaseOf(t) + slot \in Blocks
  <2>1. t \in 0..N /\ t + 1 \in 0..N /\ slot \in 0..(Width[t] - 1) /\ Width[t] \in Nat
    BY ListsAre
  <2>2. BaseOf(t) \in Nat /\ BaseOf(t + 1) \in Nat /\ BaseOf(t + 1) <= BaseOf(N)
        /\ BaseOf(N) \in Nat
    BY <1>1, <2>1, BlocksAre
  <2>3. BaseOf(t + 1) = BaseOf(t) + Width[t]
    BY <1>2
  <2> QED
    BY <2>1, <2>2, <2>3, BlocksAre
<1> QED
  BY <1>1, <1>2, <1>3
-----------------------------------------------------------------------------
(* Rows that are computed place by place *)

\* A row whose places are computed one from the other.
IsComputed(g, n, first, step) ==
  \A i \in 1..n : g[i] = IF i = 1 THEN first ELSE step[i][g[i - 1]]

\* A row exists whose every place is computed from the one before it.
LEMMA RowExists ==
  ASSUME NEW n \in Nat, NEW V, NEW first \in V, NEW step,
         \A i \in 2..n : \A v \in V : step[i][v] \in V
  PROVE  \E g \in [1..n -> V] : IsComputed(g, n, first, step)
<1> DEFINE Row(g, k) == \A i \in 1..k : g[i] = IF i = 1 THEN first ELSE step[i][g[i - 1]]
           S == {k \in 0..n : \E g \in [1..k -> V] : Row(g, k)}
<1>1. 0 \in S
  <2>1. [i \in 1..0 |-> first] \in [1..0 -> V] /\ Row([i \in 1..0 |-> first], 0)
    OBVIOUS
  <2>2. 0 \in 0..n
    OBVIOUS
  <2> HIDE DEF Row
  <2> QED
    BY <2>1, <2>2, Zenon
<1>2. ASSUME NEW k \in 0..(n - 1), k \in S PROVE k + 1 \in S
  <2>1. PICK g \in [1..k -> V] : Row(g, k)
    BY <1>2
  <2> DEFINE later == IF k + 1 = 1 THEN first ELSE step[k + 1][g[k]]
             h == [i \in 1..(k + 1) |-> IF i = k + 1 THEN later ELSE g[i]]
  <2>2. later \in V
    <3>1. CASE k = 0
      BY <3>1
    <3>2. CASE k # 0
      <4>1. k \in 1..k /\ k + 1 \in 2..n
        BY <3>2
      <4>2. g[k] \in V
        BY <4>1
      <4> QED
        BY <4>1, <4>2
    <3> QED
      BY <3>1, <3>2
  <2>3. h \in [1..(k + 1) -> V]
    BY <2>2
  <2>4. Row(h, k + 1)
    <3> SUFFICES ASSUME NEW i \in 1..(k + 1)
                 PROVE  h[i] = IF i = 1 THEN first ELSE step[i][h[i - 1]]
      OBVIOUS
    <3>1. CASE i = k + 1
      <4>1. k # 0 => k \in 1..(k + 1) /\ k # k + 1
        OBVIOUS
      <4>2. k # 0 => h[k] = g[k]
        BY <4>1
      <4>3. h[i] = later
        BY <3>1
      <4>4. i - 1 = k /\ (i = 1 <=> k = 0)
        BY <3>1
      <4> HIDE DEF h
      <4> QED
        BY <3>1, <4>2, <4>3, <4>4
    <3>2. CASE i # k + 1
      <4>1. i \in 1..k /\ (i # 1 => i - 1 \in 1..k)
        BY <3>2
      <4>2. h[i] = g[i] /\ (i # 1 => h[i - 1] = g[i - 1])
        BY <4>1
      <4> HIDE DEF h
      <4> QED
        BY <2>1, <4>1, <4>2
    <3> QED
      BY <3>1, <3>2
  <2>5. k + 1 \in 0..n
    OBVIOUS
  <2> HIDE DEF Row, h
  <2> QED
    BY <2>3, <2>4, <2>5, Zenon
<1> HIDE DEF S
<1>3. \A k \in 0..n : k \in S
  BY <1>1, <1>2, UpTo
<1>4. n \in S
  BY <1>3
<1> QED
  BY <1>4 DEF S, IsComputed

\* Two rows that begin alike and go on alike are the same.
LEMMA RowIsUnique ==
  ASSUME NEW n \in Nat, NEW g, NEW h,
         n > 0 => g[1] = h[1],
         \A i \in 2..n : g[i - 1] = h[i - 1] => g[i] = h[i]
  PROVE  \A i \in 1..n : g[i] = h[i]
<1> DEFINE S == {k \in 0..n : k = 0 \/ g[k] = h[k]}
<1>1. 0 \in S
  OBVIOUS
<1>2. ASSUME NEW k \in 0..(n - 1), k \in S PROVE k + 1 \in S
  <2>1. CASE k = 0
    BY <2>1
  <2>2. CASE k # 0
    <3>1. k + 1 \in 2..n /\ k + 1 - 1 = k
      BY <2>2
    <3>2. g[k] = h[k]
      BY <1>2, <2>2
    <3>3. g[k + 1] = h[k + 1]
      BY <3>1, <3>2
    <3> QED
      BY <3>3
  <2> QED
    BY <2>1, <2>2
<1> HIDE DEF S
<1>3. \A k \in 0..n : k \in S
  BY <1>1, <1>2, UpTo
<1> QED
  BY <1>3 DEF S

\* What two sequences hold together.
LEMMA RangeOfConcatenation ==
  ASSUME NEW X, NEW a \in Seq(X), NEW b \in Seq(X)
  PROVE  a \o b \in Seq(X) /\ Range(a \o b) = Range(a) \cup Range(b)
<1>1. /\ a \o b \in Seq(X) /\ Len(a \o b) = Len(a) + Len(b)
      /\ \A i \in 1..(Len(a) + Len(b)) :
           (a \o b)[i] = IF i <= Len(a) THEN a[i] ELSE b[i - Len(a)]
  BY ConcatProperties
<1>2. /\ DOMAIN (a \o b) = 1..(Len(a) + Len(b)) /\ DOMAIN a = 1..Len(a) /\ DOMAIN b = 1..Len(b)
      /\ Len(a) \in Nat /\ Len(b) \in Nat
  BY <1>1
<1> DEFINE c == a \o b
<1>3. \A i \in 1..Len(a) : i \in DOMAIN c /\ c[i] = a[i]
  BY <1>1, <1>2
<1>4. \A i \in 1..Len(b) : i + Len(a) \in DOMAIN c /\ c[i + Len(a)] = b[i]
  BY <1>1, <1>2
<1>5. \A i \in DOMAIN c : \/ i \in 1..Len(a) /\ c[i] = a[i]
                          \/ i - Len(a) \in 1..Len(b) /\ c[i] = b[i - Len(a)]
  BY <1>1, <1>2
<1> HIDE DEF c
<1>6. \A x : x \in Range(c) <=> x \in Range(a) \/ x \in Range(b)
  BY <1>2, <1>3, <1>4, <1>5 DEF Range
<1> QED
  BY <1>1, <1>6 DEF c

\* Sequences in a row hold what each of them holds.
LEMMA FlattenIs ==
  ASSUME NEW X, NEW seqs \in Seq(Seq(X))
  PROVE  /\ FlattenSeq(seqs) \in Seq(X)
         /\ Range(FlattenSeq(seqs)) = UNION {Range(seqs[i]) : i \in DOMAIN seqs}
<1> DEFINE n == Len(seqs)
<1>1. n \in Nat /\ DOMAIN seqs = 1..n /\ \A i \in 1..n : seqs[i] \in Seq(X)
  OBVIOUS
<1>2. CASE n = 0
  <2>1. seqs = <<>> /\ DOMAIN seqs = {} /\ seqs \in Seq(X)
    BY <1>1, <1>2
  <2>2. FlattenSeq(seqs) = seqs
    BY <1>2 DEF FlattenSeq
  <2>3. Range(seqs) = {}
    BY <2>1 DEF Range
  <2>4. UNION {Range(seqs[i]) : i \in DOMAIN seqs} = {}
    BY <2>1
  <2> QED
    BY <2>1, <2>2, <2>3, <2>4
<1>3. CASE n # 0
  <2> DEFINE step == [i \in 2..n |-> [v \in Seq(X) |-> v \o seqs[i]]]
             E(h) == h = [i \in 1..n |-> IF i = 1 THEN seqs[i] ELSE h[i - 1] \o seqs[i]]
             f == CHOOSE h : E(h)
  <2>1. \A i \in 2..n : \A v \in Seq(X) : step[i][v] = v \o seqs[i] /\ step[i][v] \in Seq(X)
    BY <1>1
  <2>2. seqs[1] \in Seq(X)
    BY <1>1, <1>3
  <2> HIDE DEF step
  <2>3. \E g \in [1..n -> Seq(X)] : IsComputed(g, n, seqs[1], step)
    <3>1. \A i \in 2..n : \A v \in Seq(X) : step[i][v] \in Seq(X)
      BY <2>1
    <3>2. n \in Nat
      OBVIOUS
    <3> HIDE DEF n
    <3> QED
      BY <2>2, <3>1, <3>2, RowExists, Zenon
  <2>4. PICK g \in [1..n -> Seq(X)] :
               \A i \in 1..n : g[i] = IF i = 1 THEN seqs[1] ELSE step[i][g[i - 1]]
    BY <2>3 DEF IsComputed
  <2>5. E(g)
    <3>1. \A i \in 2..n : i - 1 \in 1..n /\ g[i - 1] \in Seq(X)
      <4> HIDE DEF n
      <4> QED
        BY <1>1
    <3>2. ASSUME NEW i \in 1..n
          PROVE  g[i] = IF i = 1 THEN seqs[i] ELSE g[i - 1] \o seqs[i]
      <4>1. CASE i = 1
        BY <2>4, <4>1
      <4>2. CASE i # 1
        <5>1. i \in 2..n
          BY <4>2
        <5> QED
          BY <2>1, <2>4, <3>1, <4>2, <5>1
      <4> QED
        BY <4>1, <4>2
    <3> QED
      BY <3>2
  <2>6. E(f)
    BY <2>5
  <2>7. FlattenSeq(seqs) = f[n]
    BY <1>3 DEF FlattenSeq
  <2> HIDE DEF f
  <2>8. \A i \in 1..n : f[i] = IF i = 1 THEN seqs[i] ELSE f[i - 1] \o seqs[i]
    BY <2>6
  <2> HIDE DEF E
  <2> DEFINE Done(i) == f[i] \in Seq(X) /\ Range(f[i]) = UNION {Range(seqs[j]) : j \in 1..i}
             S == {k \in 0..n : k = 0 \/ Done(k)}
  <2>9. 0 \in S
    OBVIOUS
  <2>10. ASSUME NEW k \in 0..(n - 1), k \in S PROVE k + 1 \in S
    <3>1. CASE k = 0
      <4>1. 1 \in 1..n /\ f[1] = seqs[1] /\ {seqs[j] : j \in 1..1} = {seqs[1]} /\ 1..1 = {1}
        BY <2>8, <1>3, <1>1
      <4>2. UNION {Range(seqs[j]) : j \in 1..1} = Range(seqs[1])
        BY <4>1
      <4>3. Done(1)
        BY <2>2, <4>1, <4>2
      <4> HIDE DEF Done
      <4> QED
        BY <3>1, <4>3, <4>1
    <3>2. CASE k # 0
      <4>1. k + 1 \in 1..n /\ k + 1 # 1 /\ k + 1 - 1 = k /\ k \in Nat
        BY <3>2
      <4>2. Done(k)
        <5> HIDE DEF Done
        <5> QED
          BY <2>10, <3>2
      <4>3. f[k + 1] = f[k] \o seqs[k + 1] /\ seqs[k + 1] \in Seq(X)
        <5>1. f[k + 1] = f[k] \o seqs[k + 1]
          <6> DEFINE J(i, j) == f[j] \o seqs[i]
          <6> HIDE DEF n
          <6>1. \A i \in 1..n : i # 1 => f[i] = J(i, i - 1)
            BY <2>8
          <6> HIDE DEF J
          <6>2. f[k + 1] = J(k + 1, k + 1 - 1)
            BY <4>1, <6>1
          <6>3. f[k + 1] = J(k + 1, k)
            BY <4>1, <6>2, Zenon
          <6> QED
            BY <6>3 DEF J
        <5> QED
          BY <1>1, <4>1, <5>1, Zenon
      <4>4. f[k + 1] \in Seq(X) /\ Range(f[k + 1]) = Range(f[k]) \cup Range(seqs[k + 1])
        BY <4>2, <4>3, RangeOfConcatenation
      <4>5. UNION {Range(seqs[j]) : j \in 1..(k + 1)}
              = (UNION {Range(seqs[j]) : j \in 1..k}) \cup Range(seqs[k + 1])
        <5> DEFINE R(j) == Range(seqs[j])
        <5>1. 1..(k + 1) = (1..k) \cup {k + 1}
          BY <4>1
        <5> HIDE DEF R
        <5>2. UNION {R(j) : j \in (1..k) \cup {k + 1}} = (UNION {R(j) : j \in 1..k}) \cup R(k + 1)
          OBVIOUS
        <5> QED
          BY <5>1, <5>2 DEF R
      <4>6. Done(k + 1)
        BY <4>2, <4>4, <4>5
      <4> HIDE DEF Done
      <4> HIDE DEF n, f
      <4>7. k + 1 \in 0..n
        BY <4>1
      <4> QED
        BY <4>6, <4>7
    <3> QED
      BY <3>1, <3>2
  <2> HIDE DEF S
  <2>11. \A k \in 0..n : k \in S
    <3>1. n \in Nat
      OBVIOUS
    <3> HIDE DEF n
    <3> QED
      BY <2>9, <2>10, <3>1, UpTo
  <2>12. Done(n)
    <3>1. n \in 0..n
      BY <1>1
    <3>2. n \in S
      BY <2>11, <3>1, Zenon
    <3> HIDE DEF Done
    <3> QED
      BY <1>3, <3>2 DEF S
  <2> QED
    BY <1>1, <2>7, <2>12
<1> QED
  BY <1>2, <1>3
-----------------------------------------------------------------------------
(* The points of a block, in their order *)

IsPair(p) == p.space \in Nat /\ p.time \in Nat

\* In any set of points there is one that is before no other.
LEMMA LastPoint ==
  ASSUME NEW U, IsFiniteSet(U), U # {}, \A p \in U : IsPair(p)
  PROVE  \E g \in U : \A p \in U : ~Before(g, p)
<1> DEFINE Has(s) == \E g \in s : \A p \in s : ~Before(g, p)
           C == {s \in SUBSET U : s # {} /\ ~Has(s)}
<1>1. \A p, q, r \in U : ~Before(p, q) /\ ~Before(q, r) => ~Before(p, r)
  BY DEF Before, IsPair
<1>2. \A p, q \in U : ~Before(p, p) /\ (Before(p, q) => ~Before(q, p))
  BY DEF Before, IsPair
<1> SUFFICES ASSUME C # {} PROVE FALSE
  <2>1. U \notin C
    OBVIOUS
  <2> QED
    BY <2>1
<1>3. PICK s \in C : \A x \in s : s \ {x} \notin C
  <2>1. C \in SUBSET (SUBSET U)
    OBVIOUS
  <2> HIDE DEF C
  <2> QED
    BY <2>1, MinimalSet, Zenon
<1>4. PICK x \in s : TRUE
  OBVIOUS
<1>5. s \in SUBSET U /\ x \in U /\ ~Has(s)
  OBVIOUS
<1>6. CASE s \ {x} = {}
  <2>1. \A p \in s : p = x
    BY <1>6
  <2>2. Has(s)
    BY <1>2, <1>4, <1>5, <2>1
  <2> QED
    BY <1>5, <2>2
<1>7. CASE s \ {x} # {}
  <2>1. Has(s \ {x})
    BY <1>3, <1>4, <1>5, <1>7
  <2>2. PICK g \in s \ {x} : \A p \in s \ {x} : ~Before(g, p)
    BY <2>1
  <2>3. CASE Before(g, x)
    <3>1. \A p \in s : ~Before(x, p)
      <4> SUFFICES ASSUME NEW p \in s PROVE ~Before(x, p)
        OBVIOUS
      <4>1. CASE p = x
        BY <1>2, <1>5, <4>1
      <4>2. CASE p # x
        BY <1>1, <1>2, <1>5, <2>2, <2>3, <4>2
      <4> QED
        BY <4>1, <4>2
    <3> QED
      BY <1>4, <1>5, <3>1
  <2>4. CASE ~Before(g, x)
    <3>1. \A p \in s : ~Before(g, p)
      BY <2>2, <2>4
    <3> QED
      BY <1>5, <2>2, <3>1
  <2> QED
    BY <2>3, <2>4
<1> QED
  BY <1>6, <1>7

Arranged(s, S) ==
  /\ s \in [1..Cardinality(S) -> S]
  /\ \A i, j \in 1..Cardinality(S) : i # j => s[i] # s[j]
  /\ \A i, j \in 1..Cardinality(S) : i < j => ~Before(s[j], s[i])

\* A set of points can be put in order.
LEMMA ArrangedExists ==
  ASSUME NEW U, IsFiniteSet(U), \A p \in U : IsPair(p)
  PROVE  \E s : Arranged(s, U)
<1> DEFINE Can(S) == \E s : Arranged(s, S)
           C == {S \in SUBSET U : ~Can(S)}
<1> SUFFICES ASSUME C # {} PROVE FALSE
  <2>1. U \notin C => Can(U)
    OBVIOUS
  <2> HIDE DEF C
  <2> QED
    BY <2>1
<1>1. PICK S \in C : \A x \in S : S \ {x} \notin C
  <2>1. C \in SUBSET (SUBSET U)
    OBVIOUS
  <2> HIDE DEF C
  <2> QED
    BY <2>1, MinimalSet, Zenon
<1>2. S \in SUBSET U /\ ~Can(S)
  OBVIOUS
<1>3. IsFiniteSet(S) /\ \A p \in S : IsPair(p)
  BY <1>2, FS_Subset
<1>4. CASE S = {}
  <2>1. Cardinality(S) = 0
    BY <1>4, FS_EmptySet
  <2>2. Arranged([i \in 1..0 |-> 0], S)
    BY <2>1 DEF Arranged
  <2> QED
    BY <1>2, <2>2
<1>5. CASE S # {}
  <2>1. PICK g \in S : \A p \in S : ~Before(g, p)
    <3>1. \E g \in S : \A p \in S : ~Before(g, p)
      BY <1>3, <1>5, LastPoint
    <3> QED
      BY <3>1
  <2>2. PICK s : Arranged(s, S \ {g})
    BY <1>1, <1>2, <2>1
  <2> DEFINE c == Cardinality(S)
  <2>3. c \in Nat \ {0} /\ Cardinality(S \ {g}) = c - 1
    <3>1. c \in Nat /\ c # 0
      BY <1>3, <1>5, FS_CardinalityType, FS_EmptySet
    <3>2. Cardinality(S \ {g}) = c - 1
      BY <1>3, <2>1, FS_RemoveElement
    <3> QED
      BY <3>1, <3>2
  <2> HIDE DEF c
  <2>4. /\ s \in [1..(c - 1) -> S \ {g}]
        /\ \A i, j \in 1..(c - 1) : i # j => s[i] # s[j]
        /\ \A i, j \in 1..(c - 1) : i < j => ~Before(s[j], s[i])
    BY <2>2, <2>3 DEF Arranged
  <2> DEFINE t == [i \in 1..c |-> IF i = c THEN g ELSE s[i]]
  <2>5. /\ t[c] = g /\ \A i \in 1..(c - 1) : t[i] = s[i] /\ s[i] \in S /\ s[i] # g
        /\ \A i \in 1..c : i = c \/ i \in 1..(c - 1)
        /\ DOMAIN t = 1..c
    BY <2>3, <2>4
  <2>6. t \in [1..c -> S]
    BY <2>1, <2>3, <2>4
  <2> HIDE DEF t
  <2>7. \A i, j \in 1..c : i # j => t[i] # t[j]
    <3> SUFFICES ASSUME NEW i \in 1..c, NEW j \in 1..c, i # j PROVE t[i] # t[j]
      OBVIOUS
    <3> QED
      BY <2>4, <2>5
  <2>8. \A i, j \in 1..c : i < j => ~Before(t[j], t[i])
    <3> SUFFICES ASSUME NEW i \in 1..c, NEW j \in 1..c, i < j PROVE ~Before(t[j], t[i])
      OBVIOUS
    <3>1. i \in 1..(c - 1)
      BY <2>3
    <3>2. CASE j = c
      BY <2>1, <2>5, <3>1, <3>2
    <3>3. CASE j \in 1..(c - 1)
      BY <2>4, <2>5, <3>1, <3>3
    <3> QED
      BY <2>5, <3>2, <3>3
  <2>9. Arranged(t, S)
    BY <2>6, <2>7, <2>8 DEF Arranged, c
  <2> QED
    BY <1>2, <2>9
<1> QED
  BY <1>4, <1>5

\* In order, they are all there.
LEMMA ArrangedCovers ==
  ASSUME NEW S, IsFiniteSet(S), NEW s, Arranged(s, S)
  PROVE  \A p \in S : \E i \in 1..Cardinality(S) : s[i] = p
<1> DEFINE c == Cardinality(S)
<1>1. c \in Nat
  BY FS_CardinalityType
<1>2. IsFiniteSet(1..c) /\ Cardinality(1..c) = c
  <2> HIDE DEF c
  <2>1. 0 \in Int /\ c \in Int /\ 1 \in Int
    BY <1>1
  <2>2. IsFiniteSet(1..c) /\ Cardinality(1..c) = IF 1 > c THEN 0 ELSE c - 1 + 1
    BY <2>1, FS_Interval
  <2> QED
    BY <1>1, <2>2
<1>3. s \in Injection(1..c, S)
  BY DEF Arranged, Injection, IsInjective
<1> HIDE DEF c
<1>4. s \in Surjection(1..c, S)
  BY <1>2, <1>3, FS_Injection DEF c
<1> QED
  BY <1>4 DEF Surjection, c
-----------------------------------------------------------------------------
(* The buffer of append_lambdas *)

Same(p, q) == p.id = q.id /\ p.type = q.type /\ p.space = q.space /\ p.time = q.time

Flat == [num |-> 0, den |-> 1]

\* The buffer begins with the first point and holds points that were passed.
Kept(buf, P, first) ==
  /\ buf \in Seq(Point) /\ Len(buf) >= 1 /\ buf[1] = first
  /\ \A i \in 1..Len(buf) : \E p \in P : Same(buf[i], p)

\* Where the loop over the buffer ends.
EndsAt(buf, cur, k) ==
  /\ k \in 1..Len(buf) /\ StopsAt(buf[k], cur)
  /\ \A i \in (k + 1)..Len(buf) : ~StopsAt(buf[i], cur)

\* What a point is made of.
LEMMA PointIs ==
  ASSUME NEW p \in Point
  PROVE  /\ p.space \in Nat /\ p.time \in Nat /\ p.id \in Blocks /\ p.type \in Types
         /\ p.lambda.num \in Int /\ p.lambda.den \in Int
         /\ p.lambda = [num |-> p.lambda.num, den |-> p.lambda.den]
BY DEF Point

\* The loop over the buffer ends, for the first point stops it.
LEMMA EndExists ==
  ASSUME NEW P, NEW first \in Point, first.lambda = Flat, NEW buf, Kept(buf, P, first),
         NEW cur \in Point, cur.space >= first.space
  PROVE  EndsAt(buf, cur, Max({i \in DOMAIN buf : StopsAt(buf[i], cur)}))
<1> DEFINE m == Len(buf)
           S == {i \in DOMAIN buf : StopsAt(buf[i], cur)}
<1>1. m \in Nat /\ m >= 1 /\ DOMAIN buf = 1..m
  BY DEF Kept
<1>2. StopsAt(buf[1], cur)
  <2>1. buf[1] = first /\ first.lambda.num = 0 /\ first.lambda.den = 1
    BY DEF Kept, Flat
  <2>2. cur.space \in Nat /\ cur.time \in Nat /\ first.space \in Nat /\ first.time \in Nat
    BY PointIs
  <2>3. LambdaFrom(first, cur).num = cur.space - first.space
    BY DEF LambdaFrom
  <2>4. LambdaFrom(first, cur).den = first.time - cur.time
    BY DEF LambdaFrom
  <2>5. ~Less(LambdaFrom(first, cur), first.lambda)
    BY <2>1, <2>2, <2>3, <2>4 DEF Less
  <2> QED
    BY <2>1, <2>5 DEF StopsAt
<1>3. S \in SUBSET (0..m) /\ S # {}
  BY <1>1, <1>2
<1>4. Max(S) = CHOOSE x \in S : \A y \in S : x >= y
  BY DEF Max
<1>5. \A i \in S : i \in 1..m /\ StopsAt(buf[i], cur)
  BY <1>1
<1>6. \A i \in 1..m : StopsAt(buf[i], cur) => i \in S
  BY <1>1
<1> HIDE DEF S, m
<1>7. \E x \in S : \A y \in S : x >= y
  BY <1>1, <1>3, GreatestElement
<1>8. Max(S) \in S /\ \A y \in S : Max(S) >= y
  BY <1>4, <1>7
<1> DEFINE k == Max(S)
<1>9. k \in 1..m /\ StopsAt(buf[k], cur)
  BY <1>5, <1>8
<1>10. \A y \in S : k >= y
  BY <1>8
<1> HIDE DEF k
<1>11. ASSUME NEW i \in (k + 1)..m PROVE ~StopsAt(buf[i], cur)
  <2>1. i \in 1..m /\ ~(k >= i)
    BY <1>1, <1>9
  <2> QED
    BY <1>6, <1>10, <2>1
<1>12. EndsAt(buf, cur, k)
  BY <1>9, <1>11 DEF EndsAt, m
<1> QED
  BY <1>12 DEF k, S

\* A point goes behind those that are kept, or is left out.
LEMMA AppendedIs ==
  ASSUME NEW P, NEW first \in Point, first.lambda = Flat, NEW buf, Kept(buf, P, first),
         NEW cur \in Point, cur.space >= first.space
  PROVE  LET r == Appended(buf, cur) IN
         \E k \in 1..Len(buf) :
           /\ EndsAt(buf, cur, k)
           /\ r \in Seq(Point)
           /\ \A i \in 1..k : r[i] = buf[i]
           /\ IF cur.time >= buf[k].time THEN Len(r) = k
              ELSE /\ Len(r) = k + 1
                   /\ r[k + 1].lambda = LambdaFrom(buf[k], cur)
                   /\ Same(r[k + 1], cur)
<1> DEFINE k == Max({i \in DOMAIN buf : StopsAt(buf[i], cur)})
           kept == SubSeq(buf, 1, k)
           new == [cur EXCEPT !.lambda = LambdaFrom(buf[k], cur)]
           r == IF cur.time >= buf[k].time THEN kept ELSE Append(kept, new)
<1>1. EndsAt(buf, cur, k)
  BY EndExists
<1>2. Appended(buf, cur) = r
  BY DEF Appended
<1> HIDE DEF k
<1>3. k \in 1..Len(buf) /\ buf \in Seq(Point) /\ Len(buf) \in Nat /\ buf[k] \in Point
  BY <1>1 DEF EndsAt, Kept
<1>4. kept \in Seq(Point) /\ Len(kept) = k /\ \A i \in 1..k : kept[i] = buf[i]
  <2>1. 1 \in 1..(Len(buf) + 1) /\ k \in 0..Len(buf) /\ 1 \in Nat /\ k \in Nat
    BY <1>3
  <2> QED
    BY <1>3, <2>1, SubSeqProperties
<1>5. new \in Point /\ new.lambda = LambdaFrom(buf[k], cur) /\ Same(new, cur)
  <2>1. /\ cur.space \in Nat /\ cur.time \in Nat
        /\ buf[k].space \in Nat /\ buf[k].time \in Nat
    BY <1>3, PointIs
  <2>2. LambdaFrom(buf[k], cur) \in [num : Int, den : Int]
    BY <2>1 DEF LambdaFrom
  <2> DEFINE L == LambdaFrom(buf[k], cur)
  <2> HIDE DEF L
  <2>3. L \in [num : Int, den : Int] => new \in Point /\ new.lambda = L /\ Same(new, cur)
    BY DEF Point, Same, L
  <2> QED
    BY <2>2, <2>3 DEF L
<1> HIDE DEF kept, new
<1>6. CASE cur.time >= buf[k].time
  <2>1. r = kept
    BY <1>6
  <2> QED
    BY <1>1, <1>2, <1>3, <1>4, <1>6, <2>1
<1>7. CASE ~(cur.time >= buf[k].time)
  <2>1. r = Append(kept, new)
    BY <1>7
  <2>2. /\ r \in Seq(Point) /\ Len(r) = k + 1 /\ r[k + 1] = new
        /\ \A i \in 1..k : r[i] = kept[i]
    <3>1. k \in Nat
      BY <1>3
    <3> QED
      BY <1>4, <1>5, <2>1, <3>1, AppendProperties
  <2> HIDE DEF r
  <2> QED
    BY <1>1, <1>2, <1>3, <1>4, <1>5, <1>7, <2>2
<1> QED
  BY <1>6, <1>7

\* What is known of the buffer stays true of it with one point more.
LEMMA StaysKept ==
  ASSUME NEW P, NEW first \in Point, first.lambda = Flat, NEW buf, Kept(buf, P, first),
         NEW cur \in Point, cur.space >= first.space
  PROVE  Kept(Appended(buf, cur), P \cup {cur}, first)
<1> DEFINE r == Appended(buf, cur)
<1>1. PICK k \in 1..Len(buf) :
           /\ r \in Seq(Point)
           /\ \A i \in 1..k : r[i] = buf[i]
           /\ \/ Len(r) = k
              \/ Len(r) = k + 1 /\ Same(r[k + 1], cur)
  BY AppendedIs
<1> HIDE DEF r
<1>2. Len(buf) \in Nat /\ k \in Nat /\ Len(r) >= 1 /\ r[1] = first
  BY <1>1 DEF Kept
<1>3. ASSUME NEW i \in 1..Len(r) PROVE \E p \in P \cup {cur} : Same(r[i], p)
  <2>1. CASE i \in 1..k
    BY <1>1, <1>2, <2>1 DEF Kept
  <2>2. CASE i = k + 1
    BY <1>1, <1>2, <2>2
  <2> QED
    BY <1>1, <1>2, <2>1, <2>2
<1> QED
  BY <1>1, <1>2, <1>3 DEF Kept, r
-----------------------------------------------------------------------------
(* Slopes *)

LEMMA ProductSign ==
  ASSUME NEW a \in Int, NEW b \in Int, a > 0
  PROVE  /\ a * b >= 0 => b >= 0
         /\ a * b > 0 => b > 0
         /\ b >= 0 => a * b >= 0
         /\ b > 0 => a * b > 0
<1>1. a * b \in Int
  OBVIOUS
<1>2. b >= 0 => a * b >= 0
  OBVIOUS
<1>3. b > 0 => a * b > 0
  OBVIOUS
<1>4. b < 0 => a * b < 0
  <2>1. a * (-b) = -(a * b)
    OBVIOUS
  <2>2. -b > 0 => a * (-b) > 0
    OBVIOUS
  <2> QED
    BY <1>1, <2>1, <2>2
<1>5. b = 0 => a * b = 0
  OBVIOUS
<1> QED
  BY <1>1, <1>2, <1>3, <1>4, <1>5

\* The way from one number to another over a third one.
LEMMA DifferenceOver ==
  \A x, y, z \in Int : x - y \in Int /\ x - z = (x - y) + (y - z)
OBVIOUS

\* A point on or above a line is on or above a line through the same corner
\* that is turned to it: upwards for a point that takes more time, downwards
\* for one that takes less.
LEMMA Turned ==
  ASSUME NEW ds \in Int, NEW dt \in Int, NEW n1 \in Int, NEW d1 \in Int,
         NEW n2 \in Int, NEW d2 \in Int, d1 > 0, d2 > 0,
         ds * d1 + dt * n1 >= 0
  PROVE  /\ dt * (n2 * d1 - n1 * d2) >= 0 => ds * d2 + dt * n2 >= 0
         /\ dt * (n2 * d1 - n1 * d2) > 0 => ds * d2 + dt * n2 > 0
<1> DEFINE X == ds * d1 + dt * n1
           Y == dt * (n2 * d1 - n1 * d2)
           Z == ds * d2 + dt * n2
<1>1. X \in Int /\ Y \in Int /\ Z \in Int
  OBVIOUS
<1>2. d1 * Z = d2 * X + Y
  OBVIOUS
<1>3. d2 * X >= 0
  <2> HIDE DEF X
  <2> QED
    BY <1>1, ProductSign DEF X
<1>4. /\ d1 * Z >= 0 => Z >= 0
      /\ d1 * Z > 0 => Z > 0
  <2> HIDE DEF Z
  <2> QED
    BY <1>1, ProductSign
<1>5. d1 * Z \in Int /\ d2 * X \in Int
  OBVIOUS
<1>6. /\ Y >= 0 => Z >= 0
      /\ Y > 0 => Z > 0
  <2> HIDE DEF X, Y, Z
  <2> QED
    BY <1>1, <1>2, <1>3, <1>4, <1>5
<1> QED
  BY <1>6

\* Numbers of one sign have a product that is not negative.
LEMMA SignOfProduct ==
  ASSUME NEW a \in Int, NEW b \in Int
  PROVE  /\ (a >= 0 /\ b >= 0) \/ (a <= 0 /\ b <= 0) => a * b >= 0
         /\ (a > 0 /\ b > 0) \/ (a < 0 /\ b < 0) => a * b > 0
<1>1. a * b = (-a) * (-b) /\ a * b \in Int
  OBVIOUS
<1>2. \A x, y \in Int : (x >= 0 /\ y >= 0 => x * y >= 0) /\ (x > 0 /\ y > 0 => x * y > 0)
  OBVIOUS
<1>3. -a \in Int /\ -b \in Int
  OBVIOUS
<1>4. /\ a >= 0 /\ b >= 0 => a * b >= 0
      /\ a > 0 /\ b > 0 => a * b > 0
  BY <1>2
<1>5. /\ -a >= 0 /\ -b >= 0 => (-a) * (-b) >= 0
      /\ -a > 0 /\ -b > 0 => (-a) * (-b) > 0
  BY <1>2, <1>3
<1> DEFINE ab == a * b
           mm == (-a) * (-b)
<1>6. ab = mm /\ ab \in Int /\ (a >= 0 /\ b >= 0 => ab >= 0) /\ (a > 0 /\ b > 0 => ab > 0)
      /\ (-a >= 0 /\ -b >= 0 => mm >= 0) /\ (-a > 0 /\ -b > 0 => mm > 0)
  BY <1>1, <1>4, <1>5
<1> HIDE DEF ab, mm
<1>7. /\ (a >= 0 /\ b >= 0) \/ (a <= 0 /\ b <= 0) => ab >= 0
      /\ (a > 0 /\ b > 0) \/ (a < 0 /\ b < 0) => ab > 0
  BY <1>6
<1> QED
  BY <1>7 DEF ab

\* A slope that is no less than one that is no less than a third one.
LEMMA SlopesChain ==
  ASSUME NEW n1 \in Int, NEW d1 \in Int, NEW n2 \in Int, NEW d2 \in Int,
         NEW n3 \in Int, NEW d3 \in Int, d1 > 0, d2 > 0, d3 > 0,
         n1 * d2 <= n2 * d1, n2 * d3 <= n3 * d2
  PROVE  n1 * d3 <= n3 * d1
<1> DEFINE A == n2 * d1 - n1 * d2
           B == n3 * d2 - n2 * d3
           C == n3 * d1 - n1 * d3
<1>1. A \in Int /\ B \in Int /\ C \in Int /\ A >= 0 /\ B >= 0
  OBVIOUS
<1>2. d2 * C = d3 * A + d1 * B
  OBVIOUS
<1>3. d3 * A >= 0 /\ d1 * B >= 0 /\ (d2 * C >= 0 => C >= 0)
  <2> HIDE DEF A, B, C
  <2> QED
    BY <1>1, ProductSign
<1>4. d2 * C \in Int /\ d3 * A \in Int /\ d1 * B \in Int
  OBVIOUS
<1>5. C >= 0
  <2> HIDE DEF A, B, C
  <2> QED
    BY <1>1, <1>2, <1>3, <1>4
<1> QED
  BY <1>5
-----------------------------------------------------------------------------
(* The frontier of a block *)

Lift(p, b, lam) == (p.space - b.space) * lam.den + (p.time - b.time) * lam.num

\* The lines of the buffer rise less and less steeply and lie below all points
\* that were passed, of which those on a line are in the buffer.
Frontier(buf, P) ==
  /\ \A i \in 1..Len(buf) : buf[i].lambda.num >= 0 /\ buf[i].lambda.den > 0
  /\ \A i \in 1..Len(buf) : \A p \in P : Lift(p, buf[i], buf[i].lambda) >= 0
  /\ \A p \in P : p.time >= buf[Len(buf)].time
  /\ \A i \in 2..Len(buf) : /\ buf[i].lambda = LambdaFrom(buf[i - 1], buf[i])
                            /\ buf[i].lambda.num > 0
                            /\ ~Less(buf[i].lambda, buf[i - 1].lambda)
  /\ \A i \in 2..Len(buf) : \A p \in P :
       p.time < buf[i - 1].time /\ p.time > buf[i].time => Lift(p, buf[i], buf[i].lambda) > 0

\* Each line is steeper than those before, and each point faster.
LEMMA FrontierBends ==
  ASSUME NEW P, NEW buf \in Seq(Point), Frontier(buf, P),
         NEW i \in 1..Len(buf), NEW j \in i..Len(buf)
  PROVE  /\ buf[j].time <= buf[i].time /\ (i < j => buf[j].time < buf[i].time)
         /\ ~Less(buf[j].lambda, buf[i].lambda)
<1> DEFINE Bends(x) == /\ buf[x].time <= buf[i].time /\ (i < x => buf[x].time < buf[i].time)
                       /\ ~Less(buf[x].lambda, buf[i].lambda)
           S == {d \in 0..(j - i) : Bends(i + d)}
<1>1. Len(buf) \in Nat /\ i \in Nat /\ j \in Nat /\ i >= 1 /\ j <= Len(buf) /\ j - i \in Nat
  OBVIOUS
<1>2. \A x \in 1..Len(buf) : /\ buf[x].time \in Nat /\ buf[x].space \in Nat
                            /\ buf[x].lambda.num \in Int /\ buf[x].lambda.den \in Int
                            /\ buf[x].lambda.den > 0
  <2> SUFFICES ASSUME NEW x \in 1..Len(buf)
               PROVE  /\ buf[x].time \in Nat /\ buf[x].space \in Nat
                      /\ buf[x].lambda.num \in Int /\ buf[x].lambda.den \in Int
                      /\ buf[x].lambda.den > 0
    OBVIOUS
  <2>1. buf[x] \in Point
    OBVIOUS
  <2>2. buf[x].lambda.den > 0
    BY DEF Frontier
  <2> QED
    BY <2>1, <2>2, PointIs
<1>3. 0 \in S
  <2>1. Bends(i)
    BY <1>1, <1>2 DEF Less
  <2> HIDE DEF Bends
  <2>2. i + 0 = i /\ 0 \in 0..(j - i)
    BY <1>1
  <2> QED
    BY <2>1, <2>2
<1>4. ASSUME NEW d \in 0..(j - i - 1), d \in S PROVE d + 1 \in S
  <2> DEFINE x == i + d
             y == i + d + 1
  <2>1. x \in 1..Len(buf) /\ y \in 2..Len(buf) /\ y \in 1..Len(buf) /\ y - 1 = x /\ i < y
    BY <1>1
  <2>2. Bends(x)
    <3> HIDE DEF Bends
    <3> QED
      BY <1>4
  <2> HIDE DEF x, y
  <2>3. /\ buf[y].lambda = LambdaFrom(buf[x], buf[y])
        /\ ~Less(buf[y].lambda, buf[x].lambda)
    BY <2>1 DEF Frontier
  <2>4. buf[y].time < buf[x].time
    BY <1>2, <2>1, <2>3 DEF LambdaFrom
  <2>5. buf[y].time < buf[i].time
    <3>1. buf[x].time <= buf[i].time
      BY <2>2
    <3>2. buf[x].time \in Nat /\ buf[y].time \in Nat /\ buf[i].time \in Nat
      BY <1>2, <2>1
    <3> QED
      BY <2>4, <3>1, <3>2
  <2>6. ~Less(buf[y].lambda, buf[i].lambda)
    <3> DEFINE n1 == buf[i].lambda.num
               d1 == buf[i].lambda.den
               n2 == buf[x].lambda.num
               d2 == buf[x].lambda.den
               n3 == buf[y].lambda.num
               d3 == buf[y].lambda.den
    <3>1. /\ n1 \in Int /\ d1 \in Int /\ d1 > 0 /\ n2 \in Int /\ d2 \in Int /\ d2 > 0
          /\ n3 \in Int /\ d3 \in Int /\ d3 > 0
      BY <1>2, <2>1
    <3>2. ~(n2 * d1 < n1 * d2) /\ ~(n3 * d2 < n2 * d3)
      BY <2>2, <2>3 DEF Less
    <3> HIDE DEF n1, d1, n2, d2, n3, d3
    <3>3. n1 * d2 <= n2 * d1 /\ n2 * d3 <= n3 * d2
      BY <3>1, <3>2
    <3>4. n1 * d3 <= n3 * d1
      BY <3>1, <3>3, SlopesChain
    <3>5. ~(n3 * d1 < n1 * d3)
      BY <3>1, <3>4
    <3> QED
      BY <3>5 DEF Less, n1, d1, n3, d3
  <2>7. Bends(y)
    BY <1>2, <2>1, <2>5, <2>6
  <2> HIDE DEF Bends
  <2> QED
    BY <1>1, <2>7 DEF y
<1> HIDE DEF S
<1>5. \A d \in 0..(j - i) : d \in S
  <2>1. \A d \in 0..(j - i - 1) : d \in S => d + 1 \in S
    BY <1>4
  <2> QED
    BY <1>1, <1>3, <2>1, UpTo
<1>6. j - i \in S
  BY <1>1, <1>5
<1>7. Bends(i + (j - i)) /\ i + (j - i) = j
  BY <1>1, <1>6 DEF S
<1> QED
  BY <1>7

\* The way over another point.
LEMMA LiftOver ==
  ASSUME NEW p, NEW q, NEW b, NEW lam, IsPair(p), IsPair(q), IsPair(b),
         lam.num \in Int, lam.den \in Int
  PROVE  /\ Lift(p, b, lam) \in Int
         /\ Lift(p, b, lam) = Lift(q, b, lam) + Lift(p, q, lam)
BY DEF Lift, IsPair

\* What is slower and takes more space is above.
LEMMA LiftOfDominated ==
  ASSUME NEW p, NEW b, NEW lam, IsPair(p), IsPair(b),
         lam.num \in Int, lam.den \in Int, lam.num >= 0, lam.den > 0,
         p.space >= b.space, p.time >= b.time
  PROVE  /\ Lift(p, b, lam) >= 0
         /\ lam.num > 0 /\ p.time > b.time => Lift(p, b, lam) > 0
<1> DEFINE ds == p.space - b.space
           dt == p.time - b.time
<1>1. ds \in Int /\ dt \in Int /\ ds >= 0 /\ dt >= 0
  BY DEF IsPair
<1>2. ds * lam.den >= 0 /\ dt * lam.num >= 0
  <2> HIDE DEF ds, dt
  <2> QED
    BY <1>1, SignOfProduct
<1>3. lam.num > 0 /\ dt > 0 => dt * lam.num > 0
  <2> HIDE DEF ds, dt
  <2> QED
    BY <1>1, SignOfProduct
<1>4. ds * lam.den \in Int /\ dt * lam.num \in Int
  <2> HIDE DEF ds, dt
  <2> QED
    BY <1>1
<1>5. Lift(p, b, lam) = ds * lam.den + dt * lam.num
  BY DEF Lift
<1>6. p.time > b.time => dt > 0
  BY DEF IsPair
<1> HIDE DEF ds, dt
<1> QED
  BY <1>2, <1>3, <1>4, <1>5, <1>6

\* What is known of the points of the buffer and of the next one.
LEMMA NextPoint ==
  ASSUME NEW P \in SUBSET Point, NEW first \in Point, NEW buf, Kept(buf, P, first),
         Frontier(buf, P), NEW cur \in Point, \A p \in P : ~Before(cur, p)
  PROVE  /\ Len(buf) \in Nat /\ buf \in Seq(Point)
         /\ \A p \in P : IsPair(p)
         /\ \A i \in 1..Len(buf) :
              /\ IsPair(buf[i]) /\ buf[i] \in Point
              /\ cur.space >= buf[i].space
              /\ cur.space = buf[i].space => cur.time >= buf[i].time
              /\ buf[i].lambda.num \in Int /\ buf[i].lambda.den \in Int
              /\ buf[i].lambda.num >= 0 /\ buf[i].lambda.den > 0
              /\ \A j \in 1..Len(buf) : Lift(buf[j], buf[i], buf[i].lambda) >= 0
<1>1. Len(buf) \in Nat /\ buf \in Seq(Point)
  BY DEF Kept
<1>2. \A p \in P : IsPair(p)
  BY PointIs DEF IsPair
<1>3. ASSUME NEW i \in 1..Len(buf)
      PROVE  /\ IsPair(buf[i]) /\ buf[i] \in Point
             /\ cur.space >= buf[i].space
             /\ cur.space = buf[i].space => cur.time >= buf[i].time
             /\ buf[i].lambda.num \in Int /\ buf[i].lambda.den \in Int
             /\ buf[i].lambda.num >= 0 /\ buf[i].lambda.den > 0
  <2>1. PICK p \in P : Same(buf[i], p)
    BY DEF Kept
  <2>2. buf[i] \in Point /\ p \in Point
    BY <1>1
  <2>3. /\ p.space \in Nat /\ p.time \in Nat /\ cur.space \in Nat /\ cur.time \in Nat
        /\ ~(cur.space < p.space) /\ ~(cur.space = p.space /\ cur.time < p.time)
    BY <2>2, PointIs DEF Before
  <2>4. buf[i].space = p.space /\ buf[i].time = p.time
    BY <2>1 DEF Same
  <2>5. buf[i].lambda.num >= 0 /\ buf[i].lambda.den > 0
    BY DEF Frontier
  <2>6. buf[i].lambda.num \in Int /\ buf[i].lambda.den \in Int
    BY <2>2, PointIs
  <2> QED
    BY <2>2, <2>3, <2>4, <2>5, <2>6 DEF IsPair
<1>4. ASSUME NEW i \in 1..Len(buf), NEW j \in 1..Len(buf)
      PROVE  Lift(buf[j], buf[i], buf[i].lambda) >= 0
  <2>1. PICK p \in P : Same(buf[j], p)
    BY DEF Kept
  <2>2. Lift(p, buf[i], buf[i].lambda) >= 0
    BY DEF Frontier
  <2> QED
    BY <2>1, <2>2 DEF Same, Lift
<1> QED
  BY <1>1, <1>2, <1>3, <1>4

\* A point that is left out lies above the lines.
LEMMA LeftOut ==
  ASSUME NEW P \in SUBSET Point, NEW first \in Point, NEW buf, Kept(buf, P, first),
         Frontier(buf, P), NEW cur \in Point, \A p \in P : ~Before(cur, p),
         cur.time >= buf[Len(buf)].time
  PROVE  Frontier(buf, P \cup {cur})
<1> DEFINE m == Len(buf)
<1>1. /\ m \in Nat /\ m >= 1 /\ m \in 1..m /\ IsPair(cur)
      /\ \A i \in 1..m :
           /\ IsPair(buf[i])
           /\ cur.space >= buf[i].space
           /\ buf[i].lambda.num \in Int /\ buf[i].lambda.den \in Int
           /\ buf[i].lambda.num >= 0 /\ buf[i].lambda.den > 0
           /\ Lift(buf[m], buf[i], buf[i].lambda) >= 0
  <2>1. m \in Nat /\ m >= 1
    BY DEF Kept
  <2>2. m \in 1..m
    BY <2>1
  <2>3. IsPair(cur)
    BY PointIs DEF IsPair
  <2> QED
    BY <2>1, <2>2, <2>3, NextPoint
<1>2. ASSUME NEW i \in 1..m PROVE Lift(cur, buf[i], buf[i].lambda) >= 0
  <2>1. Lift(cur, buf[m], buf[i].lambda) >= 0
    BY <1>1, LiftOfDominated
  <2>2. /\ Lift(cur, buf[i], buf[i].lambda)
             = Lift(buf[m], buf[i], buf[i].lambda) + Lift(cur, buf[m], buf[i].lambda)
        /\ Lift(buf[m], buf[i], buf[i].lambda) \in Int
        /\ Lift(cur, buf[m], buf[i].lambda) \in Int
    BY <1>1, LiftOver
  <2>3. Lift(buf[m], buf[i], buf[i].lambda) >= 0
    BY <1>1
  <2> QED
    BY <2>1, <2>2, <2>3
<1>3. ASSUME NEW i \in 2..m, cur.time > buf[i].time
      PROVE  Lift(cur, buf[i], buf[i].lambda) > 0
  <2>1. i \in 1..m /\ buf[i].lambda.num > 0
    BY <1>1 DEF Frontier
  <2>2. cur.time >= buf[i].time
    BY <1>1, <1>3, <2>1 DEF IsPair
  <2> QED
    BY <1>1, <1>3, <2>1, <2>2, LiftOfDominated
<1> QED
  BY <1>2, <1>3 DEF Frontier

\* A point that goes behind those that are kept makes a frontier with them.
LEMMA GoesBehind ==
  ASSUME NEW P \in SUBSET Point, NEW first \in Point, NEW buf, Kept(buf, P, first),
         Frontier(buf, P), NEW cur \in Point, \A p \in P : ~Before(cur, p),
         ~heuristic_greedy,
         NEW k \in 1..Len(buf), EndsAt(buf, cur, k), cur.time < buf[k].time,
         NEW r \in Seq(Point), Len(r) = k + 1, \A i \in 1..k : r[i] = buf[i],
         r[k + 1].lambda = LambdaFrom(buf[k], cur), Same(r[k + 1], cur)
  PROVE  Frontier(r, P \cup {cur})
<1> DEFINE m == Len(buf)
           N0 == cur.space - buf[k].space
           D0 == buf[k].time - cur.time
           lam == LambdaFrom(buf[k], cur)
<1>1. /\ m \in Nat /\ k \in 1..m /\ k \in Nat /\ IsPair(cur) /\ m \in 1..m
      /\ \A p \in P : IsPair(p)
      /\ \A i \in 1..m :
           /\ IsPair(buf[i])
           /\ cur.space >= buf[i].space
           /\ cur.space = buf[i].space => cur.time >= buf[i].time
           /\ buf[i].lambda.num \in Int /\ buf[i].lambda.den \in Int
           /\ buf[i].lambda.num >= 0 /\ buf[i].lambda.den > 0
           /\ \A j \in 1..m : Lift(buf[j], buf[i], buf[i].lambda) >= 0
  <2>1. m \in Nat
    BY DEF Kept
  <2>2. k \in 1..m /\ m \in 1..m /\ k \in Nat
    BY <2>1
  <2>3. IsPair(cur)
    BY PointIs DEF IsPair
  <2> QED
    BY <2>1, <2>2, <2>3, NextPoint
<1>2. /\ lam.num = N0 /\ lam.den = D0 /\ N0 \in Int /\ D0 \in Int /\ N0 > 0 /\ D0 > 0
  <2>1. /\ cur.space \in Nat /\ cur.time \in Nat /\ buf[k].space \in Nat /\ buf[k].time \in Nat
        /\ cur.space >= buf[k].space
        /\ cur.space = buf[k].space => cur.time >= buf[k].time
    BY <1>1 DEF IsPair
  <2> QED
    BY <2>1 DEF LambdaFrom
<1>3. ~Less(lam, buf[k].lambda)
  <2>1. StopsAt(buf[k], cur)
    BY DEF EndsAt
  <2>2. ~(cur.time >= buf[k].time)
    BY <1>1 DEF IsPair
  <2> QED
    BY <2>1, <2>2 DEF StopsAt
<1>4. \A i \in (k + 1)..m : cur.time < buf[i].time /\ Less(LambdaFrom(buf[i], cur), buf[i].lambda)
  <2> SUFFICES ASSUME NEW i \in (k + 1)..m
               PROVE  cur.time < buf[i].time /\ Less(LambdaFrom(buf[i], cur), buf[i].lambda)
    OBVIOUS
  <2>1. ~StopsAt(buf[i], cur)
    BY DEF EndsAt
  <2>2. i \in 1..m
    BY <1>1
  <2>3. cur.time \in Nat /\ buf[i].time \in Nat
    BY <1>1, <2>2 DEF IsPair
  <2> QED
    BY <2>1, <2>3 DEF StopsAt
<1> HIDE DEF N0, D0, lam, m
<1>5. ASSUME NEW p \in P
      PROVE  /\ Lift(p, buf[k], lam) \in Int
             /\ Lift(p, buf[k], lam) >= 0
             /\ p.time < buf[k].time => Lift(p, buf[k], lam) > 0
  <2> DEFINE ds == p.space - buf[k].space
             dt == p.time - buf[k].time
  <2>1. /\ ds \in Int /\ dt \in Int
        /\ (p.time >= buf[k].time <=> dt >= 0) /\ (p.time < buf[k].time <=> dt < 0)
    BY <1>1 DEF IsPair
  <2>2. Lift(p, buf[k], lam) = ds * D0 + dt * N0
    BY <1>2 DEF Lift
  <2> HIDE DEF ds, dt
  <2>3. CASE dt >= 0
    <3> DEFINE n1 == buf[k].lambda.num
               d1 == buf[k].lambda.den
    <3>1. n1 \in Int /\ d1 \in Int /\ d1 > 0
      BY <1>1
    <3>2. ds * d1 + dt * n1 >= 0
      <4>1. Lift(p, buf[k], buf[k].lambda) >= 0
        BY <1>1 DEF Frontier, m
      <4> QED
        BY <4>1 DEF Lift, ds, dt
    <3>3. ~(N0 * d1 < n1 * D0)
      BY <1>2, <1>3 DEF Less
    <3> HIDE DEF n1, d1
    <3>4. N0 * d1 - n1 * D0 >= 0 /\ N0 * d1 - n1 * D0 \in Int
      BY <1>2, <3>1, <3>3
    <3>5. dt * (N0 * d1 - n1 * D0) >= 0
      BY <2>1, <2>3, <3>4, SignOfProduct
    <3>6. ds * D0 + dt * N0 >= 0
      BY <1>2, <2>1, <3>1, <3>2, <3>5, Turned
    <3>7. ds * D0 + dt * N0 \in Int
      BY <1>2, <2>1
    <3> QED
      BY <2>1, <2>2, <2>3, <3>6, <3>7
  <2>4. CASE dt < 0
    <3>1. k < m
      <4>1. p.time >= buf[m].time
        BY DEF Frontier, m
      <4>2. k # m
        BY <1>1, <2>1, <2>4, <4>1 DEF IsPair
      <4> QED
        BY <1>1, <4>2
    <3> DEFINE b == buf[k + 1]
               n1 == b.lambda.num
               d1 == b.lambda.den
    <3>2. k + 1 \in 2..m /\ k + 1 - 1 = k /\ k + 1 \in 1..m /\ k + 1 \in (k + 1)..m
      BY <1>1, <3>1
    <3>3. b.lambda = LambdaFrom(buf[k], b) /\ Lift(p, b, b.lambda) >= 0
      BY <3>2 DEF Frontier, m
    <3>4. cur.time < b.time /\ Less(LambdaFrom(b, cur), b.lambda)
      BY <1>4, <3>2
    <3>5. IsPair(b) /\ n1 \in Int /\ d1 \in Int /\ d1 > 0
      BY <1>1, <3>2
    <3> HIDE DEF b
    <3>6. n1 = b.space - buf[k].space /\ d1 = buf[k].time - b.time
      BY <3>3 DEF LambdaFrom
    <3>7. ds * d1 + dt * n1 >= 0
      <4>1. /\ b.space \in Int /\ b.time \in Int /\ buf[k].space \in Int /\ buf[k].time \in Int
            /\ p.space \in Int /\ p.time \in Int
        <5>1. IsPair(buf[k]) /\ IsPair(p) /\ IsPair(b)
          BY <1>1, <3>5, Zenon
        <5> QED
          BY <5>1 DEF IsPair
      <4>2. (p.space - b.space) * d1 + (p.time - b.time) * n1 >= 0
        BY <3>3 DEF Lift
      <4>3. p.space - b.space = ds - n1 /\ p.time - b.time = dt + d1
        BY <3>6, <4>1 DEF ds, dt
      <4>4. (ds - n1) * d1 + (dt + d1) * n1 = ds * d1 + dt * n1
        BY <2>1, <3>5
      <4> QED
        BY <4>2, <4>3, <4>4
    <3>8. N0 * d1 < n1 * D0
      <4> DEFINE es == cur.space - b.space
                 et == b.time - cur.time
      <4>1. es * d1 < n1 * et
        BY <3>4 DEF Less, LambdaFrom
      <4>2. es \in Int /\ et \in Int /\ N0 = es + n1 /\ D0 = et + d1
        <5> HIDE DEF n1, d1
        <5>1. IsPair(buf[k]) /\ IsPair(cur) /\ IsPair(b)
          BY <1>1, <3>5, Zenon
        <5>2. /\ cur.space \in Int /\ cur.time \in Int /\ b.space \in Int /\ b.time \in Int
              /\ buf[k].space \in Int /\ buf[k].time \in Int
          BY <5>1 DEF IsPair
        <5>4. N0 = es + (b.space - buf[k].space)
          <6> DEFINE x == cur.space
                     y == b.space
                     z == buf[k].space
          <6>1. x \in Int /\ y \in Int /\ z \in Int
            BY <5>2
          <6> HIDE DEF x, y, z
          <6>2. x - z = (x - y) + (y - z)
            BY <6>1
          <6> QED
            BY <6>2 DEF N0, x, y, z
        <5>8. es \in Int
          BY <5>2, DifferenceOver, Zenon
        <5>5. D0 = (buf[k].time - b.time) + et
          BY <5>2, DifferenceOver, Zenon DEF D0
        <5>7. et \in Int
          BY <5>2, DifferenceOver, Zenon
        <5>6. buf[k].time - b.time \in Int
          BY <5>2, DifferenceOver, Zenon
        <5> HIDE DEF es, et
        <5> QED
          BY <3>6, <5>4, <5>5, <5>6, <5>7, <5>8
      <4> HIDE DEF es, et, n1, d1
      <4>3. (es + n1) * d1 = es * d1 + n1 * d1 /\ n1 * (et + d1) = n1 * et + n1 * d1
        BY <3>5, <4>2
      <4>4. es * d1 \in Int /\ n1 * et \in Int /\ n1 * d1 \in Int
        BY <3>5, <4>2
      <4> QED
        BY <4>1, <4>2, <4>3, <4>4
    <3> HIDE DEF n1, d1
    <3>9. N0 * d1 - n1 * D0 < 0 /\ N0 * d1 - n1 * D0 \in Int
      BY <1>2, <3>5, <3>8
    <3>10. dt * (N0 * d1 - n1 * D0) > 0
      BY <2>1, <2>4, <3>9, SignOfProduct
    <3>11. ds * D0 + dt * N0 > 0
      BY <1>2, <2>1, <3>5, <3>7, <3>10, Turned
    <3>12. ds * D0 + dt * N0 \in Int
      BY <1>2, <2>1
    <3> QED
      BY <2>2, <3>11, <3>12
  <2> QED
    BY <2>1, <2>3, <2>4
<1>6. ASSUME NEW p \in P
      PROVE  /\ Lift(p, r[k + 1], lam) >= 0
             /\ p.time < buf[k].time => Lift(p, r[k + 1], lam) > 0
  <2>1. Lift(p, r[k + 1], lam) = Lift(p, cur, lam)
    BY DEF Same, Lift
  <2>2. /\ Lift(p, buf[k], lam) = Lift(cur, buf[k], lam) + Lift(p, cur, lam)
        /\ Lift(p, cur, lam) \in Int
    BY <1>1, <1>2, LiftOver
  <2>3. Lift(cur, buf[k], lam) = 0
    <3>1. cur.time - buf[k].time = -D0
      BY <1>1 DEF IsPair, D0
    <3>2. Lift(cur, buf[k], lam) = N0 * D0 + (-D0) * N0
      BY <1>2, <3>1 DEF Lift, N0
    <3> QED
      BY <1>2, <3>2
  <2> QED
    BY <1>5, <2>1, <2>2, <2>3
<1>7. ASSUME NEW i \in 1..k PROVE Lift(cur, buf[i], buf[i].lambda) >= 0
  <2> DEFINE n1 == buf[i].lambda.num
             d1 == buf[i].lambda.den
             n2 == buf[k].lambda.num
             d2 == buf[k].lambda.den
  <2>1. i \in 1..m /\ k \in i..m
    BY <1>1
  <2>2. n1 \in Int /\ d1 \in Int /\ d1 > 0 /\ n2 \in Int /\ d2 \in Int /\ d2 > 0
    BY <1>1, <2>1
  <2>3. ~Less(buf[k].lambda, buf[i].lambda)
    <3>1. buf \in Seq(Point)
      BY DEF Kept
    <3> QED
      BY <2>1, <3>1, FrontierBends DEF m
  <2>4. ~(n2 * d1 < n1 * d2) /\ ~(N0 * d2 < n2 * D0)
    BY <1>2, <1>3, <2>3 DEF Less
  <2> HIDE DEF n1, d1, n2, d2
  <2>5. n1 * d2 <= n2 * d1 /\ n2 * D0 <= N0 * d2
    BY <1>2, <2>2, <2>4
  <2>6. n1 * D0 <= N0 * d1
    BY <1>2, <2>2, <2>5, SlopesChain
  <2>7. Lift(cur, buf[k], buf[i].lambda) >= 0 /\ Lift(cur, buf[k], buf[i].lambda) \in Int
    <3>1. cur.time - buf[k].time = -D0
      BY <1>1 DEF IsPair, D0
    <3>2. Lift(cur, buf[k], buf[i].lambda) = N0 * d1 + (-D0) * n1
      BY <3>1 DEF Lift, N0, n1, d1
    <3>3. (-D0) * n1 = -(n1 * D0) /\ N0 * d1 \in Int /\ n1 * D0 \in Int
      BY <1>2, <2>2
    <3> QED
      BY <2>6, <3>2, <3>3
  <2>8. /\ Lift(cur, buf[i], buf[i].lambda)
             = Lift(buf[k], buf[i], buf[i].lambda) + Lift(cur, buf[k], buf[i].lambda)
        /\ Lift(buf[k], buf[i], buf[i].lambda) \in Int
    <3>1. /\ IsPair(cur) /\ IsPair(buf[k]) /\ IsPair(buf[i])
          /\ buf[i].lambda.num \in Int /\ buf[i].lambda.den \in Int
      BY <1>1, <2>1, Zenon
    <3>2. Lift(cur, buf[i], buf[i].lambda)
            = Lift(buf[k], buf[i], buf[i].lambda) + Lift(cur, buf[k], buf[i].lambda)
      BY <3>1, LiftOver
    <3>3. Lift(buf[k], buf[i], buf[i].lambda) \in Int
      BY <3>1, LiftOver
    <3> QED
      BY <3>2, <3>3
  <2>9. Lift(buf[k], buf[i], buf[i].lambda) >= 0
    BY <1>1, <2>1
  <2> QED
    BY <2>7, <2>8, <2>9
<1>8. ASSUME NEW p \in P PROVE p.time >= cur.time
  <2>1. p.time >= buf[m].time
    BY DEF Frontier, m
  <2>2. buf[m].time >= cur.time
    <3>1. IsPair(buf[m]) /\ IsPair(cur)
      BY <1>1
    <3>2. CASE m = k
      BY <3>1, <3>2 DEF IsPair
    <3>3. CASE m # k
      <4>1. m \in (k + 1)..m
        BY <1>1, <3>3
      <4> QED
        BY <1>4, <3>1, <4>1 DEF IsPair
    <3> QED
      BY <3>2, <3>3
  <2>3. IsPair(buf[m]) /\ IsPair(cur) /\ IsPair(p)
    BY <1>1
  <2> QED
    BY <2>1, <2>2, <2>3 DEF IsPair
<1> DEFINE new == r[k + 1]
<1>9. /\ new.lambda = lam /\ new.space = cur.space /\ new.time = cur.time /\ r[Len(r)] = new
  BY DEF Same, lam
<1>10. /\ \A i \in 1..(k + 1) : i \in 1..k \/ i = k + 1
       /\ \A i \in 2..(k + 1) : (i \in 2..k /\ i - 1 \in 1..k) \/ (i = k + 1 /\ i - 1 = k)
       /\ k \in 1..k /\ \A i \in 1..k : i \in 1..m
       /\ \A i \in 2..k : i \in 2..m /\ i - 1 \in 1..m
  BY <1>1
<1>11. r[k] = buf[k] /\ \A i \in 2..k : r[i] = buf[i] /\ r[i - 1] = buf[i - 1]
  BY <1>10
<1> DEFINE Q == P \cup {cur}
<1>12. \A i \in 1..Len(r) : r[i].lambda.num >= 0 /\ r[i].lambda.den > 0
  <2> SUFFICES ASSUME NEW i \in 1..(k + 1) PROVE r[i].lambda.num >= 0 /\ r[i].lambda.den > 0
    OBVIOUS
  <2>1. CASE i \in 1..k
    <3>1. r[i] = buf[i] /\ i \in 1..m
      BY <1>10, <2>1
    <3> QED
      BY <1>1, <3>1
  <2>2. CASE i = k + 1
    BY <1>2, <1>9, <2>2
  <2> QED
    BY <1>10, <2>1, <2>2
<1>13. \A i \in 1..Len(r) : \A p \in Q : Lift(p, r[i], r[i].lambda) >= 0
  <2> SUFFICES ASSUME NEW i \in 1..(k + 1), NEW p \in Q PROVE Lift(p, r[i], r[i].lambda) >= 0
    OBVIOUS
  <2>1. CASE i \in 1..k
    <3>1. r[i] = buf[i] /\ i \in 1..m
      BY <1>10, <2>1
    <3>2. CASE p \in P
      BY <3>1, <3>2 DEF Frontier, m
    <3>3. CASE p = cur
      BY <1>7, <2>1, <3>1, <3>3
    <3> QED
      BY <3>2, <3>3
  <2>2. CASE i = k + 1
    <3>1. CASE p \in P
      BY <1>6, <1>9, <2>2, <3>1
    <3>2. CASE p = cur
      <4>1. Lift(p, r[i], r[i].lambda) = (cur.space - cur.space) * D0 + (cur.time - cur.time) * N0
        BY <1>2, <1>9, <2>2, <3>2 DEF Lift
      <4>2. cur.space - cur.space = 0 /\ cur.time - cur.time = 0
        BY <1>1 DEF IsPair
      <4> QED
        BY <1>2, <4>1, <4>2
    <3> QED
      BY <3>1, <3>2
  <2> QED
    BY <1>10, <2>1, <2>2
<1>14. \A p \in Q : p.time >= r[Len(r)].time
  <2>1. cur.time >= cur.time
    BY <1>1 DEF IsPair
  <2> QED
    BY <1>8, <1>9, <2>1
<1>15. \A i \in 2..Len(r) : /\ r[i].lambda = LambdaFrom(r[i - 1], r[i])
                            /\ r[i].lambda.num > 0
                            /\ ~Less(r[i].lambda, r[i - 1].lambda)
  <2> SUFFICES ASSUME NEW i \in 2..(k + 1)
               PROVE  /\ r[i].lambda = LambdaFrom(r[i - 1], r[i])
                      /\ r[i].lambda.num > 0
                      /\ ~Less(r[i].lambda, r[i - 1].lambda)
    OBVIOUS
  <2>1. CASE i \in 2..k
    <3>1. r[i] = buf[i] /\ r[i - 1] = buf[i - 1] /\ i \in 2..m
      BY <1>10, <1>11, <2>1
    <3> QED
      BY <3>1 DEF Frontier, m
  <2>2. CASE i = k + 1 /\ i - 1 = k
    <3>1. r[i] = new /\ r[i - 1] = buf[k]
      BY <1>11, <2>2
    <3>2. LambdaFrom(buf[k], new) = lam
      BY <1>9 DEF LambdaFrom, lam
    <3> HIDE DEF new
    <3> QED
      BY <1>2, <1>3, <1>9, <3>1, <3>2
  <2> QED
    BY <1>10, <2>1, <2>2
<1>16. \A i \in 2..Len(r) : \A p \in Q :
         p.time < r[i - 1].time /\ p.time > r[i].time => Lift(p, r[i], r[i].lambda) > 0
  <2> SUFFICES ASSUME NEW i \in 2..(k + 1), NEW p \in Q,
                      p.time < r[i - 1].time, p.time > r[i].time
               PROVE  Lift(p, r[i], r[i].lambda) > 0
    OBVIOUS
  <2>1. CASE i \in 2..k
    <3>1. r[i] = buf[i] /\ r[i - 1] = buf[i - 1] /\ i \in 2..m /\ i \in 1..m /\ k \in i..m
      BY <1>1, <1>10, <1>11, <2>1
    <3>2. CASE p \in P
      BY <3>1, <3>2 DEF Frontier, m
    <3>3. CASE p = cur
      <4>1. buf[k].time <= buf[i].time
        <5>1. buf \in Seq(Point)
          BY DEF Kept
        <5> QED
          BY <3>1, <5>1, FrontierBends DEF m
      <4>2. IsPair(buf[k]) /\ IsPair(buf[i]) /\ IsPair(cur)
        BY <1>1, <3>1
      <4>3. cur.time > buf[i].time
        BY <3>1, <3>3
      <4>4. /\ cur.time \in Nat /\ buf[k].time \in Nat /\ buf[i].time \in Nat
            /\ cur.time < buf[k].time
        BY <4>2 DEF IsPair
      <4> QED
        BY <4>1, <4>3, <4>4
    <3> QED
      BY <3>2, <3>3
  <2>2. CASE i = k + 1 /\ i - 1 = k
    <3>1. r[i] = new /\ r[i - 1] = buf[k]
      BY <1>11, <2>2
    <3>2. CASE p \in P
      BY <1>6, <1>9, <3>1, <3>2
    <3>3. CASE p = cur
      BY <1>1, <1>9, <3>1, <3>3 DEF IsPair
    <3> QED
      BY <3>2, <3>3
  <2> QED
    BY <1>10, <2>1, <2>2
<1> HIDE DEF Q
<1>17. Frontier(r, Q)
  BY <1>12, <1>13, <1>14, <1>15, <1>16 DEF Frontier
<1> QED
  BY <1>17 DEF Q

\* Each point that is passed leaves a frontier of the points passed.
LEMMA FrontierGrows ==
  ASSUME NEW P \in SUBSET Point, NEW first \in Point, first.lambda = Flat,
         NEW buf, Kept(buf, P, first), Frontier(buf, P),
         NEW cur \in Point, \A p \in P : ~Before(cur, p),
         cur.space >= first.space, ~heuristic_greedy
  PROVE  Frontier(Appended(buf, cur), P \cup {cur})
<1> DEFINE r == Appended(buf, cur)
           m == Len(buf)
<1>1. PICK k \in 1..m :
           /\ EndsAt(buf, cur, k)
           /\ r \in Seq(Point)
           /\ \A i \in 1..k : r[i] = buf[i]
           /\ IF cur.time >= buf[k].time THEN Len(r) = k
              ELSE /\ Len(r) = k + 1
                   /\ r[k + 1].lambda = LambdaFrom(buf[k], cur)
                   /\ Same(r[k + 1], cur)
  BY AppendedIs
<1>2. /\ m \in Nat /\ buf \in Seq(Point) /\ IsPair(cur)
      /\ \A i \in 1..m : IsPair(buf[i])
  <2>1. IsPair(cur)
    BY PointIs DEF IsPair
  <2> QED
    BY <2>1, NextPoint
<1> HIDE DEF r
<1>3. CASE cur.time >= buf[k].time
  <2>1. k = m
    <3> SUFFICES ASSUME k # m PROVE FALSE
      OBVIOUS
    <3>1. m \in (k + 1)..m /\ m \in k..m /\ k < m /\ m \in 1..m
      BY <1>2
    <3>2. ~StopsAt(buf[m], cur)
      BY <1>1, <3>1 DEF EndsAt
    <3>3. ~(cur.time >= buf[m].time)
      BY <3>2 DEF StopsAt
    <3>4. buf[m].time < buf[k].time
      BY <1>2, <3>1, FrontierBends
    <3>5. cur.time \in Nat /\ buf[m].time \in Nat /\ buf[k].time \in Nat
      BY <1>2, <3>1 DEF IsPair
    <3> QED
      BY <1>3, <3>3, <3>4, <3>5
  <2>2. r = buf
    <3>1. Len(r) = m /\ DOMAIN r = 1..m /\ DOMAIN buf = 1..m
      BY <1>1, <1>2, <1>3, <2>1
    <3> QED
      BY <1>1, <1>2, <2>1, <3>1, SeqEqual
  <2>3. cur.time >= buf[Len(buf)].time
    BY <1>3, <2>1
  <2>4. Frontier(buf, P \cup {cur})
    BY <2>3, LeftOut
  <2> QED
    BY <2>2, <2>4 DEF r
<1>4. CASE ~(cur.time >= buf[k].time)
  <2>1. cur.time < buf[k].time
    BY <1>2, <1>4 DEF IsPair
  <2>2. Frontier(r, P \cup {cur})
    BY <1>1, <1>4, <2>1, GoesBehind
  <2> QED
    BY <2>2 DEF r
<1> QED
  BY <1>3, <1>4

\* The first point alone is a frontier.
LEMMA FrontierBegins ==
  ASSUME NEW first \in Point, first.lambda = Flat
  PROVE  Kept(<<first>>, {first}, first) /\ Frontier(<<first>>, {first})
<1> DEFINE buf == <<first>>
<1>1. buf \in Seq(Point) /\ Len(buf) = 1 /\ buf[1] = first
  OBVIOUS
<1>2. IsPair(first) /\ first.lambda.num = 0 /\ first.lambda.den = 1
  BY PointIs DEF IsPair, Flat
<1>3. Same(first, first) /\ Lift(first, first, first.lambda) >= 0 /\ first.time >= first.time
  BY <1>2 DEF Same, Lift, IsPair
<1> HIDE DEF buf
<1>4. \A i \in 1..1 : i = 1
  OBVIOUS
<1>5. 2..1 = {}
  OBVIOUS
<1>6. Kept(buf, {first}, first)
  BY <1>1, <1>3, <1>4 DEF Kept
<1>7. Frontier(buf, {first})
  BY <1>1, <1>2, <1>3, <1>4, <1>5 DEF Frontier
<1> QED
  BY <1>6, <1>7 DEF buf

\* append_lambdas begins with the first point of the block, and unless it is
\* told to be greedy, makes the frontier of all of them.
LEMMA PointsOfBlock ==
  ASSUME NEW sts \in SUBSET Point, IsFiniteSet(sts), sts # {},
         \A p \in sts : p.lambda = Flat
  PROVE  /\ \E first \in sts : Kept(append_lambdas(sts), sts, first)
         /\ ~heuristic_greedy => Frontier(append_lambdas(sts), sts)
<1> DEFINE sorted == CHOOSE s \in SetToSeqs(sts) :
                       \A i, j \in DOMAIN s : i < j => ~Before(s[j], s[i])
           c == Cardinality(sts)
<1>1. \A p \in sts : IsPair(p)
  BY PointIs DEF IsPair
<1>2. c \in Nat /\ c >= 1
  BY FS_CardinalityType, FS_EmptySet
<1>3. Arranged(sorted, sts)
  <2>1. \E s : Arranged(s, sts)
    BY <1>1, ArrangedExists
  <2>2. \A s : Arranged(s, sts) <=>
              s \in SetToSeqs(sts) /\ \A i, j \in DOMAIN s : i < j => ~Before(s[j], s[i])
    BY DEF Arranged, SetToSeqs
  <2> QED
    BY <2>1, <2>2
<1> DEFINE E(h) == h = [k \in DOMAIN sorted |->
                          IF k = 1 THEN <<sorted[1]>> ELSE Appended(h[k - 1], sorted[k])]
           buf == CHOOSE h : E(h)
<1>4. append_lambdas(sts) = buf[Len(sorted)]
  BY DEF append_lambdas
<1> HIDE DEF sorted, c
<1>5. /\ sorted \in [1..c -> sts] /\ DOMAIN sorted = 1..c /\ Len(sorted) = c
      /\ \A i, j \in 1..c : i < j => ~Before(sorted[j], sorted[i])
      /\ \A p \in sts : \E i \in 1..c : sorted[i] = p
  <2>1. /\ sorted \in [1..c -> sts] /\ DOMAIN sorted = 1..c
        /\ \A i, j \in 1..c : i < j => ~Before(sorted[j], sorted[i])
    BY <1>3 DEF Arranged, c
  <2>2. Len(sorted) = c
    BY <1>2, <2>1
  <2> QED
    BY <1>3, <2>1, <2>2, ArrangedCovers DEF c
<1> DEFINE first == sorted[1]
           Passed(k) == {sorted[i] : i \in 1..k}
           V == {b \in Seq(Point) : Kept(b, sts, first)}
           step == [i \in 2..c |-> [v \in V |-> Appended(v, sorted[i])]]
<1>6. first \in Point /\ first.lambda = Flat /\ first \in sts
  BY <1>2, <1>5
<1>7. ASSUME NEW i \in 1..c
      PROVE  sorted[i] \in Point /\ sorted[i] \in sts /\ sorted[i].space >= first.space
  <2>1. sorted[i] \in sts /\ IsPair(sorted[i]) /\ IsPair(first)
    BY <1>1, <1>2, <1>5
  <2>2. CASE i = 1
    BY <2>1, <2>2 DEF IsPair
  <2>3. CASE i # 1
    <3>1. ~Before(sorted[i], first)
      BY <1>2, <1>5, <2>3
    <3> QED
      BY <2>1, <3>1 DEF IsPair, Before
  <2> QED
    BY <2>1, <2>2, <2>3
<1> HIDE DEF first
<1>8. <<first>> \in V
  <2>1. Kept(<<first>>, {first}, first)
    BY <1>6, FrontierBegins
  <2> QED
    BY <1>6, <2>1 DEF Kept
<1>9. ASSUME NEW i \in 2..c, NEW v \in V
      PROVE  step[i][v] = Appended(v, sorted[i]) /\ step[i][v] \in V
  <2>1. step[i][v] = Appended(v, sorted[i])
    OBVIOUS
  <2>2. i \in 1..c
    BY <1>2
  <2>3. Kept(Appended(v, sorted[i]), sts \cup {sorted[i]}, first)
    BY <1>6, <1>7, <2>2, StaysKept
  <2>4. sts \cup {sorted[i]} = sts
    BY <1>7, <2>2
  <2> QED
    BY <2>1, <2>3, <2>4 DEF Kept
<1> HIDE DEF V, step
<1>10. \E h : E(h)
  <2>1. \A i \in 2..c : \A v \in V : step[i][v] \in V
    BY <1>9
  <2>2. PICK g \in [1..c -> V] : IsComputed(g, c, <<first>>, step)
    BY <1>2, <1>8, <2>1, RowExists
  <2>3. ASSUME NEW k \in 1..c
        PROVE  g[k] = IF k = 1 THEN <<sorted[1]>> ELSE Appended(g[k - 1], sorted[k])
    <3>1. CASE k = 1
      BY <2>2, <3>1 DEF IsComputed, first
    <3>2. CASE k # 1
      <4>1. k \in 2..c /\ k - 1 \in 1..c
        BY <1>2, <3>2
      <4>2. g[k] = step[k][g[k - 1]] /\ g[k - 1] \in V
        BY <2>2, <3>2, <4>1 DEF IsComputed
      <4> QED
        BY <1>9, <3>2, <4>1, <4>2
    <3> QED
      BY <3>1, <3>2
  <2>4. g = [k \in 1..c |-> IF k = 1 THEN <<sorted[1]>> ELSE Appended(g[k - 1], sorted[k])]
    BY <2>3
  <2>5. DOMAIN sorted = 1..c
    BY <1>5
  <2>6. E(g)
    BY <2>4, <2>5, Zenon
  <2> HIDE DEF E
  <2> QED
    BY <2>6
<1>11. E(buf)
  BY <1>10
<1> HIDE DEF buf
<1>12. /\ buf[1] = <<first>>
       /\ \A k \in 1..(c - 1) : buf[k + 1] = Appended(buf[k], sorted[k + 1])
  <2>1. \A k \in 1..c : buf[k] = IF k = 1 THEN <<sorted[1]>> ELSE Appended(buf[k - 1], sorted[k])
    BY <1>5, <1>11
  <2>2. 1 \in 1..c
    BY <1>2
  <2>3. ASSUME NEW k \in 1..(c - 1) PROVE buf[k + 1] = Appended(buf[k], sorted[k + 1])
    <3>1. k + 1 \in 1..c /\ k + 1 # 1 /\ k + 1 - 1 = k
      BY <1>2
    <3> QED
      BY <2>1, <3>1
  <2> QED
    BY <2>1, <2>2, <2>3 DEF first
<1> HIDE DEF E
<1> DEFINE Done(k) == /\ Kept(buf[k], Passed(k), first)
                      /\ ~heuristic_greedy => Frontier(buf[k], Passed(k))
           S == {k \in 0..c : k = 0 \/ Done(k)}
<1>13. 0 \in S
  BY <1>2
<1>14. ASSUME NEW k \in 0..(c - 1), k \in S PROVE k + 1 \in S
  <2>1. k + 1 \in 0..c /\ k + 1 \in 1..c /\ k \in Nat
    BY <1>2
  <2>2. CASE k = 0
    <3>1. 1..1 = {1}
      OBVIOUS
    <3>2. Passed(1) = {first}
      BY <3>1 DEF first
    <3>3. Done(1)
      BY <1>6, <1>12, <3>2, FrontierBegins
    <3> HIDE DEF Done
    <3>4. k + 1 = 1
      BY <2>2
    <3> QED
      BY <2>1, <3>3, <3>4
  <2>3. CASE k # 0
    <3> DEFINE P == Passed(k)
               cur == sorted[k + 1]
    <3>1. Done(k)
      <4> HIDE DEF Done
      <4> QED
        BY <1>14, <2>3
    <3>2. Passed(k + 1) = P \cup {cur}
      <4>1. 1..(k + 1) = (1..k) \cup {k + 1}
        BY <2>1
      <4> QED
        BY <4>1
    <3>3. P \in SUBSET Point
      BY <1>2, <1>7
    <3>4. \A p \in P : ~Before(cur, p)
      <4> SUFFICES ASSUME NEW i \in 1..k PROVE ~Before(sorted[k + 1], sorted[i])
        OBVIOUS
      <4>1. i \in 1..c /\ i < k + 1
        BY <1>2
      <4> QED
        BY <1>5, <2>1, <4>1
    <3>5. cur \in Point /\ cur.space >= first.space
      BY <1>7, <2>1
    <3>6. buf[k + 1] = Appended(buf[k], cur)
      BY <1>12, <2>1, <2>3
    <3> HIDE DEF P, cur
    <3>7. Kept(buf[k + 1], P \cup {cur}, first)
      BY <1>6, <3>1, <3>5, <3>6, StaysKept DEF P
    <3>8. ~heuristic_greedy => Frontier(buf[k + 1], P \cup {cur})
      BY <1>6, <3>1, <3>3, <3>4, <3>5, <3>6, FrontierGrows DEF P
    <3>9. Done(k + 1)
      BY <3>2, <3>7, <3>8 DEF P, cur
    <3> HIDE DEF Done
    <3> QED
      BY <2>1, <3>9
  <2> QED
    BY <2>2, <2>3
<1> HIDE DEF S
<1>15. \A k \in 0..c : k \in S
  BY <1>2, <1>13, <1>14, UpTo
<1>16. Done(c)
  <2>1. c \in S
    BY <1>2, <1>15
  <2> HIDE DEF Done
  <2> QED
    BY <1>2, <2>1 DEF S
<1>17. Passed(c) = sts
  BY <1>5
<1> QED
  BY <1>4, <1>5, <1>6, <1>16, <1>17
-----------------------------------------------------------------------------
(* The frontier is made of the critical points *)

\* The two ends of a line of the frontier are on it.
LEMMA OnLine ==
  ASSUME NEW P, NEW buf \in Seq(Point), Frontier(buf, P), NEW i \in 2..Len(buf)
  PROVE  /\ i \in 1..Len(buf) /\ i - 1 \in 1..Len(buf)
         /\ Lift(buf[i], buf[i - 1], buf[i].lambda) = 0
         /\ buf[i].lambda.num = buf[i].space - buf[i - 1].space
         /\ buf[i].lambda.den = buf[i - 1].time - buf[i].time
         /\ buf[i].lambda.num > 0 /\ buf[i].lambda.den > 0
         /\ buf[i].lambda.num \in Int /\ buf[i].lambda.den \in Int
<1>1. i \in 1..Len(buf) /\ i - 1 \in 1..Len(buf)
  OBVIOUS
<1> DEFINE p == buf[i]
           q == buf[i - 1]
           num == p.lambda.num
           den == p.lambda.den
<1>2. p \in Point /\ q \in Point
  BY <1>1
<1>3. p.lambda = LambdaFrom(q, p) /\ num > 0 /\ den > 0
  BY <1>1 DEF Frontier
<1> HIDE DEF p, q
<1>4. /\ p.space \in Nat /\ p.time \in Nat /\ q.space \in Nat /\ q.time \in Nat
      /\ num \in Int /\ den \in Int
  BY <1>2, PointIs
<1>5. num = p.space - q.space /\ den = q.time - p.time
  BY <1>3 DEF LambdaFrom
<1>6. Lift(p, q, p.lambda) = num * den + (p.time - q.time) * num
  BY <1>5 DEF Lift
<1>7. p.time - q.time = -den
  BY <1>4, <1>5
<1> HIDE DEF num, den
<1>8. num * den + (-den) * num = 0
  BY <1>4
<1>9. Lift(p, q, p.lambda) = 0
  BY <1>6, <1>7, <1>8
<1> QED
  BY <1>1, <1>3, <1>4, <1>5, <1>9 DEF p, q, num, den

\* Through every point of the frontier there is a line that falls to the right
\* and lies below all points.
LEMMA Supported ==
  ASSUME NEW P \in SUBSET Point, NEW first \in Point, first.lambda = Flat,
         NEW buf, Kept(buf, P, first), Frontier(buf, P), NEW i \in 1..Len(buf)
  PROVE  \E lam \in [num : Int, den : Int] :
           /\ lam.num > 0 /\ lam.den > 0
           /\ \A p \in P : Lift(p, buf[i], lam) >= 0
<1> DEFINE m == Len(buf)
<1>1. m \in Nat /\ m >= 1 /\ buf \in Seq(Point)
  BY DEF Kept
<1>2. \A j \in 1..m : buf[j] \in Point /\ buf[j].lambda \in [num : Int, den : Int]
  <2>1. \A j \in 1..m : buf[j] \in Point
    BY <1>1
  <2>2. \A p \in Point : p.lambda \in [num : Int, den : Int]
    BY DEF Point
  <2> QED
    BY <2>1, <2>2
<1>3. CASE i # 1
  <2>1. i \in 2..m
    BY <1>1, <1>3
  <2>2. buf[i].lambda.num > 0 /\ buf[i].lambda.den > 0
    BY <1>1, <2>1, OnLine
  <2>3. \A p \in P : Lift(p, buf[i], buf[i].lambda) >= 0
    BY DEF Frontier
  <2> QED
    BY <1>2, <2>2, <2>3
<1>4. CASE i = 1 /\ m # 1
  <2> DEFINE lam == buf[2].lambda
  <2>1. 2 \in 2..m /\ 2 - 1 = 1 /\ 2 \in 1..m /\ 1 \in 1..m
    <3> HIDE DEF m
    <3>1. m \in Int /\ m >= 2
      BY <1>1, <1>4
    <3> QED
      BY <3>1
  <2>2. /\ lam.num > 0 /\ lam.den > 0 /\ lam.num \in Int /\ lam.den \in Int
        /\ Lift(buf[2], buf[1], lam) = 0
    BY <1>1, <2>1, OnLine
  <2>3. \A p \in P : Lift(p, buf[2], lam) >= 0
    BY <2>1 DEF Frontier
  <2>4. IsPair(buf[1]) /\ IsPair(buf[2]) /\ \A p \in P : IsPair(p)
    <3>1. ASSUME NEW p \in Point PROVE IsPair(p)
      BY PointIs DEF IsPair
    <3>2. buf[1] \in Point /\ buf[2] \in Point
      BY <1>2, <2>1
    <3>3. IsPair(buf[1]) /\ IsPair(buf[2])
      BY <3>1, <3>2
    <3>4. ASSUME NEW p \in P PROVE IsPair(p)
      <4>1. p \in Point
        OBVIOUS
      <4> QED
        BY <3>1, <4>1
    <3> QED
      BY <3>3, <3>4
  <2> HIDE DEF lam
  <2>5. ASSUME NEW p \in P PROVE Lift(p, buf[1], lam) >= 0
    <3>0. IsPair(p) /\ IsPair(buf[1]) /\ IsPair(buf[2]) /\ lam.num \in Int /\ lam.den \in Int
      BY <2>2, <2>4
    <3>1. Lift(p, buf[1], lam) = Lift(buf[2], buf[1], lam) + Lift(p, buf[2], lam)
      BY <3>0, LiftOver
    <3>2. Lift(p, buf[2], lam) \in Int
      BY <3>0, LiftOver
    <3> QED
      BY <2>2, <2>3, <3>1, <3>2
  <2>6. lam \in [num : Int, den : Int]
    BY <1>2, <2>1 DEF lam
  <2> QED
    BY <1>4, <2>2, <2>5, <2>6
<1>5. CASE i = 1 /\ m = 1
  <2> DEFINE lam == [num |-> 1, den |-> 1]
  <2>1. lam \in [num : Int, den : Int] /\ lam.num = 1 /\ lam.den = 1
    OBVIOUS
  <2>2. buf[1] = first
    BY DEF Kept
  <2>3. ASSUME NEW p \in P PROVE Lift(p, buf[1], lam) >= 0
    <3>1. Lift(p, buf[1], buf[1].lambda) >= 0 /\ p.time >= buf[1].time
      BY <1>5 DEF Frontier
    <3>2. IsPair(p) /\ IsPair(buf[1])
      BY <2>2, PointIs DEF IsPair
    <3>3. buf[1].lambda.num = 0 /\ buf[1].lambda.den = 1
      BY <2>2 DEF Flat
    <3>4. p.space >= buf[1].space
      BY <3>1, <3>2, <3>3 DEF Lift, IsPair
    <3> HIDE DEF lam
    <3> QED
      BY <2>1, <3>1, <3>2, <3>4, LiftOfDominated
  <2> HIDE DEF lam
  <2> QED
    BY <1>5, <2>1, <2>3
<1> QED
  BY <1>3, <1>4, <1>5

\* A line through one point below two others passes below what is between them.
LEMMA Between ==
  ASSUME NEW a \in Int, NEW b \in Int, NEW x \in Int, NEW y \in Int,
         NEW num \in Int, NEW den \in Int, den > 0, x > 0, y > 0,
         a * den + x * num >= 0, b * den - y * num >= 0
  PROVE  a * y + b * x >= 0
<1> DEFINE A == a * den + x * num
           B == b * den - y * num
           C == a * y + b * x
<1>1. A \in Int /\ B \in Int /\ C \in Int
  OBVIOUS
<1>2. den * C = y * A + x * B
  OBVIOUS
<1>3. y * A >= 0 /\ x * B >= 0 /\ y * A \in Int /\ x * B \in Int /\ (den * C >= 0 => C >= 0)
  <2> HIDE DEF C
  <2>1. A >= 0 /\ B >= 0
    OBVIOUS
  <2> HIDE DEF A, B
  <2> QED
    BY <1>1, <2>1, ProductSign
<1>4. C >= 0
  <2> HIDE DEF A, B, C
  <2> QED
    BY <1>2, <1>3
<1> QED
  BY <1>4

\* A point between two others that is on no line of them, and not above it.
LEMMA NotBetween ==
  ASSUME NEW ps \in Int, NEW pt \in Int, NEW as \in Int, NEW at \in Int,
         NEW bs \in Int, NEW bt \in Int,
         (ps - as) * (at - bt) <= (bs - as) * (at - pt)
  PROVE  ~((ps - bs) * (at - bt) + (pt - bt) * (bs - as) > 0)
<1> DEFINE x == ps - bs
           d == at - bt
           y == pt - bt
           n == bs - as
           X == (x + n) * d
           Y == n * (d - y)
           Z == x * d + y * n
<1>1. x \in Int /\ d \in Int /\ y \in Int /\ n \in Int /\ ps - as = x + n /\ at - pt = d - y
  OBVIOUS
<1>3. X <= Y
  BY <1>1
<1> HIDE DEF x, d, y, n
<1>0. X \in Int /\ Y \in Int /\ Z \in Int
  BY <1>1
<1>2. Z = X - Y
  BY <1>1
<1> HIDE DEF X, Y, Z
<1>4. ~(Z > 0)
  BY <1>0, <1>2, <1>3
<1> QED
  BY <1>4 DEF Z, x, d, y, n

\* What is not above the line of two others.
LEMMA BelowLine ==
  ASSUME NEW ps \in Int, NEW pt \in Int, NEW qs \in Int, NEW qt \in Int,
         NEW rs \in Int, NEW rt \in Int,
         (qs - ps) * (pt - rt) + (rs - ps) * (qt - pt) >= 0
  PROVE  (ps - qs) * (qt - rt) <= (rs - qs) * (qt - pt)
<1> DEFINE X == (ps - qs) * (qt - rt)
           Y == (rs - qs) * (qt - pt)
           Z == (qs - ps) * (pt - rt) + (rs - ps) * (qt - pt)
<1>1. X \in Int /\ Y \in Int /\ Z \in Int
  OBVIOUS
<1>2. Z = Y - X
  OBVIOUS
<1>3. Z >= 0
  OBVIOUS
<1> HIDE DEF X, Y, Z
<1>4. X <= Y
  BY <1>1, <1>2, <1>3
<1> QED
  BY <1>4 DEF X, Y

PairsOf(P) == {<<p.space, p.time>> : p \in P}

\* A point with a line through it below all others is critical.
LEMMA SupportedIsCritical ==
  ASSUME NEW P, \A p \in P : IsPair(p), NEW b, IsPair(b), <<b.space, b.time>> \in PairsOf(P),
         NEW lam, lam.num \in Int, lam.den \in Int, lam.num > 0, lam.den > 0,
         \A p \in P : Lift(p, b, lam) >= 0
  PROVE  <<b.space, b.time>> \in Critical(PairsOf(P))
<1> DEFINE c == <<b.space, b.time>>
           sts == PairsOf(P)
<1>1. c[1] = b.space /\ c[2] = b.time /\ b.space \in Int /\ b.time \in Int
  BY DEF IsPair
<1>2. ASSUME NEW q \in sts
      PROVE  /\ q[1] \in Int /\ q[2] \in Int /\ q = <<q[1], q[2]>>
             /\ (q[1] - b.space) * lam.den + (q[2] - b.time) * lam.num >= 0
  <2>1. PICK p \in P : q = <<p.space, p.time>>
    BY DEF PairsOf
  <2>2. q[1] = p.space /\ q[2] = p.time /\ IsPair(p) /\ Lift(p, b, lam) >= 0
    BY <2>1
  <2> QED
    BY <2>1, <2>2 DEF IsPair, Lift
<1>3. ASSUME NEW q \in sts \ {c} PROVE q[1] > c[1] \/ q[2] > c[2]
  <2> SUFFICES ASSUME ~(q[1] > c[1]), ~(q[2] > c[2]) PROVE FALSE
    OBVIOUS
  <2> DEFINE x == b.space - q[1]
             y == b.time - q[2]
             dn == lam.den
             nm == lam.num
  <2>1. q[1] \in Int /\ q[2] \in Int /\ q = <<q[1], q[2]>>
        /\ (q[1] - b.space) * dn + (q[2] - b.time) * nm >= 0
    BY <1>2
  <2>2. x \in Int /\ y \in Int /\ x >= 0 /\ y >= 0
    BY <1>1, <2>1
  <2>3. x > 0 \/ y > 0
    <3>1. q[1] # b.space \/ q[2] # b.time
      BY <2>1
    <3>2. x # 0 \/ y # 0
      <4>0. /\ \A u, v \in Int : u # v => v - u # 0
            /\ q[1] \in Int /\ q[2] \in Int /\ b.space \in Int /\ b.time \in Int
        BY <1>1, <2>1
      <4>1. q[1] # b.space => x # 0
        BY <4>0
      <4>2. q[2] # b.time => y # 0
        BY <4>0
      <4> QED
        BY <3>1, <4>1, <4>2
    <3> HIDE DEF x, y
    <3> QED
      BY <2>2, <3>2
  <2>4. dn \in Int /\ nm \in Int /\ dn > 0 /\ nm > 0
    OBVIOUS
  <2>5. q[1] - b.space = -x /\ q[2] - b.time = -y
    BY <1>1, <2>1
  <2> HIDE DEF x, y, dn, nm
  <2>6. (-x) * dn + (-y) * nm >= 0
    BY <2>1, <2>5
  <2>7. x * dn >= 0 /\ y * nm >= 0 /\ (x > 0 => x * dn > 0) /\ (y > 0 => y * nm > 0)
    BY <2>2, <2>4, SignOfProduct
  <2>8. (-x) * dn + (-y) * nm = -(x * dn + y * nm) /\ x * dn \in Int /\ y * nm \in Int
    BY <2>2, <2>4
  <2> DEFINE u == x * dn
             v == y * nm
             w == (-x) * dn + (-y) * nm
  <2>9. u >= 0 /\ v >= 0 /\ (u > 0 \/ v > 0) /\ w = -(u + v) /\ u \in Int /\ v \in Int /\ w >= 0
    BY <2>3, <2>6, <2>7, <2>8
  <2> HIDE DEF u, v, w
  <2> QED
    BY <2>9
<1>4. ASSUME NEW q \in sts, NEW r \in sts, q[2] > c[2], c[2] > r[2]
      PROVE  (c[1] - q[1]) * (q[2] - r[2]) <= (r[1] - q[1]) * (q[2] - c[2])
  <2> DEFINE a == q[1] - b.space
             x == q[2] - b.time
             d == r[1] - b.space
             y == b.time - r[2]
             dn == lam.den
             nm == lam.num
  <2>1. q[1] \in Int /\ q[2] \in Int /\ a * dn + x * nm >= 0
    BY <1>2
  <2>2. r[1] \in Int /\ r[2] \in Int /\ d * dn + (r[2] - b.time) * nm >= 0
    BY <1>2
  <2>3. /\ a \in Int /\ x \in Int /\ d \in Int /\ y \in Int /\ x > 0 /\ y > 0
        /\ r[2] - b.time = -y
    BY <1>1, <1>4, <2>1, <2>2
  <2>4. dn \in Int /\ nm \in Int /\ dn > 0
    OBVIOUS
  <2>5. d * dn - y * nm >= 0
    <3> HIDE DEF a, x, d, y, dn, nm
    <3>1. d * dn + (-y) * nm = d * dn - y * nm
      BY <2>3, <2>4
    <3> QED
      BY <2>2, <2>3, <3>1
  <2>6. a * y + d * x >= 0
    <3> HIDE DEF a, x, d, y, dn, nm
    <3> QED
      BY <2>1, <2>3, <2>4, <2>5, Between
  <2>7. (q[1] - b.space) * (b.time - r[2]) + (r[1] - b.space) * (q[2] - b.time) >= 0
    BY <2>6
  <2>8. (b.space - q[1]) * (q[2] - r[2]) <= (r[1] - q[1]) * (q[2] - b.time)
    BY <1>1, <2>1, <2>2, <2>7, BelowLine
  <2> QED
    BY <1>1, <2>8
<1> HIDE DEF sts
<1> QED
  BY <1>3, <1>4 DEF Critical, sts

\* The frontier is the critical points of those it was made of.
LEMMA FrontierIsCritical ==
  ASSUME NEW P \in SUBSET Point, NEW first \in Point, first.lambda = Flat,
         NEW buf, Kept(buf, P, first), Frontier(buf, P)
  PROVE  {<<p.space, p.time>> : p \in Range(buf)} = Critical(PairsOf(P))
<1> DEFINE m == Len(buf)
           sts == PairsOf(P)
           pair(i) == <<buf[i].space, buf[i].time>>
<1>1. m \in Nat /\ m >= 1 /\ buf \in Seq(Point) /\ DOMAIN buf = 1..m
  BY DEF Kept
<1>2. \A p \in P : IsPair(p)
  BY PointIs DEF IsPair
<1>3. ASSUME NEW i \in 1..m
      PROVE  /\ buf[i] \in Point /\ IsPair(buf[i]) /\ pair(i) \in sts
             /\ pair(i)[1] = buf[i].space /\ pair(i)[2] = buf[i].time
  <2>1. buf[i] \in Point
    BY <1>1
  <2>2. IsPair(buf[i])
    BY <2>1, PointIs DEF IsPair
  <2>3. PICK p \in P : Same(buf[i], p)
    BY DEF Kept
  <2>4. pair(i) = <<p.space, p.time>>
    BY <2>3 DEF Same
  <2>5. pair(i) \in sts
    BY <2>4 DEF PairsOf
  <2> QED
    BY <2>1, <2>2, <2>5
<1>4. ASSUME NEW i \in 1..m PROVE pair(i) \in Critical(sts)
  <2>1. PICK lam \in [num : Int, den : Int] :
          /\ lam.num > 0 /\ lam.den > 0
          /\ \A p \in P : Lift(p, buf[i], lam) >= 0
    BY Supported
  <2>2. lam.num \in Int /\ lam.den \in Int
    BY <2>1
  <2>3. IsPair(buf[i]) /\ pair(i) \in sts
    BY <1>3
  <2> QED
    BY <1>2, <2>1, <2>2, <2>3, SupportedIsCritical
<1>5. ASSUME NEW c \in Critical(sts) PROVE \E i \in 1..m : c = pair(i)
  <2>1. /\ c \in sts
        /\ \A q \in sts \ {c} : q[1] > c[1] \/ q[2] > c[2]
        /\ \A q, r \in sts : q[2] > c[2] /\ c[2] > r[2] =>
             (c[1] - q[1]) * (q[2] - r[2]) <= (r[1] - q[1]) * (q[2] - c[2])
    BY DEF Critical
  <2>2. PICK p \in P : c = <<p.space, p.time>>
    BY <2>1 DEF PairsOf
  <2>3. c[1] = p.space /\ c[2] = p.time /\ IsPair(p) /\ p.space \in Nat /\ p.time \in Nat
    BY <1>2, <2>2 DEF IsPair
  <2> DEFINE S == {i \in 1..m : buf[i].time <= p.time}
  <2>4. m \in S /\ S \in SUBSET Nat
    BY <1>1 DEF Frontier
  <2>5. PICK j \in S : \A e \in S : j <= e
    <3> HIDE DEF S
    <3> QED
      BY <2>4, LeastElement
  <2>6. j \in 1..m /\ buf[j].time <= p.time
    BY <2>5
  <2>7. \A e \in 1..m : buf[e].time <= p.time => j <= e
    BY <2>5
  <2>8. /\ IsPair(buf[j]) /\ pair(j) \in sts
        /\ pair(j)[1] = buf[j].space /\ pair(j)[2] = buf[j].time
        /\ buf[j].space \in Nat /\ buf[j].time \in Nat
    BY <1>3, <2>6 DEF IsPair
  <2>9. Lift(p, buf[j], buf[j].lambda) >= 0
    BY <2>6 DEF Frontier
  <2>10. p.space >= buf[j].space => c = pair(j)
    <3> SUFFICES ASSUME p.space >= buf[j].space, c # pair(j) PROVE FALSE
      OBVIOUS
    <3>1. pair(j)[1] > c[1] \/ pair(j)[2] > c[2]
      BY <2>1, <2>8
    <3>2. buf[j].space > p.space \/ buf[j].time > p.time
      BY <2>3, <2>8, <3>1
    <3> QED
      BY <2>3, <2>6, <2>8, <3>2
  <2>11. CASE j = 1
    <3>1. buf[j].lambda.num = 0 /\ buf[j].lambda.den = 1
      BY <2>11 DEF Kept, Flat
    <3>2. p.space >= buf[j].space
      BY <2>3, <2>8, <2>9, <3>1 DEF Lift
    <3> QED
      BY <2>6, <2>10, <3>2
  <2>12. CASE j # 1
    <3>1. j \in 2..m /\ j - 1 \in 1..m
      BY <1>1, <2>6, <2>12
    <3>2. ~(buf[j - 1].time <= p.time)
      BY <2>7, <3>1
    <3>3. IsPair(buf[j - 1]) /\ pair(j - 1) \in sts
          /\ pair(j - 1)[1] = buf[j - 1].space /\ pair(j - 1)[2] = buf[j - 1].time
          /\ buf[j - 1].space \in Nat /\ buf[j - 1].time \in Nat
      BY <1>3, <3>1 DEF IsPair
    <3>4. p.time < buf[j - 1].time
      BY <2>3, <3>2, <3>3
    <3>5. /\ buf[j].lambda.num = buf[j].space - buf[j - 1].space
          /\ buf[j].lambda.den = buf[j - 1].time - buf[j].time
          /\ buf[j].lambda.num > 0 /\ buf[j].lambda.den > 0
      BY <1>1, <3>1, OnLine
    <3>6. CASE p.time = buf[j].time
      <4> DEFINE x == p.space - buf[j].space
                 d == buf[j].lambda.den
      <4>1. x \in Int /\ d \in Int /\ d > 0
        BY <2>3, <2>8, <3>3, <3>5
      <4>2. p.time - buf[j].time = 0
        BY <2>3, <3>6
      <4>3. buf[j].lambda.num \in Int /\ 0 * buf[j].lambda.num = 0
        BY <2>8, <3>3, <3>5
      <4>4. Lift(p, buf[j], buf[j].lambda) = x * d + 0
        BY <4>2, <4>3 DEF Lift
      <4>5. d * x >= 0
        <5> HIDE DEF x, d
        <5>1. d * x = x * d /\ x * d \in Int
          BY <4>1
        <5> QED
          BY <2>9, <4>4, <5>1
      <4>6. x >= 0
        <5> HIDE DEF x, d
        <5> QED
          BY <4>1, <4>5, ProductSign
      <4>7. p.space >= buf[j].space
        BY <2>3, <2>8, <4>6
      <4> QED
        BY <2>6, <2>10, <4>7
    <3>7. CASE p.time # buf[j].time
      <4>1. p.time > buf[j].time
        BY <2>3, <2>6, <2>8, <3>7
      <4>2. Lift(p, buf[j], buf[j].lambda) > 0
        BY <3>1, <3>4, <4>1 DEF Frontier
      <4>3. (p.space - buf[j].space) * (buf[j - 1].time - buf[j].time)
              + (p.time - buf[j].time) * (buf[j].space - buf[j - 1].space) > 0
        BY <3>5, <4>2 DEF Lift
      <4>4. pair(j - 1)[2] > c[2] /\ c[2] > pair(j)[2]
        BY <2>3, <2>8, <3>3, <3>4, <4>1
      <4>5. (c[1] - pair(j - 1)[1]) * (pair(j - 1)[2] - pair(j)[2])
              <= (pair(j)[1] - pair(j - 1)[1]) * (pair(j - 1)[2] - c[2])
        BY <2>1, <2>8, <3>3, <4>4
      <4>6. (p.space - buf[j - 1].space) * (buf[j - 1].time - buf[j].time)
              <= (buf[j].space - buf[j - 1].space) * (buf[j - 1].time - p.time)
        BY <2>3, <2>8, <3>3, <4>5
      <4>7. /\ p.space \in Int /\ p.time \in Int /\ buf[j].space \in Int /\ buf[j].time \in Int
            /\ buf[j - 1].space \in Int /\ buf[j - 1].time \in Int
        BY <2>3, <2>8, <3>3
      <4>8. ~((p.space - buf[j].space) * (buf[j - 1].time - buf[j].time)
              + (p.time - buf[j].time) * (buf[j].space - buf[j - 1].space) > 0)
        BY <4>6, <4>7, NotBetween
      <4> QED
        BY <4>3, <4>8
    <3> QED
      BY <3>6, <3>7
  <2> QED
    BY <2>11, <2>12
<1>6. Range(buf) = {buf[i] : i \in 1..m}
  BY <1>1 DEF Range
<1>7. Critical(sts) = {pair(i) : i \in 1..m}
  <2>1. Critical(sts) \subseteq {pair(i) : i \in 1..m}
    <3> HIDE DEF sts, m
    <3> QED
      BY <1>5
  <2>2. {pair(i) : i \in 1..m} \subseteq Critical(sts)
    <3> HIDE DEF sts, m
    <3> QED
      BY <1>4
  <2> QED
    BY <2>1, <2>2
<1>8. {<<p.space, p.time>> : p \in Range(buf)} = {pair(i) : i \in 1..m}
  <2> HIDE DEF sts, m
  <2> QED
    BY <1>6
<1> QED
  BY <1>7, <1>8
-----------------------------------------------------------------------------
(* The slots of the lists and the blocks *)

\* A list ends before a later one begins.
LEMMA BasesRise ==
  ASSUME NEW t \in Terms, NEW u \in 0..N, t < u
  PROVE  BaseOf(t + 1) <= BaseOf(u) /\ BaseOf(t) + Width[t] <= BaseOf(u)
<1>1. t \in Nat /\ t + 1 \in 0..N /\ t + 1 <= u /\ u \in Nat /\ t + 1 - 1 = t
  BY ListsAre
<1>2. /\ \A x \in 0..(u - 1) : Width[x] \in Nat
      /\ 0..t \in SUBSET (0..(u - 1))
  BY <1>1, ListsAre
<1>3. IsFiniteSet(0..(u - 1))
  BY <1>1, FS_Interval
<1>4. Total(Width, 0..t) <= Total(Width, 0..(u - 1))
  BY <1>2, <1>3, TotalGrows
<1>5. BaseOf(t + 1) <= BaseOf(u)
  BY <1>1, <1>4 DEF BaseOf
<1> QED
  BY <1>5, BasesAre

\* No two slots have the same block.
LEMMA SlotsApart ==
  ASSUME NEW t \in Terms, NEW u \in Terms, NEW s \in Slots(t), NEW r \in Slots(u),
         BaseOf(t) + s = BaseOf(u) + r
  PROVE  t = u /\ s = r
<1>1. /\ t \in Nat /\ u \in Nat /\ t \in 0..N /\ u \in 0..N
      /\ s \in 0..(Width[t] - 1) /\ r \in 0..(Width[u] - 1)
      /\ Width[t] \in Nat /\ Width[u] \in Nat
  <2>1. \A v \in Terms : v \in Nat /\ v \in 0..N /\ Width[v] \in Nat
    BY ListsAre
  <2>2. \A v \in Terms : Slots(v) = 0..(Width[v] - 1)
    BY ListsAre
  <2> QED
    BY <2>1, <2>2
<1>2. BaseOf(t) \in Nat /\ BaseOf(u) \in Nat
  BY <1>1, BasesAre
<1>3. ~(t < u)
  <2> SUFFICES ASSUME t < u PROVE FALSE
    OBVIOUS
  <2>1. BaseOf(t) + Width[t] <= BaseOf(u)
    BY <1>1, BasesRise
  <2> QED
    BY <1>1, <1>2, <2>1
<1>4. ~(u < t)
  <2> SUFFICES ASSUME u < t PROVE FALSE
    OBVIOUS
  <2>1. BaseOf(u) + Width[u] <= BaseOf(t)
    BY <1>1, BasesRise
  <2> QED
    BY <1>1, <1>2, <2>1
<1>5. t = u
  BY <1>1, <1>3, <1>4
<1> QED
  BY <1>1, <1>2, <1>5

\* Each block is that of a slot.
LEMMA SlotOfBlock ==
  ASSUME NEW id \in Blocks
  PROVE  \E t \in Terms : \E s \in Slots(t) : id = BaseOf(t) + s
<1> DEFINE S == {t \in 0..N : BaseOf(t) <= id}
<1>1. N \in Nat /\ id \in Nat /\ id < BaseOf(N) /\ BaseOf(0) = 0 /\ BaseOf(N) \in Nat
  BY ListsAre, BlocksAre
<1>2. 0 \in S /\ S \in SUBSET (0..N) /\ N \notin S
  BY <1>1
<1>3. PICK t \in S : \A u \in S : t >= u
  <2> HIDE DEF S
  <2> QED
    BY <1>1, <1>2, GreatestElement
<1>4. t \in 0..N /\ t # N /\ BaseOf(t) <= id
  BY <1>2, <1>3
<1>5. t \in Terms /\ t + 1 \in 0..N
  BY <1>1, <1>4, ListsAre
<1>6. ~(BaseOf(t + 1) <= id)
  <2>1. ~(t >= t + 1)
    BY <1>4
  <2> QED
    BY <1>3, <1>5, <2>1
<1>7. BaseOf(t + 1) = BaseOf(t) + Width[t] /\ BaseOf(t) \in Nat /\ Width[t] \in Nat
      /\ Slots(t) = 0..(Width[t] - 1)
  BY <1>4, <1>5, BasesAre, ListsAre
<1>8. id - BaseOf(t) \in Slots(t) /\ id = BaseOf(t) + (id - BaseOf(t))
  BY <1>1, <1>4, <1>6, <1>7
<1> QED
  BY <1>5, <1>8

\* The number of a slot's block, with the fold.
LEMMA IdIs ==
  ASSUME NEW t \in Terms, NEW s
  PROVE  IdOf(t, s) = BaseOf(t) + s
<1> DEFINE f == [u \in 0..(t - 1) |-> num_blocks(u)]
<1>1. t \in Nat /\ IsFiniteSet(0..(t - 1)) /\ \A u \in 0..(t - 1) : u \in Terms
  BY ListsAre, FS_Interval
<1>2. \A u \in 0..(t - 1) : f[u] \in Nat /\ Width[u] = f[u] + f[u]
  BY <1>1, ListsAre
<1>3. SumFunction(f) = Total(f, 0..(t - 1))
  <2>1. DOMAIN f = 0..(t - 1)
    OBVIOUS
  <2> HIDE DEF f
  <2> QED
    BY <2>1, SumFunctionIs
<1>4. IdOf(t, s) = 2 * SumFunction(f) + s
  BY DEF IdOf
<1> HIDE DEF f
<1>5. Total(Width, 0..(t - 1)) = Total(f, 0..(t - 1)) + Total(f, 0..(t - 1))
  <2>1. \A u \in 0..(t - 1) : f[u] \in Nat /\ f[u] \in Nat /\ Width[u] = f[u] + f[u]
    BY <1>2
  <2> QED
    BY <1>1, <2>1, TotalOfSums
<1>6. Total(f, 0..(t - 1)) \in Nat
  BY <1>1, <1>2, TotalIs
<1>7. BaseOf(t) = 2 * Total(f, 0..(t - 1))
  BY <1>5, <1>6 DEF BaseOf
<1> QED
  BY <1>3, <1>4, <1>7
-----------------------------------------------------------------------------
(* The points of a list *)

\* A point of a codec of its block.
IsCoded(p) == /\ p.type \in DOMAIN codings[p.id]
              /\ p.space = codings[p.id][p.type].space

\* What compute_space_time makes of a block.
LEMMA CodedPoints ==
  ASSUME codings \in Codings, NEW term, NEW slot, NEW id \in Blocks, NEW count \in Nat
  PROVE  LET sts == compute_space_time(term, slot, id, count) IN
         /\ sts \in SUBSET Point /\ IsFiniteSet(sts) /\ sts # {}
         /\ \A p \in sts : p.lambda = Flat /\ p.id = id /\ IsCoded(p)
<1> DEFINE sts == compute_space_time(term, slot, id, count)
           T == IF IsFull(term, slot) THEN DOMAIN codings[id] ELSE {"interpolative"}
           time(t) == IF IsFull(term, slot) THEN codings[id][t].time * count ELSE 0
           pt(t) == [id |-> id, lambda |-> [num |-> 0, den |-> 1], type |-> t,
                     space |-> codings[id][t].space, time |-> time(t)]
<1>1. /\ "interpolative" \in DOMAIN codings[id]
      /\ IsFiniteSet(DOMAIN codings[id])
      /\ \A t \in DOMAIN codings[id] :
           codings[id][t].space \in Nat /\ codings[id][t].time \in Nat
  BY CodingsAssumption DEF CodingsAssumption
<1>2. T \in SUBSET DOMAIN codings[id] /\ IsFiniteSet(T) /\ T # {}
  <2>1. IsFiniteSet({"interpolative"})
    BY FS_Singleton
  <2> QED
    BY <1>1, <2>1
<1>3. sts = {pt(t) : t \in T}
  BY DEF compute_space_time
<1>4. ASSUME NEW t \in T
      PROVE  /\ pt(t) \in Point
             /\ pt(t).lambda = Flat /\ pt(t).id = id /\ IsCoded(pt(t))
  <2>1. t \in Types
    BY <1>2 DEF Types
  <2>2. time(t) \in Nat /\ codings[id][t].space \in Nat
    <3>1. codings[id][t].space \in Nat /\ codings[id][t].time \in Nat
      BY <1>1, <1>2
    <3>2. codings[id][t].time * count \in Nat
      BY <3>1
    <3> QED
      BY <3>1, <3>2
  <2>3. [num |-> 0, den |-> 1] \in [num : Int, den : Int]
    OBVIOUS
  <2> HIDE DEF time, T
  <2>4. pt(t) \in Point
    BY <2>1, <2>2, <2>3 DEF Point
  <2>5. pt(t).lambda = Flat /\ pt(t).id = id
    BY DEF Flat
  <2>6. pt(t).type = t /\ pt(t).space = codings[id][t].space
    OBVIOUS
  <2>7. IsCoded(pt(t))
    <3>1. t \in DOMAIN codings[id]
      BY <1>2
    <3> QED
      BY <2>5, <2>6, <3>1 DEF IsCoded
  <2> QED
    BY <2>4, <2>5, <2>7
<1> HIDE DEF T, pt
<1>5. IsFiniteSet(sts)
  <2> DEFINE f == [t \in T |-> pt(t)]
  <2>1. f \in [T -> sts] /\ \A p \in sts : \E t \in T : f[t] = p
    BY <1>3
  <2> HIDE DEF f
  <2>2. f \in Surjection(T, sts)
    BY <2>1 DEF Surjection
  <2> QED
    BY <1>2, <2>2, FS_Surjection
<1> HIDE DEF sts
<1>6. sts \in SUBSET Point /\ sts # {}
  BY <1>2, <1>3, <1>4
<1>7. \A p \in sts : p.lambda = Flat /\ p.id = id /\ IsCoded(p)
  BY <1>3, <1>4
<1> QED
  BY <1>5, <1>6, <1>7 DEF sts

\* The points of a block, as append_lambdas makes them.
LEMMA PointsOfCoding ==
  ASSUME codings \in Codings, NEW term, NEW slot, NEW id \in Blocks, NEW count \in Nat
  PROVE  LET sts == compute_space_time(term, slot, id, count)
             r == append_lambdas(sts)
         IN /\ r \in Seq(Point) /\ Len(r) >= 1 /\ r[1].lambda = Flat
            /\ \A i \in 1..Len(r) : r[i].id = id /\ IsCoded(r[i])
            /\ \E first \in Point : first.lambda = Flat /\ Kept(r, sts, first)
            /\ ~heuristic_greedy => Frontier(r, sts)
            /\ ~heuristic_greedy => {<<p.space, p.time>> : p \in Range(r)} = Critical(PairsOf(sts))
<1> DEFINE sts == compute_space_time(term, slot, id, count)
           r == append_lambdas(sts)
<1>1. /\ sts \in SUBSET Point /\ IsFiniteSet(sts) /\ sts # {}
      /\ \A p \in sts : p.lambda = Flat /\ p.id = id /\ IsCoded(p)
  BY CodedPoints
<1> HIDE DEF sts
<1>2. /\ \E first \in sts : Kept(r, sts, first)
      /\ ~heuristic_greedy => Frontier(r, sts)
  BY <1>1, PointsOfBlock
<1>3. PICK first \in sts : Kept(r, sts, first)
  BY <1>2
<1> HIDE DEF r
<1>4. first \in Point /\ first.lambda = Flat
  BY <1>1
<1>5. r \in Seq(Point) /\ Len(r) >= 1 /\ r[1] = first
  BY <1>3 DEF Kept
<1>6. ASSUME NEW i \in 1..Len(r) PROVE r[i].id = id /\ IsCoded(r[i])
  <2>1. PICK p \in sts : Same(r[i], p)
    BY <1>3 DEF Kept
  <2> QED
    BY <1>1, <2>1 DEF Same, IsCoded
<1>7. ~heuristic_greedy => {<<p.space, p.time>> : p \in Range(r)} = Critical(PairsOf(sts))
  BY <1>1, <1>2, <1>3, <1>4, FrontierIsCritical
<1> QED
  BY <1>2, <1>3, <1>4, <1>5, <1>6, <1>7 DEF r, sts

\* The points of a list are those of its blocks.
LEMMA ListPoints ==
  ASSUME codings \in Codings, NEW t \in Terms, NEW cnts,
         cnts = <<>> \/ cnts \in [Slots(t) -> Nat]
  PROVE  LET r == PointsOf(t, BaseOf(t), cnts)
             of(s) == append_lambdas(compute_space_time(t, s, BaseOf(t) + s,
                        smoothing + IF cnts = <<>> THEN 0 ELSE cnts[s]))
         IN /\ r \in Seq(Point)
            /\ \A p \in Range(r) : IsCoded(p) /\ \E s \in Slots(t) : p.id = BaseOf(t) + s
            /\ \A s \in Slots(t) : {p \in Range(r) : p.id = BaseOf(t) + s} = Range(of(s))
<1> DEFINE r == PointsOf(t, BaseOf(t), cnts)
           weight(s) == smoothing + IF cnts = <<>> THEN 0 ELSE cnts[s]
           of(s) == append_lambdas(compute_space_time(t, s, BaseOf(t) + s, weight(s)))
           w == Cardinality(Slots(t))
           seqs == [i \in 1..w |-> append_lambdas(compute_space_time(t, i - 1,
                      BaseOf(t) + i - 1, weight(i - 1)))]
<1>1. r = FlattenSeq(seqs)
  BY DEF PointsOf
<1>2. w = Width[t] /\ w \in Nat /\ Slots(t) = 0..(w - 1) /\ BaseOf(t) \in Nat
  <2>1. Slots(t) = 0..(Width[t] - 1) /\ Width[t] \in Nat /\ t \in 0..N
    BY ListsAre
  <2>2. Cardinality(0..(Width[t] - 1)) = Width[t]
    <3>1. 0 \in Int /\ Width[t] - 1 \in Int
      BY <2>1
    <3>2. Cardinality(0..(Width[t] - 1)) = IF 0 > Width[t] - 1 THEN 0 ELSE Width[t] - 1 - 0 + 1
      BY <3>1, FS_Interval
    <3> QED
      BY <2>1, <3>2
  <2>3. BaseOf(t) \in Nat
    BY <2>1, BasesAre
  <2> QED
    BY <2>1, <2>2, <2>3
<1>3. ASSUME NEW s \in Slots(t)
      PROVE  /\ of(s) \in Seq(Point)
             /\ \A p \in Range(of(s)) : p.id = BaseOf(t) + s /\ IsCoded(p)
  <2>1. BaseOf(t) + s \in Blocks
    BY BasesAre
  <2>2. weight(s) \in Nat
    BY DEF smoothing
  <2> HIDE DEF weight
  <2>3. /\ of(s) \in Seq(Point)
        /\ \A i \in 1..Len(of(s)) : of(s)[i].id = BaseOf(t) + s /\ IsCoded(of(s)[i])
    BY <2>1, <2>2, PointsOfCoding
  <2> HIDE DEF of
  <2>4. \A p \in Range(of(s)) : \E i \in 1..Len(of(s)) : of(s)[i] = p
    BY <2>3 DEF Range
  <2> QED
    BY <2>3, <2>4
<1>4. \A i \in 1..w : seqs[i] = of(i - 1)
  <2> SUFFICES ASSUME NEW i \in 1..w PROVE seqs[i] = of(i - 1)
    OBVIOUS
  <2>1. BaseOf(t) + i - 1 = BaseOf(t) + (i - 1)
    BY <1>2
  <2> HIDE DEF weight
  <2> QED
    BY <2>1
<1>5. DOMAIN seqs = 1..w
  OBVIOUS
<1> HIDE DEF seqs, of, w
<1>6. \A i \in 1..w : i - 1 \in Slots(t)
  BY <1>2
<1>7. \A s \in Slots(t) : \E i \in 1..w : i - 1 = s
  <2> SUFFICES ASSUME NEW s \in Slots(t) PROVE \E i \in 1..w : i - 1 = s
    OBVIOUS
  <2>1. s + 1 \in 1..w /\ (s + 1) - 1 = s
    BY <1>2
  <2> QED
    BY <2>1
<1>8. seqs \in Seq(Seq(Point))
  <2>1. \A i \in 1..w : seqs[i] \in Seq(Point)
    BY <1>3, <1>4, <1>6
  <2>2. seqs = [i \in 1..w |-> seqs[i]]
    BY <1>5 DEF seqs
  <2> HIDE DEF seqs
  <2> DEFINE Z == Seq(Point)
  <2>3. seqs \in [1..w -> Z]
    BY <2>1, <2>2
  <2> HIDE DEF Z
  <2>4. seqs \in Seq(Z)
    BY <1>2, <2>3, SeqDef
  <2> QED
    BY <2>4 DEF Z
<1>9. r \in Seq(Point) /\ Range(r) = UNION {Range(seqs[i]) : i \in 1..w}
  BY <1>1, <1>5, <1>8, FlattenIs
<1> HIDE DEF r
<1>10. ASSUME NEW p \in Range(r) PROVE \E s \in Slots(t) : p \in Range(of(s))
  <2>1. PICK i \in 1..w : p \in Range(seqs[i])
    BY <1>9
  <2> QED
    BY <1>4, <1>6, <2>1
<1>11. ASSUME NEW s \in Slots(t) PROVE Range(of(s)) \subseteq Range(r)
  <2>1. PICK i \in 1..w : i - 1 = s
    BY <1>7
  <2>2. seqs[i] = of(i - 1)
    BY <1>4
  <2>3. seqs[i] = of(s)
    BY <2>1, <2>2
  <2> QED
    BY <1>9, <2>3
<1>12. \A p \in Range(r) : IsCoded(p) /\ \E s \in Slots(t) : p.id = BaseOf(t) + s
  BY <1>3, <1>10
<1>13. ASSUME NEW s \in Slots(t)
       PROVE  {p \in Range(r) : p.id = BaseOf(t) + s} = Range(of(s))
  <2>1. ASSUME NEW p \in Range(r), p.id = BaseOf(t) + s PROVE p \in Range(of(s))
    <3>1. PICK z \in Slots(t) : p \in Range(of(z))
      BY <1>10
    <3>2. p.id = BaseOf(t) + z
      BY <1>3, <3>1
    <3>3. z = s
      <4>1. z \in Int /\ s \in Int
        BY <1>2
      <4> QED
        BY <1>2, <2>1, <3>2, <4>1
    <3> QED
      BY <3>1, <3>3
  <2>2. ASSUME NEW p \in Range(of(s)) PROVE p \in Range(r) /\ p.id = BaseOf(t) + s
    BY <1>3, <1>11
  <2> QED
    BY <2>1, <2>2
<1>14. \A s \in Slots(t) : {p \in Range(r) : p.id = BaseOf(t) + s} = Range(of(s))
  BY <1>13
<1> QED
  BY <1>9, <1>12, <1>14 DEF r, of, weight
-----------------------------------------------------------------------------
(* The lines of the profile *)

\* The lists that were opened, in order, by the number of their line.
LEMMA NextLine ==
  ASSUME NEW S \in SUBSET Terms
  PROVE  /\ IsFiniteSet(S) /\ Cardinality(S) \in Nat
         /\ \A x \in Nat : Cardinality(Lower(S, x)) \in 0..Cardinality(S)
         /\ \A x, y \in Nat : x <= y => Cardinality(Lower(S, x)) <= Cardinality(Lower(S, y))
         /\ \A x \in S : \A y \in Nat : x < y =>
              Cardinality(Lower(S, x)) < Cardinality(Lower(S, y))
         /\ \A x \in S : Cardinality(Lower(S, x + 1)) = Cardinality(Lower(S, x)) + 1
         /\ \A x \in Nat : x \notin S => Lower(S, x + 1) = Lower(S, x)
<1>1. IsFiniteSet(S) /\ S \in SUBSET Nat /\ Cardinality(S) \in Nat
  <2>1. IsFiniteSet(Terms) /\ Terms \in SUBSET Nat
    BY ListsAre
  <2> QED
    BY <2>1, FS_Subset, FS_CardinalityType
<1>2. ASSUME NEW x \in Nat
      PROVE  /\ IsFiniteSet(Lower(S, x)) /\ Cardinality(Lower(S, x)) \in Nat
             /\ Cardinality(Lower(S, x)) <= Cardinality(S)
  <2>1. Lower(S, x) \in SUBSET S
    BY DEF Lower
  <2> QED
    BY <1>1, <2>1, FS_Subset, FS_CardinalityType
<1>3. ASSUME NEW x \in Nat, NEW y \in Nat, x <= y
      PROVE  Cardinality(Lower(S, x)) <= Cardinality(Lower(S, y))
  <2>0. \A q \in S : q < x => q < y
    BY <1>1, <1>3
  <2>1. Lower(S, x) \in SUBSET Lower(S, y)
    BY <2>0 DEF Lower
  <2> QED
    BY <1>2, <2>1, FS_Subset
<1>4. ASSUME NEW x \in S PROVE Cardinality(Lower(S, x + 1)) = Cardinality(Lower(S, x)) + 1
  <2>1. x \in Nat /\ x \notin Lower(S, x)
    BY <1>1 DEF Lower
  <2>2. Lower(S, x + 1) = Lower(S, x) \cup {x}
    <3>1. \A q \in S : q < x + 1 <=> q < x \/ q = x
      BY <1>1, <2>1
    <3> QED
      BY <3>1 DEF Lower
  <2>3. IsFiniteSet(Lower(S, x))
    BY <1>2, <2>1
  <2> QED
    BY <2>1, <2>2, <2>3, FS_AddElement
<1>5. ASSUME NEW x \in S, NEW y \in Nat, x < y
      PROVE  Cardinality(Lower(S, x)) < Cardinality(Lower(S, y))
  <2>1. x \in Nat /\ x + 1 \in Nat /\ x + 1 <= y
    BY <1>1, <1>5
  <2>2. Cardinality(Lower(S, x + 1)) <= Cardinality(Lower(S, y))
    BY <1>3, <2>1
  <2>3. Cardinality(Lower(S, x)) \in Nat /\ Cardinality(Lower(S, y)) \in Nat
    BY <1>2, <2>1
  <2> QED
    BY <1>4, <2>2, <2>3
<1>6. ASSUME NEW x \in Nat, x \notin S PROVE Lower(S, x + 1) = Lower(S, x)
  <2>1. \A q \in S : q < x + 1 <=> q < x
    BY <1>1, <1>6
  <2> QED
    BY <2>1 DEF Lower
<1> QED
  BY <1>1, <1>2, <1>3, <1>4, <1>5, <1>6

\* There is a line of each number below how many there are.
LEMMA NthLine ==
  ASSUME NEW S \in SUBSET Terms, NEW k \in 0..(Cardinality(S) - 1)
  PROVE  Nth(S, k) \in S /\ Cardinality(Lower(S, Nth(S, k))) = k
<1> DEFINE c(x) == Cardinality(Lower(S, x))
           V == {x \in 0..N : c(x) <= k}
<1>1. /\ N \in Nat /\ S \in SUBSET (0..(N - 1)) /\ Cardinality(S) \in Nat
  BY ListsAre, NextLine
<1>2. c(0) = 0 /\ c(N) = Cardinality(S)
  <2>1. Lower(S, 0) = {} /\ Lower(S, N) = S
    <3>1. \A q \in S : ~(q < 0) /\ q < N
      BY <1>1
    <3> QED
      BY <3>1 DEF Lower
  <2> QED
    BY <2>1, FS_EmptySet
<1>3. /\ \A x \in 0..N : c(x) \in Nat
      /\ \A x \in S : c(x + 1) = c(x) + 1
      /\ \A x \in 0..N : x \notin S => c(x + 1) = c(x)
  <2>1. \A x \in 0..N : x \in Nat
    OBVIOUS
  <2>2. \A x \in 0..N : c(x) \in Nat
    BY <2>1, NextLine
  <2>3. \A x \in S : c(x + 1) = c(x) + 1
    BY NextLine
  <2>4. \A x \in 0..N : x \notin S => c(x + 1) = c(x)
    BY <2>1, NextLine
  <2> QED
    BY <2>2, <2>3, <2>4
<1> HIDE DEF c
<1>4. 0 \in V /\ V \in SUBSET (0..N) /\ N \notin V
  BY <1>1, <1>2
<1>5. PICK x \in V : \A y \in V : x >= y
  <2> HIDE DEF V
  <2> QED
    BY <1>1, <1>4, GreatestElement
<1>6. x \in 0..N /\ x # N /\ c(x) <= k /\ x + 1 \in 0..N
  <2>1. x \in 0..N /\ x # N /\ c(x) <= k
    BY <1>4
  <2> QED
    BY <1>1, <2>1
<1>7. ~(c(x + 1) <= k)
  <2>1. ~(x >= x + 1)
    BY <1>6
  <2> QED
    BY <1>5, <1>6, <2>1
<1>8. x \in S
  BY <1>3, <1>6, <1>7
<1>9. c(x) = k
  <2>1. c(x) \in Nat /\ c(x + 1) = c(x) + 1 /\ k \in Int
    BY <1>3, <1>6, <1>8
  <2> QED
    BY <1>6, <1>7, <2>1
<1>10. Nth(S, k) = CHOOSE p \in S : Cardinality(Lower(S, p)) = k
  BY DEF Nth, Lower
<1>11. x \in S /\ Cardinality(Lower(S, x)) = k
  BY <1>8, <1>9 DEF c
<1> QED
  BY <1>10, <1>11

(* The inductive invariant *)

Opened == DOMAIN block_freqs

\* The counter of a slot, 0 in a list that nobody opened.
Counter(t, s) == IF t \in Opened THEN block_freqs[t][s] ELSE 0

\* How much of a query of this pass is done: thread tid has the queries that
\* are tid modulo the number of threads.
DoneOf(q) ==
  LET thread == threads[(q - 1) % Threads]
  IN IF thread.i > q - 1 THEN Len(Queries[pass][q])
     ELSE IF thread.i = q - 1 THEN thread.done ELSE 0

\* The decodes of a slot in the first n steps of a query, in a pass that is
\* over, and in the one that is run.
DecodesIn(query, n, t, s) == Cardinality({k \in 1..n : query[k] = <<"decode", t, s>>})
PassDecodes(t, s) ==
  [p \in DOMAIN Queries |->
     Total([q \in DOMAIN Queries[p] |-> DecodesIn(Queries[p][q], Len(Queries[p][q]), t, s)],
           DOMAIN Queries[p])]
NowDecodes(t, s) ==
  [q \in DOMAIN Queries[pass] |-> DecodesIn(Queries[pass][q], DoneOf(q), t, s)]
DecodesSoFar(t, s) ==
  Total(PassDecodes(t, s), 1..(pass - 1))
    + IF Profiled THEN 0 ELSE Total(NowDecodes(t, s), DOMAIN Queries[pass])

ThreadsInOrder ==
  /\ pass \in 1..(Len(Queries) + 1)
  /\ threads \in [0..(Threads - 1) -> [i : Nat, done : Nat]]
  /\ \A tid \in 0..(Threads - 1) :
       /\ threads[tid].i % Threads = tid
       /\ ~Profiled /\ Running(tid) =>
            \/ threads[tid].done < Len(Queries[pass][threads[tid].i + 1])
            \/ threads[tid].done = 0

ListsOpened ==
  /\ Opened \subseteq Terms
  /\ \A t \in Opened : block_freqs[t] \in [Slots(t) -> Nat]
  /\ ~Profiled =>
       \A q \in DOMAIN Queries[pass] : \A k \in 1..DoneOf(q) :
         Queries[pass][q][k][1] = "open" => Queries[pass][q][k][2] \in Opened

CountsKept == \A t \in Terms : \A s \in Slots(t) : Counter(t, s) = DecodesSoFar(t, s)

\* The points of a slot's block, and that they are those in the file.
SlotPoints(t, s) ==
  append_lambdas(compute_space_time(t, s, BaseOf(t) + s, smoothing + Decodes(t, s)))
FileHas(t, s) ==
  {p \in Range(lambdas.points) : p.id = BaseOf(t) + s} = Range(SlotPoints(t, s))

FileInv ==
  lambdas # None =>
    /\ lambdas = [points |-> lambdas.points, sorted |-> lambdas.sorted]
    /\ lambdas.sorted \in BOOLEAN
    /\ lambdas.points \in Seq(Point)
    /\ \A p \in Range(lambdas.points) : IsCoded(p)
    /\ Profiled
    /\ lambdas.sorted => \A t \in Terms : \A s \in Slots(t) : FileHas(t, s)

\* How many lines of the profile there are before that of a list.
LinesBefore(t) == Cardinality(Lower(Opened, t))

\* The line of the profile that is held is for the next list or one behind it.
MergeInv ==
  /\ block_counts.line \in 0..Cardinality(Opened)
  /\ block_counts.consumed \in BOOLEAN
  /\ block_counts = [line |-> block_counts.line, list |-> block_counts.list,
                     counts |-> block_counts.counts, consumed |-> block_counts.consumed]
  /\ block_counts.consumed => block_counts.line = LinesBefore(l)
  /\ ~block_counts.consumed =>
       \/ /\ block_counts.counts = <<>>
          /\ block_counts.line = Cardinality(Opened)
          /\ LinesBefore(l) = Cardinality(Opened)
       \/ /\ block_counts.list \in Opened
          /\ block_counts.list >= l
          /\ block_counts.line = LinesBefore(block_counts.list) + 1
          /\ LinesBefore(l) = LinesBefore(block_counts.list)
          /\ block_counts.counts = block_freqs[block_counts.list]

ComputeInv ==
  stage = "compute" =>
    /\ lambdas # None /\ ~lambdas.sorted
    /\ l \in 0..N /\ base = BaseOf(l)
    /\ \A p \in Range(lambdas.points) : p.id < base
    /\ \A t \in 0..(l - 1) : \A s \in Slots(t) : FileHas(t, s)
    /\ MergeInv

ChosenInv ==
  /\ DOMAIN chosen = Blocks
  /\ \A id \in Blocks : chosen[id] # None =>
       chosen[id] \in Point /\ IsCoded(chosen[id]) /\ chosen[id].id = id

Used == [id \in Blocks |-> Replaced(id)]
Applied == DOMAIN lambdas.points \ points
LambdaAt(i) == lambdas.points[i].lambda

\* With a file that is sorted, what was applied is below what was not, and
\* the point of a block that was applied last is the last one of the block.
InOrder ==
  /\ \A i \in Applied, j \in points : ~Less(LambdaAt(j), LambdaAt(i))
  /\ \A i \in Applied : chosen[lambdas.points[i].id] # None
  /\ \A id \in Blocks : chosen[id] # None =>
       \E i \in Applied : /\ lambdas.points[i] = chosen[id]
                          /\ \A j \in Applied : lambdas.points[j].id = id =>
                               ~Less(LambdaAt(i), LambdaAt(j))
  /\ stage # "walk" => \/ points = {}
                       \/ \E i \in Applied : /\ LambdaAt(i).num > 0
                                             /\ \A j \in Applied : ~Less(LambdaAt(i), LambdaAt(j))

WalkInv ==
  stage \in {"walk", "found", "transform", "written", "ended"} =>
    /\ lambdas # None
    /\ points \subseteq DOMAIN lambdas.points
    /\ cur_space = space_base + Total(Used, Blocks)
    /\ lambdas.sorted => InOrder

\* What is coded of a list with the codecs that were chosen for its blocks.
Coded(t) ==
  [slot \in Slots(t) |-> codings[BaseOf(t) + slot][type_of(BaseOf(t) + slot)].space]

IndexInv ==
  /\ index \in Seq(UNION {[Slots(t) -> Nat] : t \in Terms})
  /\ \A t \in 0..(Len(index) - 1) : index[t + 1] = Coded(t)

\* The jobs are the lists behind those of the index, each with its own blocks.
JobsInv ==
  /\ \E S : jobs \in Seq(S)
  /\ Len(index) + Len(jobs) = l
  /\ \A k \in 1..Len(jobs) : /\ jobs[k].list = Len(index) + k - 1
                             /\ jobs[k].base = BaseOf(Len(index) + k - 1)

TransformInv ==
  stage \in {"transform", "written", "ended"} =>
    /\ l \in 0..N /\ base = BaseOf(l)
    /\ IndexInv /\ JobsInv
    /\ stage # "transform" => l = N
    /\ stage = "ended" => jobs = <<>>

RestInv ==
  /\ stage \in {"start", "compute", "open", "walk", "found", "transform", "written",
                "ended", "failed"}
  /\ stage # "start" => Profiled
  /\ stage \in {"start", "compute", "open"} => NotWalked
  /\ stage \in {"start", "compute", "open", "walk", "found"} => index = <<>> /\ jobs = <<>>
  /\ stage = "open" => lambdas # None
  /\ stage = "start" => l = 0 /\ base = 0

HybridIInv ==
  /\ codings \in Codings /\ heuristic_greedy \in BOOLEAN
  /\ ThreadsInOrder /\ ListsOpened /\ CountsKept
  /\ FileInv /\ ComputeInv /\ ChosenInv /\ WalkInv /\ TransformInv /\ RestInv
-----------------------------------------------------------------------------
(* The profile *)

\* The steps of a query.
LEMMA QueryIs ==
  ASSUME NEW p \in DOMAIN Queries, NEW q \in DOMAIN Queries[p]
  PROVE  /\ Len(Queries) \in Nat /\ DOMAIN Queries = 1..Len(Queries)
         /\ Len(Queries[p]) \in Nat /\ DOMAIN Queries[p] = 1..Len(Queries[p])
         /\ Len(Queries[p][q]) \in Nat /\ DOMAIN Queries[p][q] = 1..Len(Queries[p][q])
         /\ Len(Queries[p][q]) = 0 <=> Queries[p][q] = <<>>
         /\ \A k \in 1..Len(Queries[p][q]) :
              \/ \E t \in Terms : Queries[p][q][k] = <<"open", t>>
              \/ \E t \in Terms : \E s \in Slots(t) : Queries[p][q][k] = <<"decode", t, s>>
<1> DEFINE Step0 == UNION {{<<"open", t>>} \cup {<<"decode", t, s>> : s \in Slots(t)} : t \in Terms}
           Z == Seq(Step0)
           Y == Seq(Z)
<1>1. Queries \in Seq(Y)
  BY QueriesAssumption DEF QueriesAssumption
<1>2. Queries[p] \in Y /\ Len(Queries) \in Nat /\ DOMAIN Queries = 1..Len(Queries)
  <2> HIDE DEF Y
  <2> QED
    BY <1>1
<1>3. Queries[p][q] \in Z /\ Len(Queries[p]) \in Nat /\ DOMAIN Queries[p] = 1..Len(Queries[p])
  <2> HIDE DEF Z
  <2> QED
    BY <1>2
<1>4. /\ Len(Queries[p][q]) \in Nat /\ DOMAIN Queries[p][q] = 1..Len(Queries[p][q])
      /\ Len(Queries[p][q]) = 0 <=> Queries[p][q] = <<>>
      /\ \A k \in 1..Len(Queries[p][q]) : Queries[p][q][k] \in Step0
  <2> HIDE DEF Step0
  <2> QED
    BY <1>3
<1>5. \A x \in Step0 : \/ \E t \in Terms : x = <<"open", t>>
                       \/ \E t \in Terms : \E s \in Slots(t) : x = <<"decode", t, s>>
  OBVIOUS
<1> HIDE DEF Step0
<1> QED
  BY <1>2, <1>3, <1>4, <1>5

\* Passes and their queries are finitely many.
LEMMA PassesAre ==
  /\ Len(Queries) \in Nat /\ DOMAIN Queries = 1..Len(Queries)
  /\ IsFiniteSet(DOMAIN Queries)
  /\ \A p \in DOMAIN Queries : /\ DOMAIN Queries[p] = 1..Len(Queries[p])
                               /\ Len(Queries[p]) \in Nat
                               /\ IsFiniteSet(DOMAIN Queries[p])
<1> DEFINE Step0 == UNION {{<<"open", t>>} \cup {<<"decode", t, s>> : s \in Slots(t)} : t \in Terms}
           Z == Seq(Step0)
           Y == Seq(Z)
<1>1. Queries \in Seq(Y)
  BY QueriesAssumption DEF QueriesAssumption
<1>2. Len(Queries) \in Nat /\ DOMAIN Queries = 1..Len(Queries) /\ \A p \in DOMAIN Queries : Queries[p] \in Y
  <2> HIDE DEF Y
  <2> QED
    BY <1>1
<1>3. \A p \in DOMAIN Queries : DOMAIN Queries[p] = 1..Len(Queries[p]) /\ Len(Queries[p]) \in Nat
  <2> HIDE DEF Z
  <2> QED
    BY <1>2
<1>4. \A m \in Nat : IsFiniteSet(1..m)
  BY FS_Interval
<1> HIDE DEF Y, Z, Step0
<1> QED
  BY <1>2, <1>3, <1>4

\* The decodes of a slot, one step further.
LEMMA DecodesGrow ==
  ASSUME NEW query, NEW t, NEW s
  PROVE  /\ DecodesIn(query, 0, t, s) = 0
         /\ \A n \in Nat :
              /\ DecodesIn(query, n, t, s) \in Nat
              /\ DecodesIn(query, n + 1, t, s) = DecodesIn(query, n, t, s)
                   + IF query[n + 1] = <<"decode", t, s>> THEN 1 ELSE 0
<1> DEFINE item == <<"decode", t, s>>
           D(n) == {k \in 1..n : query[k] = item}
<1> HIDE DEF item
<1>1. D(0) = {}
  OBVIOUS
<1>2. ASSUME NEW n \in Nat PROVE IsFiniteSet(D(n)) /\ Cardinality(D(n)) \in Nat
  <2>1. IsFiniteSet(1..n) /\ D(n) \in SUBSET (1..n)
    BY FS_Interval
  <2> QED
    BY <2>1, FS_Subset, FS_CardinalityType
<1>3. ASSUME NEW n \in Nat
      PROVE  Cardinality(D(n + 1)) = Cardinality(D(n)) + IF query[n + 1] = item THEN 1 ELSE 0
  <2>0. 1..(n + 1) = (1..n) \cup {n + 1} /\ n + 1 \notin 1..n
    OBVIOUS
  <2>1. CASE query[n + 1] = item
    <3>1. D(n + 1) = D(n) \cup {n + 1} /\ n + 1 \notin D(n)
      BY <2>0, <2>1
    <3> HIDE DEF D
    <3>2. Cardinality(D(n) \cup {n + 1}) = Cardinality(D(n)) + 1
      BY <1>2, <3>1, FS_AddElement
    <3> QED
      BY <2>1, <3>1, <3>2
  <2>2. CASE query[n + 1] # item
    <3>1. D(n + 1) = D(n)
      BY <2>0, <2>2
    <3> HIDE DEF D
    <3> QED
      BY <1>2, <2>2, <3>1
  <2> QED
    BY <2>1, <2>2
<1>4. \A n : DecodesIn(query, n, t, s) = Cardinality(D(n))
  BY DEF DecodesIn, item
<1> HIDE DEF D
<1>5. DecodesIn(query, 0, t, s) = 0
  BY <1>1, <1>4, FS_EmptySet
<1> QED
  BY <1>2, <1>3, <1>4, <1>5 DEF item

\* A number with the same rest is as far away as the divisor.
LEMMA NextTurn ==
  ASSUME NEW a \in Nat, NEW b \in Nat, NEW T \in Nat \ {0}
  PROVE  /\ a % T = b % T /\ a < b => b >= a + T
         /\ (a + T) % T = a % T
<1> DEFINE x == a \div T
           y == b \div T
           r == a % T
<1>1. /\ x \in Nat /\ x * T \in Nat /\ r \in 0..(T - 1) /\ a = x * T + r
      /\ (x + 1) * T = x * T + T
  BY Division
<1>2. y \in Nat /\ y * T \in Nat /\ b = y * T + (b % T)
  BY Division
<1>3. a % T = b % T /\ a < b => b >= a + T
  <2> SUFFICES ASSUME b % T = r, a < b PROVE b >= a + T
    OBVIOUS
  <2> HIDE DEF x, y, r
  <2>1. b = y * T + r
    BY <1>2
  <2>2. ~(y <= x)
    <3> SUFFICES ASSUME y <= x PROVE FALSE
      OBVIOUS
    <3>1. y * T <= x * T
      BY <1>1, <1>2, TimesMonotone
    <3> DEFINE u == x * T
               v == y * T
    <3>2. u \in Nat /\ v \in Nat /\ v <= u /\ a = u + r /\ b = v + r /\ r \in Int
      BY <1>1, <1>2, <2>1, <3>1
    <3> HIDE DEF u, v
    <3> QED
      BY <3>2
  <2>3. x + 1 <= y /\ x + 1 \in Nat
    BY <1>1, <1>2, <2>2
  <2>4. (x + 1) * T <= y * T
    BY <1>2, <2>3, TimesMonotone
  <2> DEFINE u == x * T
             v == y * T
  <2>5. u \in Nat /\ v \in Nat /\ u + T <= v /\ a = u + r /\ b = v + r /\ r \in Int
    BY <1>1, <1>2, <2>1, <2>4
  <2> HIDE DEF u, v
  <2> QED
    BY <2>5
<1>4. (a + T) % T = a % T
  <2> HIDE DEF x, r
  <2>1. a + T \in Nat /\ x + 1 \in Nat
    BY <1>1
  <2>2. a + T = (x + 1) * T + r
    <3> DEFINE u == x * T
    <3>1. a = u + r /\ (x + 1) * T = u + T /\ u \in Nat /\ r \in Nat
      BY <1>1
    <3> HIDE DEF u
    <3> QED
      BY <3>1
  <2>3. (a + T) % T = r
    BY <1>1, <2>1, <2>2, DivisionIs
  <2> QED
    BY <2>3 DEF r
<1> QED
  BY <1>3, <1>4

\* What a thread does changes how much of one query is done.
LEMMA DoneStep ==
  ASSUME ThreadsInOrder, ~Profiled, NEW tid \in DOMAIN threads, Running(tid),
         GoOn(tid), pass' = pass, NEW q, q = threads[tid].i + 1,
         NEW n, n = threads[tid].done, NEW query, query = Queries[pass][q]
  PROVE  /\ pass \in DOMAIN Queries /\ q \in DOMAIN Queries[pass]
         /\ n \in Nat /\ DoneOf(q) = n
         /\ query = <<>> => n = 0 /\ DoneOf(q)' = 0
         /\ query # <<>> => n < Len(query) /\ DoneOf(q)' = n + 1
         /\ \A r \in DOMAIN Queries[pass] \ {q} : DoneOf(r)' = DoneOf(r)
         /\ ThreadsInOrder'
<1> DEFINE i0 == q - 1
           last == threads[tid].done + 1 >= Len(Queries[pass][threads[tid].i + 1])
           T == Threads
           new == IF last THEN [i |-> threads[tid].i + T, done |-> 0]
                  ELSE [i |-> threads[tid].i, done |-> threads[tid].done + 1]
<1>1. /\ T \in Nat \ {0}
      /\ pass \in 1..Len(Queries) /\ pass \in DOMAIN Queries
      /\ DOMAIN Queries[pass] = 1..Len(Queries[pass]) /\ Len(Queries[pass]) \in Nat
  <2>1. T \in Nat \ {0}
    BY ProfilerAssumption DEF ProfilerAssumption
  <2>2. pass \in 1..(Len(Queries) + 1)
    BY DEF ThreadsInOrder
  <2>3. ~(pass > Len(Queries))
    BY DEF Profiled
  <2>4. Len(Queries) \in Nat /\ DOMAIN Queries = 1..Len(Queries)
    BY PassesAre
  <2> HIDE DEF T
  <2>5. pass \in 1..Len(Queries) /\ pass \in DOMAIN Queries
    BY <2>2, <2>3, <2>4
  <2>6. DOMAIN Queries[pass] = 1..Len(Queries[pass]) /\ Len(Queries[pass]) \in Nat
    BY <2>5, PassesAre
  <2> QED
    BY <2>1, <2>5, <2>6
<1>2. /\ DOMAIN threads = 0..(T - 1) /\ tid \in 0..(T - 1)
      /\ threads[tid] \in [i : Nat, done : Nat]
      /\ i0 \in Nat /\ n \in Nat /\ i0 % T = tid /\ i0 < Len(Queries[pass])
      /\ threads[tid].i = i0
  <2>1. /\ DOMAIN threads = 0..(T - 1) /\ tid \in 0..(T - 1)
        /\ threads[tid] \in [i : Nat, done : Nat]
        /\ threads[tid].i % T = tid /\ threads[tid].i < Len(Queries[pass])
    BY DEF ThreadsInOrder, Running
  <2>2. threads[tid].i = i0
    BY <2>1
  <2> QED
    BY <2>1, <2>2
<1>3. q \in DOMAIN Queries[pass] /\ q = i0 + 1
  BY <1>1, <1>2
<1>0. last <=> n + 1 >= Len(query)
  BY <1>2, <1>3
<1>4. Len(query) \in Nat /\ (Len(query) = 0 <=> query = <<>>)
  BY <1>1, <1>3, QueryIs
<1>5. n < Len(query) \/ n = 0
  BY <1>2 DEF ThreadsInOrder
<1>6. threads' = [threads EXCEPT ![tid] = new]
  BY DEF GoOn
<1>7. /\ new \in [i : Nat, done : Nat]
      /\ last => new.i = i0 + T /\ new.done = 0
      /\ ~last => new.i = i0 /\ new.done = n + 1
  <2>1. new = IF last THEN [i |-> i0 + T, done |-> 0] ELSE [i |-> i0, done |-> n + 1]
    <3>1. threads[tid].i = i0 /\ threads[tid].done = n
      BY <1>2
    <3> HIDE DEF i0, last
    <3> QED
      BY <3>1
  <2>2. n + 1 \in Nat /\ i0 + T \in Nat
    <3> HIDE DEF i0, T
    <3>0. T \in Nat \ {0}
      BY <1>1
    <3>1. n \in Nat /\ i0 \in Nat
      BY <1>2, Zenon
    <3> QED
      BY <3>0, <3>1
  <2> HIDE DEF last, new, i0
  <2> QED
    BY <1>2, <2>1, <2>2
<1> HIDE DEF new, last
<1>8. /\ threads' \in [0..(T - 1) -> [i : Nat, done : Nat]]
      /\ threads'[tid] = new
      /\ \A u \in 0..(T - 1) : u # tid => threads'[u] = threads[u]
  <2>1. threads \in [0..(T - 1) -> [i : Nat, done : Nat]]
    BY DEF ThreadsInOrder
  <2> QED
    BY <1>2, <1>6, <1>7, <2>1
<1>9. new.i % T = tid
  BY <1>1, <1>2, <1>7, NextTurn
<1>10. DoneOf(q) = n
  BY <1>2, <1>3 DEF DoneOf
<1>11. DoneOf(q)' = IF last THEN Len(query) ELSE n + 1
  <2>0. (q - 1) % T = tid
    BY <1>2
  <2>1. DoneOf(q)' = IF new.i > q - 1 THEN Len(query)
                     ELSE IF new.i = q - 1 THEN new.done ELSE 0
    BY <1>8, <2>0 DEF DoneOf
  <2>2. i0 \in Nat /\ q - 1 = i0 /\ T \in Nat \ {0} /\ n \in Nat
    BY <1>1, <1>2
  <2> HIDE DEF i0, T
  <2>3. CASE last
    <3>1. new.i > i0
      BY <1>7, <2>2, <2>3
    <3> QED
      BY <2>1, <2>2, <2>3, <3>1
  <2>4. CASE ~last
    <3>1. new.i = i0 /\ new.done = n + 1 /\ ~(i0 > i0)
      BY <1>7, <2>2, <2>4
    <3> QED
      BY <2>1, <2>2, <2>4, <3>1
  <2> QED
    BY <2>3, <2>4
<1>12. ASSUME NEW r \in DOMAIN Queries[pass] \ {q} PROVE DoneOf(r)' = DoneOf(r)
  <2> DEFINE u == (r - 1) % T
             k == r - 1
  <2>1. k \in Nat /\ u \in 0..(T - 1) /\ k # i0
    <3>1. r \in 1..Len(Queries[pass]) /\ r # q /\ Len(Queries[pass]) \in Nat
      BY <1>1
    <3>2. q \in Int
      BY <1>1, <1>3
    <3>3. k \in Nat /\ k # i0
      <4> HIDE DEF u
      <4> QED
        BY <3>1, <3>2
    <3>4. u \in 0..(T - 1)
      <4>1. k \in Nat /\ T \in Nat \ {0}
        BY <1>1, <3>3
      <4>2. u = k % T
        OBVIOUS
      <4> HIDE DEF k, T, u
      <4> QED
        BY <4>1, <4>2, Division
    <3> QED
      BY <3>3, <3>4
  <2>0. /\ DoneOf(r) = IF threads[u].i > k THEN Len(Queries[pass][r])
                        ELSE IF threads[u].i = k THEN threads[u].done ELSE 0
        /\ DoneOf(r)' = IF threads'[u].i > k THEN Len(Queries[pass][r])
                         ELSE IF threads'[u].i = k THEN threads'[u].done ELSE 0
    BY DEF DoneOf
  <2>4. u = k % T
    OBVIOUS
  <2> HIDE DEF u
  <2>2. CASE u # tid
    <3>1. threads'[u] = threads[u]
      BY <1>8, <2>1, <2>2
    <3> QED
      BY <2>0, <3>1
  <2>3. CASE u = tid
    <3>1. DoneOf(r) = IF i0 > k THEN Len(Queries[pass][r]) ELSE IF i0 = k THEN n ELSE 0
      BY <1>2, <2>0, <2>3
    <3>2. DoneOf(r)' = IF new.i > k THEN Len(Queries[pass][r]) ELSE IF new.i = k THEN new.done ELSE 0
      BY <1>8, <2>0, <2>3
    <3>3. CASE k < i0
      <4>1. new.i >= i0 /\ new.i \in Nat
        BY <1>1, <1>2, <1>7
      <4> QED
        BY <1>2, <2>1, <3>1, <3>2, <3>3, <4>1
    <3>4. CASE i0 < k
      <4>1. k >= i0 + T
        <5>1. i0 % T = k % T
          BY <1>2, <2>3, <2>4
        <5> HIDE DEF i0, k
        <5>2. i0 \in Nat /\ k \in Nat /\ T \in Nat \ {0}
          BY <1>1, <1>2, <2>1
        <5>3. i0 % T = k % T /\ i0 < k => k >= i0 + T
          BY <5>2, NextTurn
        <5> QED
          BY <3>4, <5>1, <5>3
      <4>2. \/ new.i = i0 /\ new.i \in Nat
            \/ new.i = i0 + T /\ new.done = 0
        BY <1>2, <1>7
      <4> HIDE DEF i0, k
      <4>3. ~(new.i > k) /\ (new.i = k => new.done = 0)
        BY <1>1, <1>2, <2>1, <3>4, <4>1, <4>2
      <4>4. ~(i0 > k) /\ i0 # k
        BY <1>2, <2>1, <3>4
      <4> QED
        BY <3>1, <3>2, <4>3, <4>4
    <3> QED
      BY <1>2, <2>1, <3>3, <3>4
  <2> QED
    BY <2>2, <2>3
<1>13. ThreadsInOrder'
  <2>1. pass' \in 1..(Len(Queries) + 1)
    BY DEF ThreadsInOrder
  <2>2. ASSUME NEW u \in 0..(T - 1)
        PROVE  /\ threads'[u].i % T = u
               /\ ~Profiled' /\ Running(u)' =>
                    \/ threads'[u].done < Len(Queries[pass'][threads'[u].i + 1])
                    \/ threads'[u].done = 0
    <3>1. CASE u # tid
      <4>1. threads'[u] = threads[u]
        BY <1>8, <3>1
      <4>2. /\ threads[u].i % T = u
            /\ Running(u) => \/ threads[u].done < Len(Queries[pass][threads[u].i + 1])
                             \/ threads[u].done = 0
        BY DEF ThreadsInOrder
      <4> QED
        BY <4>1, <4>2 DEF Running
    <3>2. CASE u = tid
      <4>1. CASE last
        <5>1. threads'[u] = new /\ new.done = 0
          BY <1>7, <1>8, <3>2, <4>1
        <5>2. threads'[u].i % T = u
          BY <1>9, <3>2, <5>1
        <5> QED
          BY <5>1, <5>2, Zenon
      <4>2. CASE ~last
        <5>0. threads'[u] = new /\ new.i = i0 /\ new.done = n + 1 /\ i0 + 1 = q
          BY <1>3, <1>7, <1>8, <3>2, <4>2
        <5>1. threads'[u].i + 1 = q /\ threads'[u].done = n + 1
          <6> HIDE DEF i0
          <6> QED
            BY <5>0
        <5>2. n + 1 < Len(query)
          BY <1>0, <1>2, <1>4, <4>2
        <5>3. threads'[u].i % T = u
          BY <1>8, <1>9, <3>2
        <5> QED
          BY <5>1, <5>2, <5>3
      <4> QED
        BY <4>1, <4>2
    <3> QED
      BY <3>1, <3>2
  <2> QED
    BY <1>8, <2>1, <2>2 DEF ThreadsInOrder
<1>14. /\ query = <<>> => n = 0 /\ DoneOf(q)' = 0
       /\ query # <<>> => n < Len(query) /\ DoneOf(q)' = n + 1
  <2>1. query = <<>> => n = 0 /\ last /\ Len(query) = 0
    BY <1>0, <1>2, <1>4, <1>5
  <2>2. query # <<>> => n < Len(query) /\ (last => n + 1 = Len(query))
    BY <1>0, <1>2, <1>4, <1>5
  <2> HIDE DEF last
  <2> QED
    BY <1>11, <2>1, <2>2
<1> QED
  BY <1>1, <1>2, <1>3, <1>10, <1>12, <1>13, <1>14

\* How much of a query is done is a number.
LEMMA DoneOfIsNat ==
  ASSUME ThreadsInOrder, ~Profiled, NEW q \in DOMAIN Queries[pass]
  PROVE  pass \in DOMAIN Queries /\ DoneOf(q) \in Nat
<1>1. Threads \in Nat \ {0} /\ pass \in DOMAIN Queries
  BY PassesAre, ProfilerAssumption DEF ProfilerAssumption, ThreadsInOrder, Profiled
<1>2. Len(Queries[pass][q]) \in Nat /\ q - 1 \in Nat
  BY <1>1, QueryIs, PassesAre
<1>3. (q - 1) % Threads \in 0..(Threads - 1)
  BY <1>1, <1>2, Division
<1> DEFINE u == (q - 1) % Threads
<1>4. threads[u].i \in Nat /\ threads[u].done \in Nat
  <2> HIDE DEF u
  <2>1. threads[u] \in [i : Nat, done : Nat]
    BY <1>3 DEF ThreadsInOrder, u
  <2> QED
    BY <2>1
<1>5. DoneOf(q) = IF threads[u].i > q - 1 THEN Len(Queries[pass][q])
                  ELSE IF threads[u].i = q - 1 THEN threads[u].done ELSE 0
  BY DEF DoneOf
<1> HIDE DEF u
<1> QED
  BY <1>1, <1>2, <1>4, <1>5

\* The decodes of the passes that are over.
LEMMA PassDecodesAre ==
  ASSUME NEW t, NEW s
  PROVE  \A p \in DOMAIN Queries :
           /\ PassDecodes(t, s)[p] \in Nat
           /\ PassDecodes(t, s)[p] =
                Total([q \in DOMAIN Queries[p] |-> DecodesIn(Queries[p][q], Len(Queries[p][q]), t, s)],
                      DOMAIN Queries[p])
<1> SUFFICES ASSUME NEW p \in DOMAIN Queries
             PROVE  /\ PassDecodes(t, s)[p] \in Nat
                    /\ PassDecodes(t, s)[p] =
                         Total([q \in DOMAIN Queries[p] |-> DecodesIn(Queries[p][q], Len(Queries[p][q]), t, s)],
                               DOMAIN Queries[p])
  OBVIOUS
<1> DEFINE f == [q \in DOMAIN Queries[p] |-> DecodesIn(Queries[p][q], Len(Queries[p][q]), t, s)]
<1>1. PassDecodes(t, s)[p] = Total(f, DOMAIN Queries[p])
  BY DEF PassDecodes
<1>2. \A q \in DOMAIN Queries[p] : f[q] \in Nat
  <2> SUFFICES ASSUME NEW q \in DOMAIN Queries[p] PROVE f[q] \in Nat
    OBVIOUS
  <2>1. Len(Queries[p][q]) \in Nat
    BY QueryIs
  <2>2. DecodesIn(Queries[p][q], Len(Queries[p][q]), t, s) \in Nat
    BY <2>1, DecodesGrow
  <2> QED
    BY <2>2
<1> HIDE DEF f
<1>3. Total(f, DOMAIN Queries[p]) \in Nat
  BY <1>2, PassesAre, TotalIs
<1> QED
  BY <1>1, <1>3 DEF f

\* The decodes of a slot that a pass has done so far, by query.
LEMMA NowDecodesAre ==
  ASSUME ThreadsInOrder, ~Profiled, NEW t, NEW s
  PROVE  /\ IsFiniteSet(DOMAIN Queries[pass])
         /\ \A q \in DOMAIN Queries[pass] :
              /\ NowDecodes(t, s)[q] = DecodesIn(Queries[pass][q], DoneOf(q), t, s)
              /\ NowDecodes(t, s)[q] \in Nat
         /\ Total(NowDecodes(t, s), DOMAIN Queries[pass]) \in Nat
<1>1. pass \in DOMAIN Queries
  BY PassesAre DEF ThreadsInOrder, Profiled
<1>2. IsFiniteSet(DOMAIN Queries[pass])
  BY <1>1, PassesAre
<1>3. ASSUME NEW q \in DOMAIN Queries[pass]
      PROVE  /\ NowDecodes(t, s)[q] = DecodesIn(Queries[pass][q], DoneOf(q), t, s)
             /\ NowDecodes(t, s)[q] \in Nat
  <2>1. NowDecodes(t, s)[q] = DecodesIn(Queries[pass][q], DoneOf(q), t, s)
    BY DEF NowDecodes
  <2>2. DoneOf(q) \in Nat
    BY DoneOfIsNat
  <2>3. DecodesIn(Queries[pass][q], DoneOf(q), t, s) \in Nat
    BY <2>2, DecodesGrow
  <2> QED
    BY <2>1, <2>3
<1>4. \A q \in DOMAIN Queries[pass] :
        /\ NowDecodes(t, s)[q] = DecodesIn(Queries[pass][q], DoneOf(q), t, s)
        /\ NowDecodes(t, s)[q] \in Nat
  BY <1>3
<1>5. Total(NowDecodes(t, s), DOMAIN Queries[pass]) \in Nat
  BY <1>2, <1>4, TotalIs
<1> QED
  BY <1>2, <1>4, <1>5

\* One number of many is greater.
Changes(f, g, S, e, d) ==
  /\ IsFiniteSet(S) /\ e \in S
  /\ \A x \in S : f[x] \in Nat /\ g[x] \in Nat
  /\ \A x \in S \ {e} : g[x] = f[x]
  /\ d \in Nat /\ g[e] = f[e] + d

\* Then the total is greater by as much.
LEMMA OneChange ==
  ASSUME NEW f, NEW g, NEW S, NEW e, NEW d, Changes(f, g, S, e, d)
  PROVE  Total(g, S) = Total(f, S) + d
<1>1. Total(g, S) = Total(f, S) - f[e] + g[e]
  BY TotalChanges DEF Changes
<1>2. f[e] \in Nat /\ Total(f, S) \in Nat /\ d \in Nat /\ g[e] = f[e] + d
  BY TotalIs DEF Changes
<1> DEFINE a == f[e]
           b == g[e]
           x == Total(f, S)
           y == Total(g, S)
<1>3. a \in Nat /\ x \in Nat /\ d \in Nat /\ b = a + d /\ y = (x - a) + b
  BY <1>1, <1>2
<1> HIDE DEF a, b, x, y
<1>4. y = x + d
  BY <1>3
<1> QED
  BY <1>4 DEF x, y

\* A step of a thread adds what it decodes.
Adds(query, n, t, s) == IF query # <<>> /\ query[n + 1] = <<"decode", t, s>> THEN 1 ELSE 0

\* A step of a thread adds to the decodes of the slot that it decodes.
LEMMA SoFarStep ==
  ASSUME ThreadsInOrder, ~Profiled, NEW tid \in DOMAIN threads, Running(tid),
         GoOn(tid), pass' = pass, NEW q, q = threads[tid].i + 1,
         NEW n, n = threads[tid].done, NEW query, query = Queries[pass][q],
         NEW t, NEW s
  PROVE  /\ DecodesSoFar(t, s) \in Nat
         /\ DecodesSoFar(t, s)' = DecodesSoFar(t, s) + Adds(query, n, t, s)
<1> DEFINE f == NowDecodes(t, s)
           g == NowDecodes(t, s)'
           S == DOMAIN Queries[pass]
           before == Total(PassDecodes(t, s), 1..(pass - 1))
           d == IF query # <<>> /\ query[n + 1] = <<"decode", t, s>> THEN 1 ELSE 0
<1>1. /\ pass \in DOMAIN Queries /\ q \in S
      /\ n \in Nat /\ DoneOf(q) = n
      /\ query = <<>> => n = 0 /\ DoneOf(q)' = 0
      /\ query # <<>> => n < Len(query) /\ DoneOf(q)' = n + 1
      /\ \A r \in S \ {q} : DoneOf(r)' = DoneOf(r)
      /\ ThreadsInOrder'
  BY DoneStep
<1>2. /\ IsFiniteSet(S)
      /\ \A r \in S : f[r] = DecodesIn(Queries[pass][r], DoneOf(r), t, s) /\ f[r] \in Nat
      /\ Total(f, S) \in Nat
  BY NowDecodesAre
<1>3. \A r \in S : g[r] = DecodesIn(Queries[pass][r], DoneOf(r)', t, s)
  BY DEF NowDecodes
<1>4. g[q] = f[q] + d /\ g[q] \in Nat
  <2>1. f[q] = DecodesIn(query, n, t, s) /\ g[q] = DecodesIn(query, DoneOf(q)', t, s)
        /\ f[q] \in Nat
    BY <1>1, <1>2, <1>3
  <2>2. CASE query = <<>>
    <3>1. g[q] = f[q] /\ d = 0
      BY <1>1, <2>1, <2>2
    <3> HIDE DEF f, g, d
    <3> QED
      BY <2>1, <3>1
  <2>3. CASE query # <<>>
    <3>0. \A m \in Nat : DecodesIn(query, m + 1, t, s) = DecodesIn(query, m, t, s)
            + IF query[m + 1] = <<"decode", t, s>> THEN 1 ELSE 0
      <4>1. \A x : \A m \in Nat : DecodesIn(x, m + 1, t, s) = DecodesIn(x, m, t, s)
            + IF x[m + 1] = <<"decode", t, s>> THEN 1 ELSE 0
        <5> TAKE x
        <5> QED
          BY DecodesGrow
      <4> QED
        BY <4>1
    <3>1. DecodesIn(query, n + 1, t, s) = DecodesIn(query, n, t, s)
            + IF query[n + 1] = <<"decode", t, s>> THEN 1 ELSE 0
      BY <1>1, <3>0, Zenon
    <3>2. d = IF query[n + 1] = <<"decode", t, s>> THEN 1 ELSE 0
      BY <2>3
    <3>3. g[q] = f[q] + d
      BY <1>1, <2>1, <2>3, <3>1, <3>2
    <3>4. d \in Nat
      OBVIOUS
    <3> HIDE DEF f, g, d
    <3> QED
      BY <2>1, <3>3, <3>4
  <2> QED
    BY <2>2, <2>3
<1>5. \A r \in S \ {q} : g[r] = f[r]
  BY <1>1, <1>2, <1>3
<1>6. Total(g, S) = Total(f, S) + d
  <2>1. \A r \in S : g[r] \in Nat
    BY <1>2, <1>4, <1>5
  <2>0. /\ IsFiniteSet(S) /\ q \in S
        /\ \A x \in S : f[x] \in Nat /\ g[x] \in Nat
    BY <1>1, <1>2, <2>1
  <2>2. Changes(f, g, S, q, d)
    BY <1>4, <1>5, <2>0 DEF Changes
  <2> HIDE DEF f, g, S, d
  <2> QED
    BY <2>2, OneChange
<1>7. before \in Nat
  <2>0. pass - 1 \in Int /\ 1..(pass - 1) \in SUBSET DOMAIN Queries
    BY <1>1, PassesAre
  <2>1. IsFiniteSet(1..(pass - 1))
    BY <2>0, FS_Interval
  <2>2. \A p \in 1..(pass - 1) : PassDecodes(t, s)[p] \in Nat
    BY <2>0, PassDecodesAre
  <2> QED
    BY <2>1, <2>2, TotalIs
<1>8. DecodesSoFar(t, s) = before + Total(f, S)
  BY DEF DecodesSoFar
<1>9. DecodesSoFar(t, s)' = before + Total(g, S)
  <2>1. ~Profiled'
    BY DEF Profiled
  <2>2. PassDecodes(t, s)' = PassDecodes(t, s)
    BY DEF PassDecodes, DecodesIn, Total, IsSum, Chosen
  <2>3. (Total(PassDecodes(t, s), 1..(pass - 1)))' = before
    BY DEF PassDecodes, DecodesIn, Total, IsSum, Chosen
  <2>4. (Total(NowDecodes(t, s), DOMAIN Queries[pass]))' = Total(g, S)
    BY DEF Total, IsSum, Chosen
  <2>5. DecodesSoFar(t, s)' = (Total(PassDecodes(t, s), 1..(pass - 1)))'
          + (IF Profiled THEN 0 ELSE Total(NowDecodes(t, s), DOMAIN Queries[pass]))'
    BY DEF DecodesSoFar
  <2> QED
    BY <2>1, <2>3, <2>4, <2>5
<1> HIDE DEF f, g, S, before, d
<1>10. d \in Nat
  BY DEF d
<1>11. DecodesSoFar(t, s) \in Nat /\ DecodesSoFar(t, s)' = DecodesSoFar(t, s) + d
  BY <1>2, <1>6, <1>7, <1>8, <1>9, <1>10
<1> QED
  BY <1>11 DEF d, Adds

\* The counters after a list was opened.
LEMMA OpensList ==
  ASSUME NEW t0 \in Terms,
         block_freqs' = [t \in DOMAIN block_freqs \cup {t0} |->
                           IF t \in DOMAIN block_freqs THEN block_freqs[t]
                           ELSE [s \in Slots(t) |-> 0]]
  PROVE  /\ Opened' = Opened \cup {t0}
         /\ \A t \in Opened : block_freqs'[t] = block_freqs[t]
         /\ t0 \notin Opened => block_freqs'[t0] = [s \in Slots(t0) |-> 0]
BY DEF Opened

\* The counters after a block was decoded.
LEMMA CountsBlock ==
  ASSUME ListsOpened, NEW t0 \in Opened, NEW s0 \in Slots(t0),
         block_freqs' = [block_freqs EXCEPT ![t0][s0] = @ + 1]
  PROVE  /\ Opened' = Opened
         /\ \A t \in Opened : block_freqs'[t] \in [Slots(t) -> Nat]
         /\ \A t \in Opened : \A s \in Slots(t) :
              block_freqs'[t][s] = block_freqs[t][s] + IF t = t0 /\ s = s0 THEN 1 ELSE 0
<1>1. Opened' = Opened
  BY DEF Opened
<1>2. \A t \in Opened : block_freqs[t] \in [Slots(t) -> Nat]
  BY DEF ListsOpened
<1>3. ASSUME NEW t \in Opened
      PROVE  /\ block_freqs'[t] \in [Slots(t) -> Nat]
             /\ \A s \in Slots(t) :
                  block_freqs'[t][s] = block_freqs[t][s] + IF t = t0 /\ s = s0 THEN 1 ELSE 0
  <2>0. block_freqs[t] \in [Slots(t) -> Nat]
    BY <1>2
  <2>1. CASE t # t0
    <3>1. block_freqs'[t] = block_freqs[t]
      BY <2>1 DEF Opened
    <3> QED
      BY <2>0, <2>1, <3>1
  <2>2. CASE t = t0
    <3>1. block_freqs'[t] = [block_freqs[t] EXCEPT ![s0] = @ + 1]
      BY <2>2 DEF Opened
    <3> QED
      BY <2>0, <2>2, <3>1
  <2> QED
    BY <2>1, <2>2
<1>4. \A t \in Opened :
        /\ block_freqs'[t] \in [Slots(t) -> Nat]
        /\ \A s \in Slots(t) :
             block_freqs'[t][s] = block_freqs[t][s] + IF t = t0 /\ s = s0 THEN 1 ELSE 0
  BY <1>3
<1> QED
  BY <1>1, <1>4

\* What is decoded was opened before in the same query.
LEMMA OpenedBefore ==
  ASSUME NEW p \in DOMAIN Queries, NEW q \in DOMAIN Queries[p],
         NEW k \in 1..Len(Queries[p][q]), NEW t, NEW s,
         Queries[p][q][k] = <<"decode", t, s>>
  PROVE  \E j \in 1..(k - 1) : Queries[p][q][j] = <<"open", t>>
<1>1. k \in DOMAIN Queries[p][q]
  BY QueryIs
<1>2. Queries[p][q][k][1] = "decode" /\ Queries[p][q][k][2] = t
  OBVIOUS
<1> QED
  BY <1>1, <1>2, QueriesAssumption DEF QueriesAssumption

\* A step of a thread keeps what is said of the profile.
LEMMA ThreadKeeps ==
  ASSUME ThreadsInOrder, ListsOpened, CountsKept, NEW tid \in DOMAIN threads, Thread(tid)
  PROVE  ThreadsInOrder' /\ ListsOpened' /\ CountsKept'
<1> PICK q : q = threads[tid].i + 1
  OBVIOUS
<1> PICK n : n = threads[tid].done
  OBVIOUS
<1> PICK query : query = Queries[pass][q]
  OBVIOUS
<1>1. /\ ~Profiled /\ Running(tid) /\ GoOn(tid) /\ pass' = pass /\ ~Profiled'
      /\ IF query = <<>> THEN block_freqs' = block_freqs ELSE open_list(tid) \/ count_block(tid)
      /\ Doing(tid) = query[n + 1]
  <2>1. pass <= Len(Queries) /\ pass \in Int /\ Len(Queries) \in Int
    BY PassesAre DEF Thread, ThreadsInOrder
  <2> QED
    BY <2>1 DEF Thread, Profiled, Doing
<1>2. /\ pass \in DOMAIN Queries /\ q \in DOMAIN Queries[pass]
      /\ n \in Nat /\ DoneOf(q) = n
      /\ query = <<>> => n = 0 /\ DoneOf(q)' = 0
      /\ query # <<>> => n < Len(query) /\ DoneOf(q)' = n + 1
      /\ \A r \in DOMAIN Queries[pass] \ {q} : DoneOf(r)' = DoneOf(r)
      /\ ThreadsInOrder'
  BY <1>1, DoneStep
<1>3. ASSUME NEW t \in Terms, NEW s \in Slots(t)
      PROVE  /\ DecodesSoFar(t, s) \in Nat
             /\ DecodesSoFar(t, s)' = DecodesSoFar(t, s)
                  + IF query # <<>> /\ query[n + 1] = <<"decode", t, s>> THEN 1 ELSE 0
  <2>1. DecodesSoFar(t, s) \in Nat /\ DecodesSoFar(t, s)' = DecodesSoFar(t, s) + Adds(query, n, t, s)
    BY <1>1, SoFarStep
  <2> QED
    BY <2>1 DEF Adds
<1>4. /\ Opened \subseteq Terms
      /\ \A t \in Opened : block_freqs[t] \in [Slots(t) -> Nat]
      /\ \A r \in DOMAIN Queries[pass] : \A k \in 1..DoneOf(r) :
           Queries[pass][r][k][1] = "open" => Queries[pass][r][k][2] \in Opened
  BY <1>1 DEF ListsOpened
<1>5. \A t \in Terms : \A s \in Slots(t) : Counter(t, s) = DecodesSoFar(t, s)
  BY DEF CountsKept
<1>6. CASE query = <<>>
  <2>1. block_freqs' = block_freqs /\ Opened' = Opened
    BY <1>1, <1>6 DEF Opened
  <2>2. \A r \in DOMAIN Queries[pass] : DoneOf(r)' = DoneOf(r)
    BY <1>2, <1>6
  <2>3. ListsOpened'
    BY <1>1, <1>4, <2>1, <2>2 DEF ListsOpened
  <2>4. ASSUME NEW t \in Terms, NEW s \in Slots(t) PROVE Counter(t, s)' = DecodesSoFar(t, s)'
    <3>1. DecodesSoFar(t, s)' = DecodesSoFar(t, s)
      BY <1>3, <1>6
    <3>2. Counter(t, s)' = Counter(t, s)
      BY <2>1 DEF Counter
    <3> QED
      BY <1>5, <3>1, <3>2
  <2> QED
    BY <1>2, <2>3, <2>4 DEF CountsKept
<1>7. CASE query # <<>>
  <2>0. /\ n + 1 \in 1..Len(query) /\ DoneOf(q)' = n + 1
        /\ 1..(n + 1) = (1..n) \cup {n + 1}
    <3>1. n \in Nat /\ n < Len(query) /\ Len(query) \in Nat
      BY <1>2, <1>7, QueryIs
    <3> QED
      BY <1>2, <1>7, <3>1
  <2>1. \/ \E t \in Terms : query[n + 1] = <<"open", t>>
        \/ \E t \in Terms : \E s \in Slots(t) : query[n + 1] = <<"decode", t, s>>
    BY <1>2, <2>0, QueryIs
  <2>2. ASSUME NEW t0 \in Terms, query[n + 1] = <<"open", t0>>
        PROVE  ListsOpened' /\ CountsKept'
    <3>1. Doing(tid)[1] = "open" /\ Doing(tid)[2] = t0
      BY <1>1, <2>2
    <3>2. block_freqs' = [t \in DOMAIN block_freqs \cup {t0} |->
                            IF t \in DOMAIN block_freqs THEN block_freqs[t]
                            ELSE [s \in Slots(t) |-> 0]]
      BY <1>1, <1>7, <3>1 DEF open_list, count_block
    <3>3. /\ Opened' = Opened \cup {t0}
          /\ \A t \in Opened : block_freqs'[t] = block_freqs[t]
          /\ t0 \notin Opened => block_freqs'[t0] = [s \in Slots(t0) |-> 0]
      BY <3>2, OpensList
    <3>4. ASSUME NEW t \in Opened' PROVE block_freqs'[t] \in [Slots(t) -> Nat]
      <4>1. CASE t \in Opened
        BY <1>4, <3>3, <4>1
      <4>2. CASE t \notin Opened
        <5>1. t = t0 /\ block_freqs'[t] = [s \in Slots(t) |-> 0]
          BY <3>3, <4>2
        <5> QED
          BY <5>1
      <4> QED
        BY <4>1, <4>2
    <3>5. ASSUME NEW r \in DOMAIN Queries[pass], NEW k \in 1..(DoneOf(r)'),
                 Queries[pass][r][k][1] = "open"
          PROVE  Queries[pass][r][k][2] \in Opened'
      <4>1. CASE r = q /\ k = n + 1
        <5>1. Queries[pass][r][k] = <<"open", t0>>
          BY <2>2, <4>1
        <5> QED
          BY <3>3, <5>1
      <4>2. CASE ~(r = q /\ k = n + 1)
        <5>1. k \in 1..DoneOf(r)
          BY <1>2, <2>0, <4>2
        <5> QED
          BY <1>4, <3>3, <3>5, <5>1
      <4> QED
        BY <4>1, <4>2
    <3>6. ListsOpened'
      BY <1>1, <1>4, <3>3, <3>4, <3>5 DEF ListsOpened
    <3>7. ASSUME NEW t \in Terms, NEW s \in Slots(t) PROVE Counter(t, s)' = DecodesSoFar(t, s)'
      <4>1. DecodesSoFar(t, s)' = DecodesSoFar(t, s)
        <5>1. <<"open", t0>> # <<"decode", t, s>>
          OBVIOUS
        <5> QED
          BY <1>3, <2>2, <5>1
      <4>2. CASE t \in Opened
        BY <1>5, <3>3, <4>1, <4>2 DEF Counter
      <4>3. CASE t \notin Opened
        <5>1. Counter(t, s)' = 0
          BY <3>3, <4>3 DEF Counter
        <5> QED
          BY <1>5, <4>1, <4>3, <5>1 DEF Counter
      <4> QED
        BY <4>2, <4>3
    <3> QED
      BY <3>6, <3>7 DEF CountsKept
  <2>3. ASSUME NEW t0 \in Terms, NEW s0 \in Slots(t0), query[n + 1] = <<"decode", t0, s0>>
        PROVE  ListsOpened' /\ CountsKept'
    <3>1. Doing(tid)[1] = "decode" /\ Doing(tid)[2] = t0 /\ Doing(tid)[3] = s0
      BY <1>1, <2>3
    <3>2. block_freqs' = [block_freqs EXCEPT ![t0][s0] = @ + 1]
      BY <1>1, <1>7, <3>1 DEF open_list, count_block
    <3>3. PICK j \in 1..n : query[j] = <<"open", t0>>
      <4>1. \E j \in 1..((n + 1) - 1) : Queries[pass][q][j] = <<"open", t0>>
        BY <1>2, <2>0, <2>3, OpenedBefore
      <4>2. (n + 1) - 1 = n
        BY <1>2
      <4> QED
        BY <4>1, <4>2
    <3>4. t0 \in Opened
      <4>1. Queries[pass][q][j][1] = "open" /\ Queries[pass][q][j][2] = t0 /\ j \in 1..DoneOf(q)
        BY <1>2, <3>3
      <4> QED
        BY <1>2, <1>4, <4>1
    <3>5. /\ Opened' = Opened
          /\ \A t \in Opened : block_freqs'[t] \in [Slots(t) -> Nat]
          /\ \A t \in Opened : \A s \in Slots(t) :
               block_freqs'[t][s] = block_freqs[t][s] + IF t = t0 /\ s = s0 THEN 1 ELSE 0
      BY <3>2, <3>4, CountsBlock
    <3>6. ASSUME NEW r \in DOMAIN Queries[pass], NEW k \in 1..(DoneOf(r)'),
                 Queries[pass][r][k][1] = "open"
          PROVE  Queries[pass][r][k][2] \in Opened'
      <4>1. CASE r = q /\ k = n + 1
        <5>1. Queries[pass][r][k] = <<"decode", t0, s0>>
          BY <2>3, <4>1
        <5>2. Queries[pass][r][k][1] = "decode"
          BY <5>1
        <5> QED
          BY <3>6, <5>2
      <4>2. CASE ~(r = q /\ k = n + 1)
        <5>1. k \in 1..DoneOf(r)
          BY <1>2, <2>0, <4>2
        <5> QED
          BY <1>4, <3>5, <3>6, <5>1
      <4> QED
        BY <4>1, <4>2
    <3>7. ListsOpened'
      BY <1>1, <1>4, <3>5, <3>6 DEF ListsOpened
    <3>8. ASSUME NEW t \in Terms, NEW s \in Slots(t) PROVE Counter(t, s)' = DecodesSoFar(t, s)'
      <4>1. query[n + 1] = <<"decode", t, s>> <=> t = t0 /\ s = s0
        BY <2>3
      <4>2. CASE t \in Opened
        BY <1>3, <1>5, <1>7, <3>5, <4>1, <4>2 DEF Counter
      <4>3. CASE t \notin Opened
        <5>1. t # t0 /\ Counter(t, s)' = 0 /\ Counter(t, s) = 0
          BY <3>4, <3>5, <4>3 DEF Counter
        <5> QED
          BY <1>3, <1>5, <4>1, <5>1
      <4> QED
        BY <4>2, <4>3
    <3> QED
      BY <3>7, <3>8 DEF CountsKept
  <2> QED
    BY <1>2, <2>1, <2>2, <2>3
<1> QED
  BY <1>6, <1>7

\* The total of nothing but zeros.
LEMMA TotalOfZeros ==
  ASSUME NEW S, IsFiniteSet(S), NEW f, \A x \in S : f[x] = 0
  PROVE  Total(f, S) = 0
<1>1. \A x \in S : f[x] \in Nat /\ f[x] \in Nat /\ f[x] = f[x] + f[x]
  OBVIOUS
<1>2. Total(f, S) = Total(f, S) + Total(f, S)
  <2>1. \A g, h : (\A x \in S : f[x] \in Nat /\ g[x] \in Nat /\ h[x] = f[x] + g[x])
                => Total(h, S) = Total(f, S) + Total(g, S)
    BY TotalOfSums
  <2> QED
    BY <1>1, <2>1, Zenon
<1>3. Total(f, S) \in Nat
  BY <1>1, TotalIs
<1> DEFINE a == Total(f, S)
<1>4. a \in Nat /\ a = a + a
  BY <1>2, <1>3
<1> HIDE DEF a
<1>5. a = 0
  BY <1>4
<1> QED
  BY <1>5 DEF a

\* When all threads are done, so are the queries of the pass.
LEMMA PassIsDone ==
  ASSUME ThreadsInOrder, ~Profiled, \A tid \in DOMAIN threads : ~Running(tid),
         NEW t, NEW s
  PROVE  Total(NowDecodes(t, s), DOMAIN Queries[pass]) = PassDecodes(t, s)[pass]
<1>1. /\ Threads \in Nat \ {0} /\ pass \in DOMAIN Queries
      /\ DOMAIN Queries[pass] = 1..Len(Queries[pass]) /\ Len(Queries[pass]) \in Nat
  BY PassesAre, ProfilerAssumption DEF ProfilerAssumption, ThreadsInOrder, Profiled
<1> DEFINE f == NowDecodes(t, s)
           g == [q \in DOMAIN Queries[pass] |->
                   DecodesIn(Queries[pass][q], Len(Queries[pass][q]), t, s)]
<1>2. ASSUME NEW q \in DOMAIN Queries[pass] PROVE DoneOf(q) = Len(Queries[pass][q])
  <2> DEFINE u == (q - 1) % Threads
  <2>0. q - 1 \in Nat /\ q - 1 < Len(Queries[pass])
    BY <1>1
  <2>1. u \in 0..(Threads - 1) /\ q - 1 \in Nat /\ q - 1 < Len(Queries[pass])
    BY <1>1, <2>0, Division
  <2>2. DoneOf(q) = IF threads[u].i > q - 1 THEN Len(Queries[pass][q])
                    ELSE IF threads[u].i = q - 1 THEN threads[u].done ELSE 0
    BY DEF DoneOf
  <2> HIDE DEF u
  <2>3. threads[u] \in [i : Nat, done : Nat] /\ u \in DOMAIN threads
    BY <2>1 DEF ThreadsInOrder
  <2>4. ~(threads[u].i < Len(Queries[pass])) /\ threads[u].i \in Nat
    BY <2>3 DEF Running
  <2> QED
    BY <1>1, <2>1, <2>2, <2>4
<1>3. /\ IsFiniteSet(DOMAIN Queries[pass])
      /\ \A q \in DOMAIN Queries[pass] : f[q] \in Nat /\ f[q] = g[q]
  BY <1>2, NowDecodesAre
<1>4. PassDecodes(t, s)[pass] = Total(g, DOMAIN Queries[pass])
  BY <1>1, PassDecodesAre
<1> HIDE DEF f, g
<1>5. Total(f, DOMAIN Queries[pass]) = Total(g, DOMAIN Queries[pass])
  BY <1>3, TotalSame
<1> QED
  BY <1>4, <1>5 DEF f

\* Threads that begin have done nothing.
Begins == threads = StartThreads /\ pass \in 1..(Len(Queries) + 1)
NothingDone ==
  /\ \A q \in DOMAIN Queries[pass] : DoneOf(q) = 0
  /\ \A t, s : Total(NowDecodes(t, s), DOMAIN Queries[pass]) = 0

\* Nothing is done when a pass begins.
LEMMA PassBegins == Begins => ThreadsInOrder /\ (~Profiled => NothingDone)
<1> SUFFICES ASSUME threads = StartThreads, pass \in 1..(Len(Queries) + 1)
             PROVE  /\ ThreadsInOrder
                    /\ ~Profiled => /\ \A q \in DOMAIN Queries[pass] : DoneOf(q) = 0
                                    /\ \A t, s : Total(NowDecodes(t, s), DOMAIN Queries[pass]) = 0
  BY DEF Begins, NothingDone
<1>1. Threads \in Nat \ {0}
  BY ProfilerAssumption DEF ProfilerAssumption
<1>2. /\ threads \in [0..(Threads - 1) -> [i : Nat, done : Nat]]
      /\ \A u \in 0..(Threads - 1) : threads[u].i = u /\ threads[u].done = 0
  BY <1>1 DEF StartThreads
<1>3. ASSUME NEW u \in 0..(Threads - 1) PROVE u % Threads = u
  <2>1. u \in Nat /\ u = 0 * Threads + u
    BY <1>1
  <2> QED
    BY <1>1, <2>1, DivisionIs
<1>4. ThreadsInOrder
  <2>1. \A u \in 0..(Threads - 1) : threads[u].i % Threads = u
    BY <1>2, <1>3
  <2> QED
    BY <1>2, <2>1 DEF ThreadsInOrder
<1>5. ASSUME ~Profiled
      PROVE  /\ \A q \in DOMAIN Queries[pass] : DoneOf(q) = 0
             /\ \A t, s : Total(NowDecodes(t, s), DOMAIN Queries[pass]) = 0
  <2>1. /\ pass \in DOMAIN Queries
        /\ DOMAIN Queries[pass] = 1..Len(Queries[pass]) /\ Len(Queries[pass]) \in Nat
        /\ IsFiniteSet(DOMAIN Queries[pass])
    BY <1>5, PassesAre DEF Profiled
  <2>2. ASSUME NEW q \in DOMAIN Queries[pass] PROVE DoneOf(q) = 0
    <3> DEFINE u == (q - 1) % Threads
               k == q - 1
    <3>1. k \in Nat
      BY <2>1
    <3>2. u \in 0..(Threads - 1) /\ u <= k
      <4> DEFINE a == (k \div Threads) * Threads
      <4>1. k % Threads \in 0..(Threads - 1) /\ a \in Nat /\ k = a + (k % Threads)
        BY <1>1, <3>1, Division
      <4>2. u = k % Threads
        OBVIOUS
      <4> HIDE DEF a, u, k
      <4>3. u \in 0..(Threads - 1) /\ k = a + u /\ a \in Nat
        BY <4>1, <4>2
      <4> QED
        BY <1>1, <4>3
    <3>3. DoneOf(q) = IF threads[u].i > k THEN Len(Queries[pass][q])
                      ELSE IF threads[u].i = k THEN threads[u].done ELSE 0
      BY DEF DoneOf
    <3> HIDE DEF u, k
    <3>4. threads[u].i = u /\ threads[u].done = 0
      BY <1>2, <3>2
    <3> QED
      BY <1>1, <3>1, <3>2, <3>3, <3>4
  <2>3. ASSUME NEW t, NEW s PROVE Total(NowDecodes(t, s), DOMAIN Queries[pass]) = 0
    <3>1. \A q \in DOMAIN Queries[pass] : NowDecodes(t, s)[q] = 0
      BY <2>2, DecodesGrow DEF NowDecodes
    <3> QED
      BY <2>1, <3>1, TotalOfZeros
  <2> QED
    BY <2>2, <2>3
<1> QED
  BY <1>4, <1>5

\* The next pass keeps what is said of the profile.
LEMMA JoinKeeps ==
  ASSUME ThreadsInOrder, ListsOpened, CountsKept, JoinAll
  PROVE  ThreadsInOrder' /\ ListsOpened' /\ CountsKept'
<1>1. /\ ~Profiled /\ pass' = pass + 1 /\ threads' = StartThreads /\ block_freqs' = block_freqs
      /\ \A tid \in DOMAIN threads : ~Running(tid)
      /\ pass \in DOMAIN Queries /\ pass \in Nat \ {0} /\ pass' \in 1..(Len(Queries) + 1)
  BY PassesAre DEF JoinAll, Profiled, ThreadsInOrder
<1>2. /\ ThreadsInOrder'
      /\ ~Profiled' => /\ \A q \in DOMAIN Queries[pass'] : DoneOf(q)' = 0
                       /\ \A t, s : (Total(NowDecodes(t, s), DOMAIN Queries[pass]))' = 0
  <2>1. Begins'
    BY <1>1 DEF StartThreads, Begins
  <2>2. ThreadsInOrder' /\ (~Profiled' => NothingDone')
    BY <2>1, PassBegins, PTL
  <2> QED
    BY <2>2 DEF NothingDone
<1>3. ListsOpened'
  <2>1. Opened' = Opened
    BY <1>1 DEF Opened
  <2>2. ~Profiled' => \A q \in DOMAIN Queries[pass'] : 1..(DoneOf(q)') = {}
    BY <1>2
  <2> QED
    BY <1>1, <2>1, <2>2 DEF ListsOpened
<1>4. ASSUME NEW t \in Terms, NEW s \in Slots(t) PROVE Counter(t, s)' = DecodesSoFar(t, s)'
  <2> DEFINE P == PassDecodes(t, s)
             now == Total(NowDecodes(t, s), DOMAIN Queries[pass])
             before == Total(P, 1..(pass - 1))
             after == Total(P, 1..pass)
  <2>1. Counter(t, s)' = Counter(t, s)
    BY <1>1 DEF Counter, Opened
  <2>2. Counter(t, s) = before + now
    BY <1>1 DEF CountsKept, DecodesSoFar
  <2>3. now = P[pass]
    BY <1>1, PassIsDone
  <2>4. after = before + P[pass] /\ after \in Nat
    <3>1. /\ pass - 1 \in Int /\ 1..(pass - 1) \in SUBSET DOMAIN Queries
          /\ pass \notin 1..(pass - 1) /\ 1..pass = (1..(pass - 1)) \cup {pass}
          /\ 1..pass \in SUBSET DOMAIN Queries
      BY <1>1, PassesAre
    <3>2. IsFiniteSet(1..(pass - 1)) /\ IsFiniteSet(1..pass)
      <4>1. \A m \in Int : IsFiniteSet(1..m)
        BY FS_Interval
      <4> QED
        BY <1>1, <3>1, <4>1
    <3>3. /\ \A p \in 1..(pass - 1) : P[p] \in Nat
          /\ \A p \in 1..pass : P[p] \in Nat
          /\ P[pass] \in Nat
      BY <1>1, <3>1, PassDecodesAre
    <3> HIDE DEF P
    <3>4. Total(P, (1..(pass - 1)) \cup {pass}) = Total(P, 1..(pass - 1)) + P[pass]
      BY <3>1, <3>2, <3>3, TotalAdd
    <3>5. Total(P, 1..pass) \in Nat
      BY <3>2, <3>3, TotalIs
    <3> QED
      BY <3>1, <3>4, <3>5
  <2>5. DecodesSoFar(t, s)' = after
    <3>1. (Total(PassDecodes(t, s), 1..(pass - 1)))' = Total(P, 1..(pass' - 1))
      BY DEF PassDecodes, DecodesIn, Total, IsSum, Chosen
    <3>2. pass' - 1 = pass
      BY <1>1
    <3>3. DecodesSoFar(t, s)' = (Total(PassDecodes(t, s), 1..(pass - 1)))'
            + (IF Profiled' THEN 0 ELSE (Total(NowDecodes(t, s), DOMAIN Queries[pass]))')
      BY DEF DecodesSoFar
    <3>4. ~Profiled' => (Total(NowDecodes(t, s), DOMAIN Queries[pass]))' = 0
      BY <1>2
    <3> HIDE DEF P
    <3>5. after \in Nat
      BY <2>4
    <3> QED
      BY <3>1, <3>2, <3>3, <3>4, <3>5
  <2> HIDE DEF P, now, before, after
  <2> QED
    BY <2>1, <2>2, <2>3, <2>4, <2>5
<1> QED
  BY <1>2, <1>3, <1>4 DEF CountsKept

\* The counters of a profile are how often the queries decode the slots.
LEMMA CountersAre ==
  ASSUME ThreadsInOrder, CountsKept, Profiled, NEW t \in Terms, NEW s \in Slots(t)
  PROVE  Counter(t, s) = Decodes(t, s) /\ Decodes(t, s) \in Nat
<1> DEFINE P == PassDecodes(t, s)
           row(p) == [q \in DOMAIN Queries[p] |->
                        DecodesIn(Queries[p][q], Len(Queries[p][q]), t, s)]
           counts(p) == [q \in DOMAIN Queries[p] |->
                        Cardinality({i \in DOMAIN Queries[p][q] :
                                       Queries[p][q][i] = <<"decode", t, s>>})]
           D == [p \in DOMAIN Queries |-> SumFunction(counts(p))]
<1>1. 1..(pass - 1) = DOMAIN Queries /\ IsFiniteSet(DOMAIN Queries)
  <2>1. pass = Len(Queries) + 1 /\ Len(Queries) \in Nat
    BY PassesAre DEF ThreadsInOrder, Profiled
  <2> QED
    BY <2>1, PassesAre
<1>2. Counter(t, s) = Total(P, DOMAIN Queries) /\ Total(P, DOMAIN Queries) \in Nat
  <2>1. Total(P, DOMAIN Queries) \in Nat
    BY <1>1, PassDecodesAre, TotalIs
  <2>2. Counter(t, s) = Total(P, 1..(pass - 1)) + 0
    BY DEF CountsKept, DecodesSoFar
  <2> HIDE DEF P
  <2> QED
    BY <1>1, <2>1, <2>2
<1>3. ASSUME NEW p \in DOMAIN Queries PROVE D[p] = P[p]
  <2>1. counts(p) = row(p)
    <3>1. ASSUME NEW q \in DOMAIN Queries[p]
          PROVE  {i \in DOMAIN Queries[p][q] : Queries[p][q][i] = <<"decode", t, s>>}
                   = {k \in 1..Len(Queries[p][q]) : Queries[p][q][k] = <<"decode", t, s>>}
      <4>1. DOMAIN Queries[p][q] = 1..Len(Queries[p][q])
        BY QueryIs
      <4> QED
        BY <4>1
    <3> QED
      BY <3>1 DEF DecodesIn
  <2>2. SumFunction(counts(p)) = Total(row(p), DOMAIN Queries[p])
    <3>1. DOMAIN counts(p) = DOMAIN Queries[p]
      OBVIOUS
    <3>2. SumFunction(counts(p)) = Total(counts(p), DOMAIN counts(p))
      BY SumFunctionIs
    <3> HIDE DEF counts, row
    <3> QED
      BY <2>1, <3>1, <3>2
  <2>3. P[p] = Total(row(p), DOMAIN Queries[p])
    BY PassDecodesAre
  <2>4. D[p] = SumFunction(counts(p))
    OBVIOUS
  <2> QED
    BY <2>2, <2>3, <2>4
<1>4. Decodes(t, s) = SumFunction(D)
  BY DEF Decodes
<1>5. DOMAIN D = DOMAIN Queries /\ DOMAIN P = DOMAIN Queries
  BY DEF PassDecodes
<1>6. \A p \in DOMAIN Queries : P[p] \in Nat
  BY PassDecodesAre
<1> HIDE DEF D, P
<1>7. SumFunction(D) = Total(D, DOMAIN Queries)
  BY <1>5, SumFunctionIs
<1>8. Total(P, DOMAIN Queries) = Total(D, DOMAIN Queries)
  BY <1>1, <1>3, <1>6, TotalSame
<1> QED
  BY <1>2, <1>4, <1>7, <1>8

\* What is said of the profile is about its variables only.
LEMMA InputStays ==
  ASSUME UNCHANGED input
  PROVE  /\ ThreadsInOrder' <=> ThreadsInOrder
         /\ ListsOpened' <=> ListsOpened
         /\ CountsKept' <=> CountsKept
         /\ Profiled' <=> Profiled
         /\ Opened' = Opened
<1>1. pass' = pass /\ threads' = threads /\ block_freqs' = block_freqs
  BY DEF input, profiler
<1>2. Opened' = Opened /\ (Profiled' <=> Profiled)
  BY <1>1 DEF Opened, Profiled
<1>3. \A q : DoneOf(q)' = DoneOf(q)
  BY <1>1 DEF DoneOf
<1>4. ThreadsInOrder' <=> ThreadsInOrder
  BY <1>1 DEF ThreadsInOrder, Profiled, Running
<1>5. ListsOpened' <=> ListsOpened
  BY <1>1, <1>2, <1>3 DEF ListsOpened
<1>6. ASSUME NEW t, NEW s
      PROVE  Counter(t, s)' = Counter(t, s) /\ DecodesSoFar(t, s)' = DecodesSoFar(t, s)
  <2>1. Counter(t, s)' = Counter(t, s)
    BY <1>1 DEF Counter, Opened
  <2>2. NowDecodes(t, s)' = NowDecodes(t, s)
    BY <1>1, <1>3 DEF NowDecodes
  <2>3. (Total(PassDecodes(t, s), 1..(pass - 1)))' = Total(PassDecodes(t, s), 1..(pass - 1))
    BY <1>1 DEF PassDecodes, DecodesIn, Total, IsSum, Chosen
  <2>4. (Total(NowDecodes(t, s), DOMAIN Queries[pass]))' = Total(NowDecodes(t, s), DOMAIN Queries[pass])
    BY <1>1, <2>2 DEF Total, IsSum, Chosen
  <2> QED
    BY <1>2, <2>1, <2>3, <2>4 DEF DecodesSoFar
<1>7. CountsKept' <=> CountsKept
  BY <1>6 DEF CountsKept
<1> QED
  BY <1>2, <1>4, <1>5, <1>7

\* The points of a block depend on the codings and the option.
LEMMA SlotPointsStay ==
  ASSUME UNCHANGED input, NEW t, NEW s
  PROVE  SlotPoints(t, s)' = SlotPoints(t, s)
<1>1. codings' = codings /\ heuristic_greedy' = heuristic_greedy
  BY DEF input
<1> QED
  BY <1>1 DEF SlotPoints, append_lambdas, Appended, StopsAt, compute_space_time

\* What is said of the file depends on the file and the input alone.
LEMMA FileStays ==
  ASSUME UNCHANGED input, lambdas' = lambdas
  PROVE  /\ FileInv' <=> FileInv
         /\ \A t, s : FileHas(t, s)' <=> FileHas(t, s)
         /\ \A p : IsCoded(p)' <=> IsCoded(p)
<1>1. \A t, s : FileHas(t, s)' <=> FileHas(t, s)
  BY SlotPointsStay DEF FileHas
<1>2. \A p : IsCoded(p)' <=> IsCoded(p)
  BY DEF IsCoded, input
<1>3. Profiled' <=> Profiled
  BY InputStays
<1> QED
  BY <1>1, <1>2, <1>3 DEF FileInv

\* What is said of the choices is about them and the codings.
LEMMA ChosenStays ==
  ASSUME UNCHANGED input, chosen' = chosen
  PROVE  /\ ChosenInv' <=> ChosenInv
         /\ \A id : Replaced(id)' = Replaced(id)
         /\ \A id : type_of(id)' = type_of(id)
         /\ (Total(Used, Blocks))' = Total(Used, Blocks)
<1>1. \A p : IsCoded(p)' <=> IsCoded(p)
  BY DEF IsCoded, input
<1>2. \A id : Replaced(id)' = Replaced(id)
  BY DEF Replaced
<1>3. Used' = Used
  BY <1>2 DEF Used
<1>4. (Total(Used, Blocks))' = Total(Used, Blocks)
  BY <1>3 DEF Total, IsSum, Chosen
<1> QED
  BY <1>1, <1>2, <1>4 DEF ChosenInv, type_of

\* The order of the walk is about what it reads.
LEMMA InOrderStays ==
  ASSUME UNCHANGED <<lambdas, points, chosen>>
  PROVE  InOrder /\ (stage' # "walk" => stage # "walk" \/ points = {}) => InOrder'
<1>1. Applied' = Applied /\ \A i : LambdaAt(i)' = LambdaAt(i)
  BY DEF Applied, LambdaAt
<1> QED
  BY <1>1 DEF InOrder

\* What the process leaves keeps the invariant: the file is as it was.
LEMMA ExitedKeeps ==
  ASSUME HybridIInv, Exited
  PROVE  HybridIInv'
<1>1. /\ UNCHANGED input /\ lambdas' = lambdas /\ stage' = "start"
      /\ codings' = codings /\ heuristic_greedy' = heuristic_greedy
      /\ l' = 0 /\ base' = 0 /\ points' = {} /\ chosen' = [id \in Blocks |-> None]
      /\ cur_space' = 0 /\ index' = <<>> /\ jobs' = <<>>
  BY DEF Exited, input
<1>2. ThreadsInOrder' /\ ListsOpened' /\ CountsKept'
  BY <1>1, InputStays DEF HybridIInv
<1>3. FileInv'
  BY <1>1, FileStays DEF HybridIInv
<1>4. ComputeInv' /\ WalkInv' /\ TransformInv'
  BY <1>1 DEF ComputeInv, WalkInv, TransformInv
<1>5. ChosenInv'
  BY <1>1 DEF ChosenInv
<1>6. RestInv'
  BY <1>1 DEF RestInv, NotWalked
<1>7. (codings \in Codings)' /\ (heuristic_greedy \in BOOLEAN)'
  BY <1>1 DEF HybridIInv
<1> QED
  BY <1>2, <1>3, <1>4, <1>5, <1>6, <1>7 DEF HybridIInv

\* A line that was read and not used is that of the next list or a later one,
\* or there is none left.
Ahead(read) ==
  /\ read = [line |-> read.line, list |-> read.list, counts |-> read.counts,
             consumed |-> read.consumed]
  /\ read.line \in 0..Cardinality(Opened) /\ read.consumed = FALSE
  /\ \/ /\ read.counts = <<>>
        /\ read.line = Cardinality(Opened)
        /\ LinesBefore(l) = Cardinality(Opened)
     \/ /\ read.list \in Opened
        /\ read.list >= l
        /\ read.line = LinesBefore(read.list) + 1
        /\ LinesBefore(l) = LinesBefore(read.list)
        /\ read.counts = block_freqs[read.list]

\* What is known of the lines of the profile.
LinesKnown ==
  /\ Opened \subseteq Terms /\ Terms = 0..(N - 1) /\ N \in Nat
  /\ Cardinality(Opened) \in Nat
  /\ \A x \in Terms : x \in Nat /\ x + 1 \in Nat
  /\ \A x \in Nat : LinesBefore(x) \in 0..Cardinality(Opened)
  /\ \A x \in Opened : \A y \in Nat : x < y => LinesBefore(x) < LinesBefore(y)
  /\ \A x \in Opened : LinesBefore(x + 1) = LinesBefore(x) + 1
  /\ \A x \in Nat : x \notin Opened => LinesBefore(x + 1) = LinesBefore(x)
  /\ \A k \in 0..(Cardinality(Opened) - 1) :
       Nth(Opened, k) \in Opened /\ LinesBefore(Nth(Opened, k)) = k

\* The lines of the profile are in the order of their lists.
LEMMA LinesAre ==
  ASSUME ListsOpened
  PROVE  LinesKnown
<1>1. Opened \in SUBSET Terms
  BY DEF ListsOpened
<1>2. \A x \in Nat : x \notin Opened => LinesBefore(x + 1) = LinesBefore(x)
  <2>1. \A x \in Nat : x \notin Opened => Lower(Opened, x + 1) = Lower(Opened, x)
    BY <1>1, NextLine
  <2> QED
    BY <2>1 DEF LinesBefore
<1>3. \A k \in 0..(Cardinality(Opened) - 1) :
        Nth(Opened, k) \in Opened /\ LinesBefore(Nth(Opened, k)) = k
  BY <1>1, NthLine DEF LinesBefore
<1>4. N \in Nat /\ Terms = 0..(N - 1) /\ \A x \in Terms : x \in Nat /\ x + 1 \in Nat
  BY ListsAre
<1>5. /\ Cardinality(Opened) \in Nat
      /\ \A x \in Nat : LinesBefore(x) \in 0..Cardinality(Opened)
      /\ \A x \in Opened : \A y \in Nat : x < y => LinesBefore(x) < LinesBefore(y)
      /\ \A x \in Opened : LinesBefore(x + 1) = LinesBefore(x) + 1
  BY <1>1, NextLine DEF LinesBefore
<1> QED
  BY <1>1, <1>2, <1>3, <1>4, <1>5 DEF LinesKnown

\* The line that is read is that of the next list or of a later one.
LEMMA ReadIsAhead ==
  ASSUME LinesKnown, MergeInv, l \in Terms
  PROVE  Ahead(read_block_stats)
<1> DEFINE read == read_block_stats
           c == Cardinality(Opened)
<1>1. /\ block_counts = [line |-> block_counts.line, list |-> block_counts.list,
                         counts |-> block_counts.counts, consumed |-> block_counts.consumed]
      /\ block_counts.line \in 0..c /\ c \in Nat /\ l \in Nat
      /\ block_counts.consumed \in BOOLEAN
  BY DEF MergeInv, LinesKnown
<1>2. CASE ~block_counts.consumed
  <2>1. read = block_counts
    BY <1>2 DEF read_block_stats
  <2> QED
    BY <1>1, <1>2, <2>1 DEF MergeInv, Ahead
<1>3. CASE block_counts.consumed /\ block_counts.line = c
  <2>1. read = [block_counts EXCEPT !.counts = <<>>, !.consumed = FALSE]
    BY <1>3 DEF read_block_stats, Opened
  <2>2. /\ read = [line |-> read.line, list |-> read.list, counts |-> read.counts,
                   consumed |-> read.consumed]
        /\ read.line = c /\ read.counts = <<>> /\ read.consumed = FALSE
    <3> HIDE DEF read
    <3>1. read = [line |-> block_counts.line, list |-> block_counts.list,
                  counts |-> <<>>, consumed |-> FALSE]
      BY <1>1, <2>1
    <3> QED
      BY <1>3, <3>1
  <2>3. LinesBefore(l) = c
    BY <1>3 DEF MergeInv
  <2> HIDE DEF read
  <2>4. Ahead(read)
    BY <1>1, <2>2, <2>3 DEF Ahead
  <2> QED
    BY <2>4 DEF read
<1>4. CASE block_counts.consumed /\ block_counts.line # c
  <2> DEFINE k == block_counts.line
             list == Nth(Opened, k)
  <2>0. k \in 0..(c - 1)
    BY <1>1, <1>4
  <2>1. list \in Opened /\ LinesBefore(list) = k /\ LinesBefore(l) = k
    BY <1>4, <2>0 DEF LinesKnown, MergeInv
  <2>2. read = [line |-> k + 1, list |-> list, counts |-> block_freqs[list], consumed |-> FALSE]
    BY <1>4 DEF read_block_stats, Opened
  <2>3. list \in Nat /\ list >= l
    <3>1. list \in Nat
      BY <2>1 DEF LinesKnown
    <3>2. list < l => LinesBefore(list) < LinesBefore(l)
      BY <1>1, <2>1 DEF LinesKnown
    <3> HIDE DEF list, k
    <3> QED
      BY <1>1, <2>0, <2>1, <3>1, <3>2
  <2> HIDE DEF read, list, k
  <2>4. /\ read = [line |-> read.line, list |-> read.list, counts |-> read.counts,
                   consumed |-> read.consumed]
        /\ read.line = k + 1 /\ read.list = list /\ read.counts = block_freqs[list]
        /\ read.consumed = FALSE
    BY <2>2
  <2>5. Ahead(read)
    BY <1>1, <2>0, <2>1, <2>3, <2>4 DEF Ahead
  <2> QED
    BY <2>5 DEF read
<1> QED
  BY <1>1, <1>2, <1>3, <1>4

\* The counts that a list is given are its own, and what is kept is ahead of
\* the next list.
LEMMA CountsOfList ==
  ASSUME LinesKnown, NEW read, Ahead(read), l \in Terms,
         NEW cnts, cnts = IF l = read.list THEN read.counts ELSE <<>>
  PROVE  IF l \in Opened THEN cnts = block_freqs[l] ELSE cnts = <<>>
<1> DEFINE c == Cardinality(Opened)
<1>1. l \in Nat /\ c \in Nat /\ LinesBefore(l) \in 0..c /\ LinesBefore(l + 1) \in 0..c
  BY DEF LinesKnown
<1>2. CASE l \in Opened
  <2>1. LinesBefore(l) + 1 = LinesBefore(l + 1)
    BY <1>2 DEF LinesKnown
  <2>2. LinesBefore(l) # c
    BY <1>1, <2>1
  <2>3. /\ read.list \in Opened /\ read.list >= l
        /\ LinesBefore(l) = LinesBefore(read.list)
        /\ read.counts = block_freqs[read.list]
    BY <2>2 DEF Ahead
  <2>4. l < read.list => LinesBefore(l) < LinesBefore(read.list)
    BY <1>2, <2>3 DEF LinesKnown
  <2>5. read.list = l
    <3>1. read.list \in Nat
      BY <2>3 DEF LinesKnown
    <3> QED
      BY <1>1, <2>3, <2>4, <3>1
  <2> QED
    BY <1>2, <2>3, <2>5
<1>3. CASE l \notin Opened
  <2>1. cnts = <<>>
    BY <1>3 DEF Ahead
  <2> QED
    BY <1>3, <2>1
<1> QED
  BY <1>2, <1>3

\* After a list, the merge is ready for the next.
LEMMA MergeGoesOn ==
  ASSUME LinesKnown, NEW read, Ahead(read), l \in Terms, UNCHANGED input, l' = l + 1,
         block_counts' = IF l = read.list THEN [read EXCEPT !.counts = <<>>, !.consumed = TRUE]
                         ELSE read
  PROVE  MergeInv'
<1> DEFINE c == Cardinality(Opened)
<1>1. l \in Nat /\ c \in Nat /\ LinesBefore(l) \in 0..c /\ LinesBefore(l + 1) \in 0..c
  BY DEF LinesKnown
<1>2. block_freqs' = block_freqs /\ Opened' = Opened
  BY InputStays DEF input, profiler
<1>3. \A t : LinesBefore(t)' = LinesBefore(t)
  BY <1>2 DEF LinesBefore, Lower
<1>4. LinesBefore(l)' = LinesBefore(l + 1)
  BY <1>2 DEF LinesBefore, Lower
<1>5. /\ read.line \in 0..c /\ read.consumed = FALSE
      /\ read = [line |-> read.line, list |-> read.list, counts |-> read.counts,
                 consumed |-> read.consumed]
  BY DEF Ahead
<1>6. CASE l = read.list
  <2>1. block_counts' = [line |-> read.line, list |-> read.list, counts |-> <<>>, consumed |-> TRUE]
    BY <1>5, <1>6
  <2>2. read.line = LinesBefore(l + 1)
    <3>1. CASE read.list \in Opened /\ read.line = LinesBefore(read.list) + 1
      BY <1>6, <3>1 DEF LinesKnown
    <3>2. CASE read.line = c /\ LinesBefore(l) = c
      <4>1. CASE l \in Opened
        <5>1. LinesBefore(l + 1) = LinesBefore(l) + 1
          BY <4>1 DEF LinesKnown
        <5> QED
          BY <1>1, <3>2, <5>1
      <4>2. CASE l \notin Opened
        <5>1. LinesBefore(l + 1) = LinesBefore(l)
          BY <1>1, <4>2 DEF LinesKnown
        <5> QED
          BY <3>2, <5>1
      <4> QED
        BY <4>1, <4>2
    <3> QED
      BY <3>1, <3>2 DEF Ahead
  <2>3. /\ block_counts'.line = read.line /\ block_counts'.consumed = TRUE
        /\ block_counts' = [line |-> block_counts'.line, list |-> block_counts'.list,
                            counts |-> block_counts'.counts, consumed |-> block_counts'.consumed]
    <3> DEFINE a == read.line
               b == read.list
               bc == block_counts'
    <3>1. bc = [line |-> a, list |-> b, counts |-> <<>>, consumed |-> TRUE]
      BY <2>1
    <3> HIDE DEF a, b, bc
    <3>2. /\ bc.line = a /\ bc.consumed = TRUE
          /\ bc = [line |-> bc.line, list |-> bc.list, counts |-> bc.counts, consumed |-> bc.consumed]
      BY <3>1
    <3> QED
      BY <3>2 DEF a, bc
  <2> QED
    BY <1>2, <1>4, <1>5, <2>2, <2>3 DEF MergeInv
<1>7. CASE l # read.list
  <2>1. block_counts' = read
    BY <1>7
  <2>2. CASE /\ read.counts = <<>>
             /\ read.line = c
             /\ LinesBefore(l) = c
    <3>1. LinesBefore(l + 1) = c
      <4>1. CASE l \in Opened
        <5>1. LinesBefore(l + 1) = LinesBefore(l) + 1
          BY <4>1 DEF LinesKnown
        <5> QED
          BY <1>1, <2>2, <5>1
      <4>2. CASE l \notin Opened
        BY <1>1, <2>2, <4>2 DEF LinesKnown
      <4> QED
        BY <4>1, <4>2
    <3> QED
      BY <1>2, <1>4, <1>5, <2>1, <2>2, <3>1 DEF MergeInv
  <2>3. CASE /\ read.list \in Opened
             /\ read.list >= l
             /\ read.line = LinesBefore(read.list) + 1
             /\ LinesBefore(l) = LinesBefore(read.list)
             /\ read.counts = block_freqs[read.list]
    <3>1. read.list \in Nat
      BY <2>3 DEF LinesKnown
    <3>2. read.list >= l + 1 /\ l < read.list
      BY <1>1, <1>7, <2>3, <3>1
    <3>3. l \notin Opened
      <4>1. l \in Opened => LinesBefore(l) < LinesBefore(read.list)
        BY <3>1, <3>2 DEF LinesKnown
      <4> QED
        BY <1>1, <2>3, <4>1
    <3>4. LinesBefore(l + 1) = LinesBefore(l)
      BY <1>1, <3>3 DEF LinesKnown
    <3>6. (LinesBefore(block_counts.list))' = LinesBefore(read.list)
      BY <1>2, <2>1 DEF LinesBefore, Lower
    <3>7. /\ block_counts'.list \in Opened' /\ block_counts'.list >= l'
          /\ block_counts'.line = (LinesBefore(block_counts.list))' + 1
          /\ LinesBefore(l)' = (LinesBefore(block_counts.list))'
          /\ block_counts'.counts = block_freqs'[block_counts'.list]
      BY <1>2, <1>4, <2>1, <2>3, <3>2, <3>4, <3>6
    <3>8. /\ block_counts'.line \in 0..Cardinality(Opened') /\ ~block_counts'.consumed
          /\ block_counts'.consumed \in BOOLEAN
          /\ block_counts' = [line |-> block_counts'.line, list |-> block_counts'.list,
                              counts |-> block_counts'.counts, consumed |-> block_counts'.consumed]
      BY <1>2, <1>5, <2>1
    <3> QED
      BY <3>7, <3>8 DEF MergeInv
  <2> QED
    BY <2>2, <2>3 DEF Ahead
<1> QED
  BY <1>6, <1>7

\* The counts a list is given are how often its slots are decoded.
LEMMA CountsAreDecodes ==
  ASSUME ThreadsInOrder, ListsOpened, CountsKept, Profiled, NEW t \in Terms, NEW cnts,
         IF t \in Opened THEN cnts = block_freqs[t] ELSE cnts = <<>>
  PROVE  /\ cnts = <<>> \/ cnts \in [Slots(t) -> Nat]
         /\ \A s \in Slots(t) :
              Decodes(t, s) = IF cnts = <<>> THEN 0 ELSE cnts[s]
<1>1. \A s \in Slots(t) : Decodes(t, s) = Counter(t, s)
  BY CountersAre
<1>2. CASE t \in Opened
  <2>1. cnts \in [Slots(t) -> Nat]
    BY <1>2 DEF ListsOpened
  <2>2. cnts # <<>>
    <3>0. Slots(t) = 0..(Width[t] - 1) /\ Width[t] = 2 * num_blocks(t) /\ num_blocks(t) \in Nat \ {0}
      BY ListsAre
    <3>1. 0 \in Slots(t)
      BY <3>0
    <3>2. 0 \in DOMAIN cnts
      BY <2>1, <3>1
    <3>3. 0 \notin DOMAIN <<>>
      OBVIOUS
    <3> QED
      BY <3>2, <3>3
  <2> QED
    BY <1>1, <1>2, <2>1, <2>2 DEF Counter
<1>3. CASE t \notin Opened
  BY <1>1, <1>3 DEF Counter
<1> QED
  BY <1>2, <1>3

\* The points of a list are appended: those of the lists before it stay, and
\* its own are added.
LEMMA FileGrows ==
  ASSUME HybridIInv, stage = "compute", l \in Terms, UNCHANGED input,
         NEW cnts, IF l \in Opened THEN cnts = block_freqs[l] ELSE cnts = <<>>,
         lambdas' = [lambdas EXCEPT !.points = @ \o PointsOf(l, base, cnts)]
  PROVE  /\ lambdas' # None /\ ~lambdas'.sorted
         /\ lambdas' = [points |-> lambdas'.points, sorted |-> FALSE]
         /\ lambdas'.points \in Seq(Point)
         /\ \A p \in Range(lambdas'.points) : IsCoded(p)' /\ p.id < BaseOf(l + 1)
         /\ \A t \in 0..l : \A s \in Slots(t) : FileHas(t, s)'
<1> DEFINE old == lambdas.points
           new == PointsOf(l, base, cnts)
<1>1. /\ Profiled /\ ThreadsInOrder /\ ListsOpened /\ CountsKept /\ codings \in Codings
      /\ base = BaseOf(l) /\ lambdas # None /\ ~lambdas.sorted
      /\ lambdas = [points |-> old, sorted |-> lambdas.sorted]
      /\ lambdas.sorted = FALSE
      /\ old \in Seq(Point) /\ \A p \in Range(old) : IsCoded(p) /\ p.id < BaseOf(l)
      /\ \A t \in 0..(l - 1) : \A s \in Slots(t) : FileHas(t, s)
  BY DEF HybridIInv, ComputeInv, FileInv, RestInv
<1>2. /\ cnts = <<>> \/ cnts \in [Slots(l) -> Nat]
      /\ \A s \in Slots(l) : Decodes(l, s) = IF cnts = <<>> THEN 0 ELSE cnts[s]
  BY <1>1, CountsAreDecodes
<1>3. /\ new \in Seq(Point)
      /\ \A p \in Range(new) : IsCoded(p) /\ \E s \in Slots(l) : p.id = BaseOf(l) + s
      /\ \A s \in Slots(l) : {p \in Range(new) : p.id = BaseOf(l) + s} = Range(SlotPoints(l, s))
  <2> DEFINE of(s) == append_lambdas(compute_space_time(l, s, BaseOf(l) + s,
                        smoothing + IF cnts = <<>> THEN 0 ELSE cnts[s]))
  <2>1. /\ new \in Seq(Point)
        /\ \A p \in Range(new) : IsCoded(p) /\ \E s \in Slots(l) : p.id = BaseOf(l) + s
        /\ \A s \in Slots(l) : {p \in Range(new) : p.id = BaseOf(l) + s} = Range(of(s))
    BY <1>1, <1>2, ListPoints
  <2>2. \A s \in Slots(l) : SlotPoints(l, s) = of(s)
    BY <1>2 DEF SlotPoints
  <2> HIDE DEF of, new
  <2> QED
    BY <2>1, <2>2
<1> HIDE DEF new
<1>4. lambdas' = [points |-> old \o new, sorted |-> FALSE]
  <2>1. lambdas' = [lambdas EXCEPT !.points = old \o new]
    BY DEF new
  <2> HIDE DEF old
  <2> QED
    BY <1>1, <2>1
<1>5. lambdas'.points = old \o new /\ lambdas'.sorted = FALSE
  BY <1>4
<1> HIDE DEF old
<1>6. old \o new \in Seq(Point) /\ Range(old \o new) = Range(old) \cup Range(new)
  BY <1>1, <1>3, RangeOfConcatenation
<1>7. lambdas' # None
  <2>1. [points |-> old \o new, sorted |-> FALSE] \in [points : Seq(Point), sorted : BOOLEAN]
    <3> DEFINE Z == Seq(Point)
               o == old \o new
    <3>1. o \in Z
      BY <1>6
    <3> HIDE DEF Z, o
    <3>2. [points |-> o, sorted |-> FALSE] \in [points : Z, sorted : BOOLEAN]
      BY <3>1
    <3> QED
      BY <3>2 DEF Z, o
  <2> QED
    BY <1>4, <2>1, NoneAssumption DEF NoneAssumption
<1>8. \A p : IsCoded(p)' <=> IsCoded(p)
  BY DEF IsCoded, input
<1>9. /\ l \in 0..(N - 1) /\ N \in Nat /\ BaseOf(l) \in Nat /\ BaseOf(l + 1) = BaseOf(l) + Width[l]
      /\ Width[l] \in Nat /\ Slots(l) = 0..(Width[l] - 1)
  BY ListsAre, BasesAre
<1>10. ASSUME NEW p \in Range(old \o new) PROVE IsCoded(p)' /\ p.id < BaseOf(l + 1)
  <2>1. CASE p \in Range(old)
    <3>1. p.id < BaseOf(l) /\ IsCoded(p)
      BY <1>1, <2>1
    <3>2. p \in Point
      BY <1>1, <2>1 DEF Range
    <3>3. p.id \in Nat
      <4>1. p.id \in Blocks
        BY <3>2, PointIs
      <4>2. \A x \in Blocks : x \in Nat
        BY BlocksAre
      <4> QED
        BY <4>1, <4>2
    <3> QED
      BY <1>8, <1>9, <3>1, <3>3
  <2>2. CASE p \in Range(new)
    <3>1. IsCoded(p) /\ \E s \in Slots(l) : p.id = BaseOf(l) + s
      BY <1>3, <2>2
    <3> QED
      BY <1>8, <1>9, <3>1
  <2> QED
    BY <1>6, <2>1, <2>2
<1>11. ASSUME NEW t \in 0..l, NEW s \in Slots(t) PROVE FileHas(t, s)'
  <2> DEFINE id == BaseOf(t) + s
  <2>0. t \in Terms
    BY <1>9, ListsAre
  <2>1. {p \in Range(old \o new) : p.id = id}
          = {p \in Range(old) : p.id = id} \cup {p \in Range(new) : p.id = id}
    BY <1>6
  <2>2. CASE t = l
    <3>1. {p \in Range(old) : p.id = id} = {}
      <4>1. ASSUME NEW p \in Range(old), p.id = id PROVE FALSE
        <5>1. p.id < BaseOf(l)
          BY <1>1
        <5>2. s \in Nat
          BY <1>9, <2>2
        <5> QED
          BY <1>9, <2>2, <4>1, <5>1, <5>2
      <4> QED
        BY <4>1
    <3>2. {p \in Range(new) : p.id = id} = Range(SlotPoints(t, s))
      BY <1>3, <2>2
    <3>3. {p \in Range(old \o new) : p.id = id} = Range(SlotPoints(t, s))
      BY <2>1, <3>1, <3>2
    <3> QED
      BY <1>5, <3>3, SlotPointsStay DEF FileHas
  <2>3. CASE t # l
    <3>1. t \in 0..(l - 1)
      BY <1>9, <2>3
    <3>2. {p \in Range(old) : p.id = id} = Range(SlotPoints(t, s))
      BY <1>1, <3>1 DEF FileHas, old
    <3>3. {p \in Range(new) : p.id = id} = {}
      <4>1. ASSUME NEW p \in Range(new), p.id = id PROVE FALSE
        <5>1. PICK r \in Slots(l) : p.id = BaseOf(l) + r
          BY <1>3
        <5>2. BaseOf(t) + s = BaseOf(l) + r
          BY <4>1, <5>1
        <5>3. t = l
          BY <2>0, <5>2, SlotsApart
        <5> QED
          BY <2>3, <5>3
      <4> QED
        BY <4>1
    <3>4. {p \in Range(old \o new) : p.id = id} = Range(SlotPoints(t, s))
      BY <2>1, <3>2, <3>3
    <3> QED
      BY <1>5, <3>4, SlotPointsStay DEF FileHas
  <2> QED
    BY <2>2, <2>3
<1> QED
  BY <1>4, <1>5, <1>6, <1>7, <1>10, <1>11

\* A turn of compute_lambdas keeps the invariant.
LEMMA ComputeKeeps ==
  ASSUME HybridIInv, compute_lambdas
  PROVE  HybridIInv'
<1> DEFINE read == read_block_stats
           cnts == IF l = read.list THEN read.counts ELSE <<>>
<1>1. /\ stage = "compute" /\ l \in Terms
      /\ lambdas' = [lambdas EXCEPT !.points = @ \o PointsOf(l, base, cnts)]
      /\ block_counts' = IF l = read.list
                         THEN [read EXCEPT !.counts = <<>>, !.consumed = TRUE] ELSE read
      /\ l' = l + 1 /\ base' = base + 2 * num_blocks(l)
      /\ UNCHANGED input /\ stage' = "compute" /\ UNCHANGED walk /\ index' = index /\ jobs' = jobs
      /\ codings' = codings /\ heuristic_greedy' = heuristic_greedy
  BY DEF compute_lambdas, NextList, input
<1> HIDE DEF read
<1>2. /\ LinesKnown /\ MergeInv /\ Profiled /\ base = BaseOf(l) /\ l \in 0..N
      /\ NotWalked /\ index = <<>> /\ jobs = <<>>
  BY <1>1, LinesAre DEF HybridIInv, ComputeInv, RestInv
<1>3. Ahead(read)
  BY <1>1, <1>2, ReadIsAhead DEF read
<1>4. IF l \in Opened THEN cnts = block_freqs[l] ELSE cnts = <<>>
  BY <1>1, <1>2, <1>3, CountsOfList
<1>5. MergeInv'
  BY <1>1, <1>2, <1>3, MergeGoesOn
<1> HIDE DEF cnts
<1>6. /\ lambdas' # None /\ ~lambdas'.sorted
      /\ lambdas' = [points |-> lambdas'.points, sorted |-> FALSE]
      /\ lambdas'.points \in Seq(Point)
      /\ \A p \in Range(lambdas'.points) : IsCoded(p)' /\ p.id < BaseOf(l + 1)
      /\ \A t \in 0..l : \A s \in Slots(t) : FileHas(t, s)'
  BY <1>1, <1>4, FileGrows
<1>7. /\ N \in Nat /\ l \in 0..(N - 1) /\ l' \in 0..N /\ base' = BaseOf(l + 1)
      /\ l' - 1 = l
  <2>1. N \in Nat /\ Terms = 0..(N - 1) /\ Width[l] = 2 * num_blocks(l)
    BY <1>1, ListsAre
  <2>2. BaseOf(l + 1) = BaseOf(l) + Width[l]
    BY <1>1, BasesAre
  <2>3. base' = BaseOf(l + 1)
    BY <1>1, <1>2, <2>1, <2>2
  <2> QED
    BY <1>1, <2>1, <2>3
<1>8. ThreadsInOrder' /\ ListsOpened' /\ CountsKept' /\ Profiled'
  BY <1>1, <1>2, InputStays DEF HybridIInv
<1>9. FileInv'
  <2>1. lambdas'.sorted = FALSE
    BY <1>6
  <2> QED
    BY <1>6, <1>8, <2>1 DEF FileInv
<1>10. ComputeInv'
  <2>1. BaseOf(l)' = BaseOf(l + 1)
    BY <1>1 DEF BaseOf, Total, IsSum, Chosen
  <2> QED
    BY <1>5, <1>6, <1>7, <2>1 DEF ComputeInv
<1>11. ChosenInv'
  BY <1>1, ChosenStays DEF HybridIInv, walk
<1>12. WalkInv' /\ TransformInv'
  BY <1>1 DEF WalkInv, TransformInv
<1>13. RestInv'
  BY <1>1, <1>2, <1>8 DEF RestInv, NotWalked, walk
<1>14. (codings \in Codings)' /\ (heuristic_greedy \in BOOLEAN)'
  BY <1>1 DEF HybridIInv
<1> QED
  BY <1>8, <1>9, <1>10, <1>11, <1>12, <1>13, <1>14 DEF HybridIInv

\* The points that are replaced take no space before the walk.
LEMMA NothingUsed ==
  ASSUME chosen = [id \in Blocks |-> None]
  PROVE  Total(Used, Blocks) = 0
<1>1. \A id \in Blocks : Used[id] = 0
  BY DEF Used, Replaced
<1> QED
  BY <1>1, BlocksAre, TotalOfZeros

\* The invariant holds at the start.
LEMMA HybridBegins ==
  ASSUME HybridInit
  PROVE  HybridIInv
<1>1. /\ pass = 1 /\ threads = StartThreads /\ block_freqs = [t \in {} |-> <<>>]
      /\ codings \in Codings /\ heuristic_greedy \in BOOLEAN
      /\ stage = "start" /\ lambdas = None /\ l = 0 /\ base = 0 /\ NotWalked /\ index = <<>> /\ jobs = <<>>
  BY DEF HybridInit, ProfilerInit
<1>2. Begins /\ Opened = {} /\ Len(Queries) \in Nat
  BY <1>1, PassesAre DEF Begins, Opened
<1>3. ThreadsInOrder /\ (~Profiled => NothingDone)
  BY <1>2, PassBegins
<1>4. ListsOpened
  <2>1. ~Profiled => \A q \in DOMAIN Queries[pass] : 1..DoneOf(q) = {}
    BY <1>3 DEF NothingDone
  <2> QED
    BY <1>2, <2>1 DEF ListsOpened
<1>5. CountsKept
  <2> SUFFICES ASSUME NEW t \in Terms, NEW s \in Slots(t) PROVE Counter(t, s) = DecodesSoFar(t, s)
    BY DEF CountsKept
  <2>1. 1..(pass - 1) = {}
    BY <1>1
  <2>2. Total(PassDecodes(t, s), 1..(pass - 1)) = 0
    BY <2>1, TotalEmpty
  <2>3. ~Profiled => Total(NowDecodes(t, s), DOMAIN Queries[pass]) = 0
    BY <1>3 DEF NothingDone
  <2>4. DecodesSoFar(t, s) = 0 + 0
    BY <2>2, <2>3 DEF DecodesSoFar
  <2> QED
    BY <1>2, <2>4 DEF Counter
<1>6. FileInv /\ ComputeInv /\ WalkInv /\ TransformInv
  BY <1>1 DEF FileInv, ComputeInv, WalkInv, TransformInv
<1>7. ChosenInv
  BY <1>1 DEF ChosenInv, NotWalked
<1>8. RestInv
  BY <1>1 DEF RestInv
<1> QED
  BY <1>1, <1>3, <1>4, <1>5, <1>6, <1>7, <1>8 DEF HybridIInv

\* The profiler keeps the invariant; there is no file yet.
LEMMA ProfileKeeps ==
  ASSUME HybridIInv, Profile
  PROVE  HybridIInv'
<1>1. /\ codings' = codings /\ heuristic_greedy' = heuristic_greedy /\ stage' = stage
      /\ lambdas' = lambdas /\ l' = l /\ base' = base /\ chosen' = chosen /\ points' = points
      /\ cur_space' = cur_space /\ index' = index /\ jobs' = jobs
  BY DEF Profile, walk
<1>2. ~Profiled
  <2>1. pass <= Len(Queries) /\ pass \in Int /\ Len(Queries) \in Int
    BY PassesAre DEF Profile, JoinAll, Thread, HybridIInv, ThreadsInOrder
  <2> QED
    BY <2>1 DEF Profiled
<1>3. stage = "start" /\ lambdas = None /\ l = 0 /\ base = 0 /\ NotWalked /\ index = <<>> /\ jobs = <<>>
  BY <1>2 DEF HybridIInv, RestInv, FileInv
<1>4. ThreadsInOrder' /\ ListsOpened' /\ CountsKept'
  BY ThreadKeeps, JoinKeeps DEF Profile, HybridIInv
<1>5. FileInv' /\ ComputeInv' /\ WalkInv' /\ TransformInv'
  BY <1>1, <1>3 DEF FileInv, ComputeInv, WalkInv, TransformInv
<1>6. ChosenInv'
  BY <1>1, <1>3 DEF ChosenInv, NotWalked
<1>7. RestInv'
  BY <1>1, <1>3 DEF RestInv, NotWalked
<1>8. (codings \in Codings)' /\ (heuristic_greedy \in BOOLEAN)'
  BY <1>1 DEF HybridIInv
<1> QED
  BY <1>4, <1>5, <1>6, <1>7, <1>8 DEF HybridIInv

\* The parts of the invariant that an action keeps which leaves the file, the
\* profile and the codings as they are.
LEMMA FileKeeps ==
  ASSUME HybridIInv, UNCHANGED input, lambdas' = lambdas
  PROVE  /\ codings' \in Codings /\ heuristic_greedy' \in BOOLEAN
         /\ ThreadsInOrder' /\ ListsOpened' /\ CountsKept' /\ FileInv'
         /\ chosen' = chosen => ChosenInv'
<1>1. codings' = codings /\ heuristic_greedy' = heuristic_greedy
  BY DEF input
<1> QED
  BY <1>1, InputStays, FileStays, ChosenStays DEF HybridIInv

\* A process that starts finds a file or begins an empty one.
LEMMA StartKeeps ==
  ASSUME HybridIInv, Start
  PROVE  HybridIInv'
<1>1. /\ Profiled /\ stage = "start" /\ UNCHANGED input /\ l' = l /\ base' = base
      /\ chosen' = chosen /\ points' = points /\ cur_space' = cur_space /\ index' = index /\ jobs' = jobs
      /\ codings' = codings /\ heuristic_greedy' = heuristic_greedy
  BY DEF Start, walk, input
<1>2. /\ ThreadsInOrder' /\ ListsOpened' /\ CountsKept' /\ Profiled' /\ ListsOpened
      /\ ChosenInv' /\ (codings \in Codings)' /\ (heuristic_greedy \in BOOLEAN)'
      /\ l = 0 /\ base = 0 /\ NotWalked /\ index = <<>> /\ jobs = <<>>
  BY <1>1, InputStays, ChosenStays DEF HybridIInv, RestInv
<1>3. CASE lambdas = None
  <2>1. /\ stage' = "compute" /\ lambdas' = [points |-> <<>>, sorted |-> FALSE]
        /\ \E t \in Terms : block_counts' = [NoCounts EXCEPT !.list = t]
    BY <1>3 DEF Start
  <2>2. lambdas'.points = <<>> /\ lambdas'.sorted = FALSE /\ Range(<<>>) = {}
        /\ lambdas' = [points |-> lambdas'.points, sorted |-> lambdas'.sorted]
        /\ lambdas'.points \in Seq(Point)
    BY <2>1 DEF Range
  <2>3. lambdas' # None
    <3>1. [points |-> <<>>, sorted |-> FALSE] \in [points : Seq(Point), sorted : BOOLEAN]
      <4>1. <<>> \in Seq(Point)
        OBVIOUS
      <4> QED
        BY <4>1
    <3> QED
      BY <2>1, <3>1, NoneAssumption DEF NoneAssumption
  <2>4. FileInv'
    BY <1>2, <2>2 DEF FileInv
  <2>5. ComputeInv'
    <3>1. MergeInv'
      <4>1. PICK t \in Terms : block_counts' = [line |-> 0, list |-> t, counts |-> <<>>, consumed |-> TRUE]
        BY <2>1 DEF NoCounts
      <4>2. LinesBefore(l)' = 0 /\ Cardinality(Opened') \in Nat
        <5>1. Opened' = Opened
          BY <1>1, InputStays
        <5>2. \A x \in Opened : ~(x < 0)
          BY <1>2, ListsAre DEF ListsOpened
        <5>3. Lower(Opened, 0) = {}
          BY <5>2 DEF Lower
        <5>4. LinesBefore(l)' = Cardinality(Lower(Opened, 0))
          BY <1>1, <1>2, <5>1 DEF LinesBefore, Lower
        <5> QED
          BY <1>2, <5>1, <5>3, <5>4, FS_EmptySet, NextLine DEF ListsOpened
      <4>3. /\ block_counts'.line = 0 /\ block_counts'.consumed = TRUE
            /\ block_counts' = [line |-> block_counts'.line, list |-> block_counts'.list,
                                counts |-> block_counts'.counts, consumed |-> block_counts'.consumed]
        BY <4>1
      <4>4. 0 \in 0..Cardinality(Opened')
        BY <4>2
      <4> QED
        BY <4>2, <4>3, <4>4 DEF MergeInv
    <3>2. l' = 0 /\ base' = 0 /\ N \in Nat /\ BaseOf(l)' = 0
      <4>1. BaseOf(l)' = BaseOf(0)
        BY <1>1, <1>2 DEF BaseOf, Total, IsSum, Chosen
      <4> QED
        BY <1>1, <1>2, <4>1, BlocksAre, ListsAre
    <3>3. 0..(l' - 1) = {}
      BY <3>2
    <3> QED
      BY <2>2, <2>3, <3>1, <3>2, <3>3 DEF ComputeInv
  <2>6. WalkInv' /\ TransformInv'
    BY <2>1 DEF WalkInv, TransformInv
  <2>7. RestInv'
    BY <1>1, <1>2, <2>1 DEF RestInv, NotWalked
  <2> QED
    BY <1>2, <2>4, <2>5, <2>6, <2>7 DEF HybridIInv
<1>4. CASE lambdas # None
  <2>1. stage' = "open" /\ lambdas' = lambdas
    BY <1>4 DEF Start
  <2>2. FileInv'
    BY <1>1, <2>1, FileKeeps
  <2>3. ComputeInv' /\ WalkInv' /\ TransformInv'
    BY <2>1 DEF ComputeInv, WalkInv, TransformInv
  <2>4. RestInv'
    BY <1>1, <1>2, <1>4, <2>1 DEF RestInv, NotWalked
  <2> QED
    BY <1>2, <2>2, <2>3, <2>4 DEF HybridIInv
<1> QED
  BY <1>3, <1>4

\* The file is sorted when all lists are in it.
LEMMA SortKeeps ==
  ASSUME HybridIInv, Sort
  PROVE  HybridIInv'
<1>1. /\ stage = "compute" /\ l \notin Terms /\ stage' = "open" /\ UNCHANGED input
      /\ lambdas' = [lambdas EXCEPT !.sorted = TRUE]
      /\ chosen' = chosen /\ points' = points /\ cur_space' = cur_space /\ index' = index /\ jobs' = jobs
      /\ codings' = codings /\ heuristic_greedy' = heuristic_greedy
  BY DEF Sort, walk, input
<1>2. /\ ThreadsInOrder' /\ ListsOpened' /\ CountsKept' /\ Profiled'
      /\ ChosenInv' /\ (codings \in Codings)' /\ (heuristic_greedy \in BOOLEAN)'
      /\ NotWalked /\ index = <<>> /\ jobs = <<>> /\ lambdas # None
      /\ lambdas = [points |-> lambdas.points, sorted |-> lambdas.sorted]
      /\ lambdas.points \in Seq(Point)
      /\ \A p \in Range(lambdas.points) : IsCoded(p)
      /\ \A t \in 0..(l - 1) : \A s \in Slots(t) : FileHas(t, s)
  BY <1>1, InputStays, ChosenStays DEF HybridIInv, RestInv, ComputeInv, FileInv
<1>3. 0..(l - 1) = Terms
  BY <1>1, ListsAre DEF HybridIInv, ComputeInv
<1>4. /\ lambdas'.points = lambdas.points /\ lambdas'.sorted = TRUE
      /\ lambdas' = [points |-> lambdas.points, sorted |-> TRUE]
  <2> DEFINE o == lambdas.points
             b == lambdas.sorted
  <2>1. lambdas = [points |-> o, sorted |-> b]
    BY <1>2
  <2> HIDE DEF o, b
  <2>2. lambdas' = [points |-> o, sorted |-> TRUE]
    BY <1>1, <2>1
  <2> QED
    BY <2>2 DEF o
<1>5. lambdas' # None
  <2> DEFINE Z == Seq(Point)
             o == lambdas.points
  <2>1. o \in Z
    BY <1>2
  <2> HIDE DEF Z, o
  <2>2. [points |-> o, sorted |-> TRUE] \in [points : Z, sorted : BOOLEAN]
    BY <2>1
  <2> QED
    BY <1>4, <2>2, NoneAssumption DEF NoneAssumption, Z, o
<1>6. \A p : IsCoded(p)' <=> IsCoded(p)
  BY <1>1 DEF IsCoded
<1>7. \A t, s : FileHas(t, s)' <=> FileHas(t, s)
  BY <1>1, <1>4, SlotPointsStay DEF FileHas
<1>8. FileInv'
  <2>1. lambdas'.points \in Seq(Point) /\ lambdas'.sorted \in BOOLEAN
        /\ lambdas' = [points |-> lambdas'.points, sorted |-> lambdas'.sorted]
    BY <1>2, <1>4
  <2>2. \A p \in Range(lambdas'.points) : IsCoded(p)'
    BY <1>2, <1>4, <1>6
  <2>3. \A t \in Terms : \A s \in Slots(t) : FileHas(t, s)'
    BY <1>2, <1>3, <1>7
  <2> QED
    BY <1>2, <2>1, <2>2, <2>3 DEF FileInv
<1>9. ComputeInv' /\ WalkInv' /\ TransformInv'
  BY <1>1 DEF ComputeInv, WalkInv, TransformInv
<1>10. RestInv'
  BY <1>1, <1>2, <1>5 DEF RestInv, NotWalked
<1> QED
  BY <1>2, <1>8, <1>9, <1>10 DEF HybridIInv

\* The overhead of the lists.
Overhead == [t \in Terms |-> vbyte_size(Postings(t)) + 4 * num_blocks(t) + 4 * (num_blocks(t) - 1)]

\* The overhead that the walk begins with is the total of the lists.
LEMMA SpaceBaseIs ==
  /\ \A t \in Terms : Overhead[t] \in Nat
  /\ space_base = 8 + Total(Overhead, Terms)
  /\ space_base \in Nat
<1>1. ASSUME NEW t \in Terms PROVE Overhead[t] \in Nat
  <2>1. Postings(t) \in Nat \ {0} /\ Postings(t) < 2^30 /\ num_blocks(t) \in Nat \ {0}
    BY ListsAre
  <2>2. vbyte_size(Postings(t)) \in 1..5
    BY <2>1, LengthIsEncoded
  <2> DEFINE v == vbyte_size(Postings(t))
             n == num_blocks(t)
  <2>3. Overhead[t] = v + 4 * n + 4 * (n - 1)
    BY DEF Overhead
  <2>4. v \in Nat /\ n \in Nat \ {0}
    BY <2>1, <2>2
  <2> HIDE DEF v, n
  <2> QED
    BY <2>3, <2>4
<1>2. Total(Overhead, Terms) \in Nat
  BY <1>1, ListsAre, TotalIs
<1>3. space_base = 8 + SumFunction(Overhead)
  BY DEF space_base, Overhead
<1>4. SumFunction(Overhead) = Total(Overhead, Terms)
  <2>1. DOMAIN Overhead = Terms
    BY DEF Overhead
  <2> QED
    BY <2>1, SumFunctionIs
<1> DEFINE x == Total(Overhead, Terms)
<1>5. x \in Nat /\ space_base = 8 + x
  BY <1>2, <1>3, <1>4
<1> HIDE DEF x
<1>6. space_base \in Nat
  BY <1>5
<1> QED
  BY <1>1, <1>5, <1>6 DEF x

\* The walk begins with nothing applied and nothing chosen.
LEMMA OpenKeeps ==
  ASSUME HybridIInv, Open
  PROVE  HybridIInv'
<1>1. /\ stage = "open" /\ stage' = "walk" /\ UNCHANGED input /\ lambdas' = lambdas
      /\ points' = DOMAIN lambdas.points /\ cur_space' = space_base
      /\ chosen' = chosen /\ index' = index /\ jobs' = jobs
      /\ codings' = codings /\ heuristic_greedy' = heuristic_greedy
  BY DEF Open, input
<1>2. /\ Profiled' /\ lambdas # None /\ NotWalked /\ index = <<>> /\ jobs = <<>>
      /\ chosen = [id \in Blocks |-> None]
  BY <1>1, InputStays DEF HybridIInv, RestInv, NotWalked
<1>3. Applied' = {}
  BY <1>1 DEF Applied
<1>4. InOrder'
  <2>1. \A id \in Blocks : chosen'[id] = None
    BY <1>1, <1>2
  <2> QED
    BY <1>1, <1>3, <2>1 DEF InOrder
<1>5. WalkInv'
  <2>1. (Total(Used, Blocks))' = 0
    BY <1>1, <1>2, ChosenStays, NothingUsed
  <2>2. (space_base + Total(Used, Blocks))' = space_base + (Total(Used, Blocks))'
    OBVIOUS
  <2>3. cur_space' = (space_base + Total(Used, Blocks))'
    BY <1>1, <2>1, <2>2, SpaceBaseIs
  <2> QED
    BY <1>1, <1>2, <1>4, <2>3 DEF WalkInv
<1>6. ComputeInv' /\ TransformInv'
  BY <1>1 DEF ComputeInv, TransformInv
<1>7. RestInv'
  BY <1>1, <1>2 DEF RestInv
<1> QED
  BY <1>1, <1>5, <1>6, <1>7, FileKeeps DEF HybridIInv

\* The order is strict.
LEMMA NotLessItself ==
  ASSUME NEW p \in Point
  PROVE  ~Less(p.lambda, p.lambda)
<1>1. p.lambda.num \in Int /\ p.lambda.den \in Int
  BY PointIs
<1> DEFINE x == p.lambda.num * p.lambda.den
<1>2. x \in Int
  BY <1>1
<1>3. Less(p.lambda, p.lambda) => x < x
  BY DEF Less
<1> HIDE DEF x
<1> QED
  BY <1>2, <1>3

\* The order of a walk in a sorted file, one point further.
LEMMA OrderGoesOn ==
  ASSUME InOrder, stage = "walk", lambdas # None, lambdas.points \in Seq(Point),
         points \subseteq DOMAIN lambdas.points, DOMAIN chosen = Blocks,
         lambdas' = lambdas,
         NEW i \in points, NEW p, p = lambdas.points[i],
         \A j \in points : ~Less(lambdas.points[j].lambda, p.lambda),
         points' = points \ {i}, chosen' = [chosen EXCEPT ![p.id] = p],
         stage' # "walk" => p.lambda.num > 0
  PROVE  InOrder'
<1>1. /\ p \in Point /\ p.id \in Blocks /\ ~Less(p.lambda, p.lambda) /\ p # None
      /\ LambdaAt(i) = p.lambda
  <2>1. p \in Point
    OBVIOUS
  <2> QED
    BY <2>1, PointIs, NotLessItself, NoneAssumption DEF NoneAssumption, LambdaAt
<1>2. /\ Applied' = Applied \cup {i} /\ i \notin Applied
      /\ \A j : LambdaAt(j)' = LambdaAt(j)
  BY DEF Applied, LambdaAt
<1>3. \A id \in Blocks : chosen'[id] = IF id = p.id THEN p ELSE chosen[id]
  BY <1>1
<1>4. \A a \in Applied : ~Less(LambdaAt(i), LambdaAt(a))
  BY DEF InOrder
<1>5. ASSUME NEW a \in Applied', NEW j \in points' PROVE ~Less(LambdaAt(j)', LambdaAt(a)')
  <2>1. CASE a \in Applied
    BY <1>2, <2>1 DEF InOrder
  <2>2. CASE a = i
    BY <1>1, <1>2, <2>2 DEF LambdaAt
  <2> QED
    BY <1>2, <2>1, <2>2
<1>6. ASSUME NEW a \in Applied' PROVE chosen'[lambdas'.points[a].id] # None
  <2>1. lambdas.points[a].id \in Blocks
    <3>1. a \in DOMAIN lambdas.points
      BY <1>2 DEF Applied
    <3>2. lambdas.points[a] \in Point
      BY <3>1
    <3> QED
      BY <3>2, PointIs
  <2>2. a \in Applied => chosen[lambdas.points[a].id] # None
    BY DEF InOrder
  <2> QED
    BY <1>1, <1>2, <1>3, <2>1, <2>2
<1>7. ASSUME NEW id \in Blocks, chosen'[id] # None
      PROVE  \E a \in Applied' : /\ lambdas'.points[a] = chosen'[id]
                                 /\ \A j \in Applied' : lambdas'.points[j].id = id =>
                                      ~Less(LambdaAt(a)', LambdaAt(j)')
  <2>1. CASE id = p.id
    <3>1. ASSUME NEW j \in Applied' PROVE ~Less(LambdaAt(i), LambdaAt(j))
      BY <1>1, <1>2, <1>4
    <3>2. /\ i \in Applied' /\ lambdas'.points[i] = chosen'[id]
          /\ \A j \in Applied' : ~Less(LambdaAt(i)', LambdaAt(j)')
      BY <1>2, <1>3, <2>1, <3>1
    <3> QED
      BY <3>2
  <2>2. CASE id # p.id
    <3>1. chosen[id] = chosen'[id]
      BY <1>3, <2>2
    <3>2. PICK a \in Applied : /\ lambdas.points[a] = chosen[id]
                               /\ \A j \in Applied : lambdas.points[j].id = id =>
                                    ~Less(LambdaAt(a), LambdaAt(j))
      BY <1>7, <3>1 DEF InOrder
    <3>3. \A j \in Applied' : lambdas.points[j].id = id => ~Less(LambdaAt(a), LambdaAt(j))
      BY <1>2, <2>2, <3>2
    <3>4. /\ a \in Applied' /\ lambdas'.points[a] = chosen'[id]
          /\ \A j \in Applied' : lambdas'.points[j].id = id => ~Less(LambdaAt(a)', LambdaAt(j)')
      BY <1>2, <3>1, <3>2, <3>3
    <3> QED
      BY <3>4
  <2> QED
    BY <2>1, <2>2
<1>8. ASSUME stage' # "walk"
      PROVE  \E a \in Applied' : /\ LambdaAt(a)'.num > 0
                                 /\ \A j \in Applied' : ~Less(LambdaAt(a)', LambdaAt(j)')
  <2>1. /\ i \in Applied' /\ LambdaAt(i)'.num > 0
        /\ \A j \in Applied' : ~Less(LambdaAt(i)', LambdaAt(j)')
    BY <1>1, <1>2, <1>4, <1>8
  <2> QED
    BY <2>1
<1> QED
  BY <1>5, <1>6, <1>7, <1>8 DEF InOrder

\* One number of many is replaced.
Replaces(f, g, S, e) ==
  /\ IsFiniteSet(S) /\ e \in S
  /\ \A x \in S : f[x] \in Nat
  /\ g[e] \in Nat
  /\ \A x \in S \ {e} : g[x] = f[x]

\* Then the total changes by the difference.
LEMMA ReplacedTotal ==
  ASSUME NEW f, NEW g, NEW S, NEW e, Replaces(f, g, S, e)
  PROVE  Total(g, S) = Total(f, S) - f[e] + g[e]
<1>1. \A x \in S : f[x] \in Nat /\ g[x] \in Nat
  BY DEF Replaces
<1> QED
  BY <1>1, TotalChanges DEF Replaces

\* A point that is applied replaces that of its block.
LEMMA WalkKeeps ==
  ASSUME HybridIInv, Walk
  PROVE  HybridIInv'
<1>1. /\ stage = "walk" /\ UNCHANGED input /\ lambdas' = lambdas /\ index' = index /\ jobs' = jobs
      /\ codings' = codings /\ heuristic_greedy' = heuristic_greedy
  BY DEF Walk, input
<1>2. PICK i \in points :
        /\ IsNext(i)
        /\ points' = points \ {i}
        /\ chosen' = [chosen EXCEPT ![lambdas.points[i].id] = lambdas.points[i]]
        /\ cur_space' = cur_space - Replaced(lambdas.points[i].id) + lambdas.points[i].space
        /\ stage' = IF lambdas.points[i].lambda.num > 0 THEN PastFrontier(cur_space') ELSE "walk"
  BY DEF Walk
<1> DEFINE p == lambdas.points[i]
<1>3. /\ lambdas # None /\ points \subseteq DOMAIN lambdas.points
      /\ cur_space = space_base + Total(Used, Blocks)
      /\ lambdas.sorted => InOrder
      /\ lambdas.points \in Seq(Point)
      /\ \A q \in Range(lambdas.points) : IsCoded(q)
      /\ Profiled /\ index = <<>> /\ jobs = <<>> /\ lambdas.sorted \in BOOLEAN
      /\ DOMAIN chosen = Blocks
      /\ \A id \in Blocks : chosen[id] # None =>
           chosen[id] \in Point /\ IsCoded(chosen[id]) /\ chosen[id].id = id
  BY <1>1 DEF HybridIInv, WalkInv, FileInv, ChosenInv, RestInv
<1>4. p \in Point /\ IsCoded(p)
  <2>1. i \in DOMAIN lambdas.points
    BY <1>3
  <2> QED
    BY <1>3, <2>1 DEF Range
<1>5. p.id \in Blocks /\ p.space \in Nat /\ p # None
  BY <1>4, PointIs, NoneAssumption DEF NoneAssumption
<1>6. stage' \in {"walk", "failed", "found"}
  BY <1>2 DEF PastFrontier
<1>7. \A id \in Blocks : chosen'[id] = IF id = p.id THEN p ELSE chosen[id]
  BY <1>2, <1>3
<1>8. DOMAIN chosen' = Blocks
  BY <1>2, <1>3
<1>9. ChosenInv'
  <2>1. \A q : IsCoded(q)' <=> IsCoded(q)
    BY <1>1 DEF IsCoded
  <2>2. ASSUME NEW id \in Blocks, chosen'[id] # None
        PROVE  chosen'[id] \in Point /\ IsCoded(chosen'[id]) /\ chosen'[id].id = id
    BY <1>3, <1>4, <1>7, <2>2
  <2>3. \A id \in Blocks : IsCoded(chosen[id])' <=> IsCoded(chosen'[id])
    BY <1>1 DEF IsCoded
  <2> QED
    BY <1>8, <2>2, <2>3 DEF ChosenInv
<1>10. lambdas'.sorted => InOrder'
  <2> SUFFICES ASSUME lambdas.sorted PROVE InOrder'
    BY <1>1
  <2>1. \A j \in points : ~Less(lambdas.points[j].lambda, p.lambda)
    BY <1>2 DEF IsNext
  <2>2. stage' # "walk" => p.lambda.num > 0
    BY <1>2
  <2>3. chosen' = [chosen EXCEPT ![p.id] = p]
    BY <1>2
  <2> HIDE DEF p
  <2>4. p = lambdas.points[i]
    BY DEF p
  <2> QED
    BY <1>1, <1>2, <1>3, <2>1, <2>2, <2>3, <2>4, OrderGoesOn
<1>11. cur_space' = (space_base + Total(Used, Blocks))'
  <2> DEFINE f == Used
             g == Used'
             id0 == p.id
  <2>1. \A id \in Blocks : f[id] \in Nat
    <3>1. ASSUME NEW id \in Blocks PROVE Replaced(id) \in Nat
      BY <1>3, PointIs DEF Replaced
    <3> QED
      BY <3>1 DEF Used
  <2>2. \A id \in Blocks : g[id] = IF chosen'[id] = None THEN 0 ELSE chosen'[id].space
    BY DEF Used, Replaced
  <2>3. g[id0] = p.space /\ g[id0] \in Nat
    BY <1>5, <1>7, <2>2
  <2>4. \A id \in Blocks \ {id0} : g[id] = f[id]
    BY <1>7, <2>2 DEF Used, Replaced
  <2>5. f[id0] = Replaced(p.id)
    BY <1>5 DEF Used
  <2>6. (Total(Used, Blocks))' = Total(g, Blocks)
    BY DEF Total, IsSum, Chosen
  <2>7. id0 \in Blocks
    BY <1>5
  <2>8. Total(f, Blocks) \in Nat
    BY <2>1, BlocksAre, TotalIs
  <2>9. Replaces(f, g, Blocks, id0)
    BY <2>1, <2>3, <2>4, <2>7, BlocksAre DEF Replaces
  <2>10. cur_space = space_base + Total(f, Blocks)
    BY <1>3
  <2>11. cur_space' = cur_space - f[id0] + g[id0]
    BY <1>2, <2>3, <2>5
  <2>12. (space_base + Total(Used, Blocks))' = space_base + Total(g, Blocks)
    BY <2>6
  <2>13. f[id0] \in Nat /\ g[id0] \in Nat
    BY <2>1, <2>3, <2>7
  <2> HIDE DEF f, g, id0, p
  <2>14. Total(g, Blocks) = Total(f, Blocks) - f[id0] + g[id0]
    BY <2>9, ReplacedTotal
  <2> DEFINE a == Total(f, Blocks)
             b == Total(g, Blocks)
             x == f[id0]
             y == g[id0]
  <2>15. /\ a \in Nat /\ x \in Nat /\ y \in Nat /\ space_base \in Nat /\ b = (a - x) + y
         /\ cur_space = space_base + a /\ cur_space' = (cur_space - x) + y
    BY <2>8, <2>10, <2>11, <2>13, <2>14, SpaceBaseIs
  <2> HIDE DEF a, b, x, y
  <2>16. cur_space' = space_base + b
    BY <2>15
  <2> QED
    BY <2>12, <2>16 DEF b
<1>12. WalkInv'
  <2>1. lambdas' # None /\ points' \subseteq DOMAIN lambdas'.points
    BY <1>1, <1>2, <1>3
  <2> QED
    BY <1>10, <1>11, <2>1 DEF WalkInv
<1>13. ComputeInv' /\ TransformInv'
  BY <1>6 DEF ComputeInv, TransformInv
<1>14. RestInv'
  BY <1>1, <1>3, <1>6, InputStays DEF RestInv
<1> QED
  BY <1>1, <1>9, <1>12, <1>13, <1>14, FileKeeps DEF HybridIInv

\* A walk that ends has applied all points.
LEMMA EndWalkKeeps ==
  ASSUME HybridIInv, EndWalk
  PROVE  HybridIInv'
<1>1. /\ stage = "walk" /\ points = {} /\ stage' = "found" /\ UNCHANGED input /\ lambdas' = lambdas
      /\ points' = points /\ chosen' = chosen /\ cur_space' = cur_space /\ index' = index /\ jobs' = jobs
  BY DEF EndWalk, walk
<1>2. WalkInv'
  <2>1. /\ lambdas # None /\ points \subseteq DOMAIN lambdas.points
        /\ cur_space = space_base + Total(Used, Blocks)
        /\ lambdas.sorted => InOrder
    BY <1>1 DEF HybridIInv, WalkInv
  <2>2. lambdas.sorted => InOrder'
    BY <1>1, <2>1, InOrderStays
  <2>3. (space_base + Total(Used, Blocks))' = space_base + Total(Used, Blocks)
    BY <1>1, ChosenStays
  <2> QED
    BY <1>1, <2>1, <2>2, <2>3 DEF WalkInv
<1>3. ComputeInv' /\ TransformInv'
  BY <1>1 DEF ComputeInv, TransformInv
<1>4. RestInv'
  BY <1>1, InputStays DEF RestInv, HybridIInv
<1> QED
  BY <1>1, <1>2, <1>3, <1>4, FileKeeps DEF HybridIInv

\* What is written reads the walk that was found.
LEMMA WalkStays ==
  ASSUME WalkInv, stage \in {"found", "transform", "written"}, UNCHANGED input, UNCHANGED walk,
         lambdas' = lambdas
  PROVE  WalkInv'
<1>1. points' = points /\ chosen' = chosen /\ cur_space' = cur_space
  BY DEF walk
<1>2. /\ lambdas # None /\ points \subseteq DOMAIN lambdas.points
      /\ cur_space = space_base + Total(Used, Blocks)
      /\ lambdas.sorted => InOrder
  BY DEF WalkInv
<1>3. lambdas.sorted => InOrder'
  BY <1>1, <1>2, InOrderStays
<1>4. (space_base + Total(Used, Blocks))' = space_base + Total(Used, Blocks)
  BY <1>1, ChosenStays
<1> QED
  BY <1>1, <1>2, <1>3, <1>4 DEF WalkInv

\* What was found is kept for the transformation.
LEMMA FoundKeeps ==
  ASSUME HybridIInv, Found
  PROVE  HybridIInv'
<1>1. /\ stage = "found" /\ stage' = "transform" /\ UNCHANGED input /\ UNCHANGED walk
      /\ lambdas' = lambdas /\ chosen' = chosen /\ index' = index /\ jobs' = jobs /\ l' = 0 /\ base' = 0
  BY DEF Found, walk
<1>2. index = <<>> /\ jobs = <<>>
  BY <1>1 DEF HybridIInv, RestInv
<1>3. WalkInv'
  BY <1>1, WalkStays DEF HybridIInv
<1>4. TransformInv'
  <2>1. BaseOf(l)' = 0 /\ N \in Nat
    <3>1. BaseOf(l)' = BaseOf(0)
      BY <1>1 DEF BaseOf, Total, IsSum, Chosen
    <3> QED
      BY <3>1, BlocksAre, ListsAre
  <2>2. index' = <<>> /\ jobs' = <<>> /\ Len(<<>>) = 0 /\ 0..(0 - 1) = {} /\ 1..0 = {}
    BY <1>1, <1>2
  <2>3. <<>> \in Seq(UNION {[Slots(t) -> Nat] : t \in Terms}) /\ <<>> \in Seq({})
    OBVIOUS
  <2>4. IndexInv' /\ JobsInv'
    BY <1>1, <2>2, <2>3 DEF IndexInv, JobsInv
  <2> QED
    BY <1>1, <2>1, <2>4 DEF TransformInv
<1>5. ComputeInv'
  BY <1>1 DEF ComputeInv
<1>6. RestInv'
  BY <1>1, InputStays DEF RestInv, HybridIInv
<1> QED
  BY <1>1, <1>3, <1>4, <1>5, <1>6, FileKeeps DEF HybridIInv

\* A codec that was chosen is one of the block's.
LEMMA ChosenCodec ==
  ASSUME codings \in Codings, ChosenInv, NEW id \in Blocks
  PROVE  type_of(id) \in DOMAIN codings[id] /\ codings[id][type_of(id)].space \in Nat
<1>1. /\ "pfor" \in DOMAIN codings[id]
      /\ \A t \in DOMAIN codings[id] : codings[id][t].space \in Nat
  BY CodingsAssumption DEF CodingsAssumption
<1>2. chosen[id] # None => chosen[id].type \in DOMAIN codings[id]
  BY DEF ChosenInv, IsCoded
<1> QED
  BY <1>1, <1>2 DEF type_of

\* The output and what it is made of stay.
LEMMA OutputStays ==
  ASSUME codings' = codings, chosen' = chosen
  PROVE  /\ \A t : Coded(t)' = Coded(t)
         /\ \A t : BaseOf(t)' = BaseOf(t)
         /\ index' = index /\ IndexInv => IndexInv'
         /\ index' = index /\ jobs' = jobs /\ l' = l /\ JobsInv => JobsInv'
<1>1. \A t : BaseOf(t)' = BaseOf(t)
  BY DEF BaseOf, Total, IsSum, Chosen
<1>2. \A id : type_of(id)' = type_of(id)
  BY DEF type_of
<1>3. \A t : Coded(t)' = Coded(t)
  BY <1>1, <1>2 DEF Coded
<1>4. ASSUME index' = index, IndexInv PROVE IndexInv'
  BY <1>3, <1>4 DEF IndexInv
<1>5. ASSUME index' = index, jobs' = jobs, l' = l, JobsInv PROVE JobsInv'
  <2>1. \A k : BaseOf(Len(index) + k - 1)' = BaseOf(Len(index) + k - 1)
    BY <1>5 DEF BaseOf, Total, IsSum, Chosen
  <2> QED
    BY <1>5, <2>1 DEF JobsInv
<1> QED
  BY <1>1, <1>3, <1>4, <1>5

\* The list that is added becomes the last job.
LEMMA TransformKeeps ==
  ASSUME HybridIInv, Transform
  PROVE  HybridIInv'
<1>1. /\ stage = "transform" /\ stage' = stage /\ l \in Terms /\ UNCHANGED input /\ UNCHANGED walk
      /\ lambdas' = lambdas /\ chosen' = chosen /\ codings' = codings /\ index' = index
      /\ jobs' = Append(jobs, [list |-> l, base |-> base])
      /\ l' = l + 1 /\ base' = base + 2 * num_blocks(l)
  BY DEF Transform, NextList, walk, input
<1>2. ComputeInv' /\ RestInv' /\ WalkInv'
  <2>1. WalkInv'
    BY <1>1, WalkStays DEF HybridIInv
  <2> QED
    BY <1>1, <2>1, InputStays DEF ComputeInv, RestInv, HybridIInv
<1>3. l \in 0..N /\ base = BaseOf(l) /\ IndexInv /\ JobsInv
  BY <1>1 DEF HybridIInv, TransformInv
<1>4. l \in Nat /\ l' \in 0..N /\ (base = BaseOf(l))'
  <2>1. N \in Nat /\ Terms = 0..(N - 1) /\ Width[l] = 2 * num_blocks(l)
    BY <1>1, ListsAre
  <2>2. BaseOf(l + 1) = BaseOf(l) + Width[l]
    BY <1>1, BasesAre
  <2>3. BaseOf(l)' = BaseOf(l + 1)
    BY <1>1 DEF BaseOf, Total, IsSum, Chosen
  <2> QED
    BY <1>1, <1>3, <2>1, <2>2, <2>3
<1>5. JobsInv'
  <2> DEFINE J == Append(jobs, [list |-> l, base |-> base])
             m == Len(index)
             n == Len(jobs)
  <2>1. PICK S : jobs \in Seq(S)
    BY <1>3 DEF JobsInv
  <2>2. /\ J \in Seq(S \cup {[list |-> l, base |-> base]})
        /\ n \in Nat /\ Len(J) = n + 1 /\ J[n + 1] = [list |-> l, base |-> base]
        /\ \A k \in 1..n : J[k] = jobs[k]
    <3>1. jobs \in Seq(S \cup {[list |-> l, base |-> base]})
      BY <2>1
    <3> QED
      BY <3>1
  <2>3. m \in Nat /\ m + n = l
    BY <1>3 DEF IndexInv, JobsInv
  <2> HIDE DEF J
  <2>4. ASSUME NEW k \in 1..(n + 1)
        PROVE  J[k].list = m + k - 1 /\ J[k].base = BaseOf(m + k - 1)
    <3>1. CASE k = n + 1
      <4>1. m + k - 1 = l
        BY <2>2, <2>3, <3>1
      <4> QED
        BY <1>3, <2>2, <3>1, <4>1
    <3>2. CASE k # n + 1
      <4>1. k \in 1..n
        BY <2>2, <3>2
      <4> QED
        BY <1>3, <2>2, <4>1 DEF JobsInv
    <3> QED
      BY <3>1, <3>2
  <2>5. m + Len(J) = l'
    BY <1>1, <2>2, <2>3
  <2>6. jobs' = J /\ Len(index)' = m
    BY <1>1 DEF J
  <2>7. \A k : BaseOf(Len(index) + k - 1)' = BaseOf(m + k - 1)
    BY <1>1 DEF BaseOf, Total, IsSum, Chosen
  <2> HIDE DEF m
  <2> QED
    BY <2>2, <2>4, <2>5, <2>6, <2>7 DEF JobsInv
<1>6. TransformInv'
  BY <1>1, <1>3, <1>4, <1>5, OutputStays DEF TransformInv
<1> QED
  BY <1>1, <1>2, <1>6, FileKeeps DEF HybridIInv

\* A list is written with the codecs of its own blocks.
LEMMA CommitKeeps ==
  ASSUME HybridIInv, CommitList
  PROVE  HybridIInv'
<1> DEFINE Z == UNION {[Slots(t) -> Nat] : t \in Terms}
           m == Len(index)
           n == Len(jobs)
<1>1. /\ stage = "transform" /\ stage' = stage /\ UNCHANGED input /\ UNCHANGED walk
      /\ lambdas' = lambdas /\ chosen' = chosen /\ codings' = codings
      /\ l' = l /\ base' = base /\ jobs # <<>> /\ jobs' = Tail(jobs)
      /\ index' = Append(index, [slot \in Slots(Head(jobs).list) |->
                    codings[Head(jobs).base + slot][type_of(Head(jobs).base + slot)].space])
  BY DEF CommitList, walk, input
<1>2. ComputeInv' /\ RestInv' /\ WalkInv'
  <2>1. WalkInv'
    BY <1>1, WalkStays DEF HybridIInv
  <2> QED
    BY <1>1, <2>1, InputStays DEF ComputeInv, RestInv, HybridIInv
<1>3. l \in 0..N /\ base = BaseOf(l) /\ IndexInv /\ JobsInv
  BY <1>1 DEF HybridIInv, TransformInv
<1>4. PICK S : jobs \in Seq(S)
  BY <1>3 DEF JobsInv
<1>5. /\ n \in Nat \ {0} /\ Tail(jobs) \in Seq(S) /\ Len(Tail(jobs)) = n - 1
      /\ Head(jobs) = jobs[1]
      /\ \A k \in 1..(n - 1) : Tail(jobs)[k] = jobs[k + 1]
  BY <1>1, <1>4
<1>6. m \in Nat /\ m + n = l /\ m \in Terms /\ 1 \in 1..n /\ m + 1 - 1 = m
  <2>1. m \in Nat /\ m + n = l
    BY <1>3 DEF IndexInv, JobsInv
  <2>2. N \in Nat /\ Terms = 0..(N - 1)
    BY ListsAre
  <2> QED
    BY <1>3, <1>5, <2>1, <2>2
<1>7. Head(jobs).list = m /\ Head(jobs).base = BaseOf(m)
  <2>1. jobs[1].list = m + 1 - 1 /\ jobs[1].base = BaseOf(m + 1 - 1)
    BY <1>3, <1>6 DEF JobsInv
  <2> QED
    BY <1>5, <1>6, <2>1
<1>8. index' = Append(index, Coded(m))
  BY <1>1, <1>7 DEF Coded
<1>9. Coded(m) \in Z
  <2>1. ASSUME NEW slot \in Slots(m)
        PROVE  codings[BaseOf(m) + slot][type_of(BaseOf(m) + slot)].space \in Nat
    <3>1. BaseOf(m) + slot \in Blocks
      BY <1>6, BasesAre
    <3> QED
      BY <3>1, ChosenCodec DEF HybridIInv
  <2>2. Coded(m) \in [Slots(m) -> Nat]
    BY <2>1 DEF Coded
  <2> QED
    BY <1>6, <2>2
<1>10. /\ index \in Seq(Z)
       /\ \A t \in 0..(m - 1) : index[t + 1] = Coded(t)
  BY <1>3 DEF IndexInv
<1> HIDE DEF Z
<1>11. /\ index' \in Seq(Z) /\ Len(index') = m + 1 /\ index'[m + 1] = Coded(m)
       /\ \A k \in 1..m : index'[k] = index[k]
  BY <1>8, <1>9, <1>10
<1>12. IndexInv'
  <2>1. ASSUME NEW t \in 0..(m + 1 - 1) PROVE index'[t + 1] = Coded(t)
    <3>1. CASE t = m
      <4>1. index'[m + 1] = Coded(m)
        BY <1>11
      <4> QED
        BY <3>1, <4>1, Zenon
    <3>2. CASE t # m
      <4>1. t \in 0..(m - 1) /\ t + 1 \in 1..m
        <5>1. m \in Nat
          BY <1>6
        <5> HIDE DEF m
        <5> QED
          BY <3>2, <5>1
      <4> QED
        BY <1>10, <1>11, <4>1
    <3> QED
      BY <3>1, <3>2
  <2>2. \A t : Coded(t)' = Coded(t)
    BY <1>1, OutputStays
  <2>3. (index \in Seq(UNION {[Slots(t) -> Nat] : t \in Terms}))'
    BY <1>11 DEF Z
  <2>4. (\A t \in 0..(Len(index) - 1) : index[t + 1] = Coded(t))'
    <3>1. Len(index') - 1 = m + 1 - 1
      BY <1>11
    <3> HIDE DEF m
    <3> QED
      BY <2>1, <2>2, <3>1, Zenon
  <2> QED
    BY <2>3, <2>4, Zenon DEF IndexInv
<1>13. JobsInv'
  <2>1. ASSUME NEW k \in 1..(n - 1)
        PROVE  /\ Tail(jobs)[k].list = m + 1 + k - 1
               /\ Tail(jobs)[k].base = BaseOf(m + 1 + k - 1)
    <3>1. k + 1 \in 1..n /\ m + (k + 1) - 1 = m + 1 + k - 1
      BY <1>5, <1>6
    <3>2. jobs[k + 1].list = m + (k + 1) - 1 /\ jobs[k + 1].base = BaseOf(m + (k + 1) - 1)
      BY <1>3, <3>1 DEF JobsInv
    <3> QED
      BY <1>5, <3>1, <3>2
  <2>2. m + 1 + (n - 1) = l'
    BY <1>1, <1>5, <1>6
  <2>3. jobs' = Tail(jobs) /\ Len(index)' = m + 1
    BY <1>1, <1>11
  <2>4. \A k : BaseOf(Len(index) + k - 1)' = BaseOf(m + 1 + k - 1)
    BY <2>3 DEF BaseOf, Total, IsSum, Chosen
  <2> HIDE DEF m, n
  <2> QED
    BY <1>5, <2>1, <2>2, <2>3, <2>4 DEF JobsInv
<1>14. TransformInv'
  <2>1. BaseOf(l)' = BaseOf(l)
    BY <1>1 DEF BaseOf, Total, IsSum, Chosen
  <2> QED
    BY <1>1, <1>3, <1>12, <1>13, <2>1 DEF TransformInv
<1> QED
  BY <1>1, <1>2, <1>14, FileKeeps DEF HybridIInv

\* A program that fails leaves nothing but the file.
LEMMA FailureKeeps ==
  ASSUME HybridIInv, stage \in {"transform", "written"}, stage' = "failed",
         UNCHANGED input, UNCHANGED walk, lambdas' = lambdas
  PROVE  HybridIInv'
<1>1. WalkInv' /\ TransformInv' /\ ComputeInv'
  BY DEF WalkInv, TransformInv, ComputeInv
<1>2. RestInv'
  BY InputStays DEF RestInv, HybridIInv
<1>3. chosen' = chosen
  BY DEF walk
<1> QED
  BY <1>1, <1>2, <1>3, FileKeeps DEF HybridIInv

\* The index is of the lists that were committed, and the others are the jobs.
LEMMA FreezeKeeps ==
  ASSUME HybridIInv, Freeze \/ (DestroyQueue /\ stage' = "ended")
  PROVE  HybridIInv'
<1>1. /\ stage \in {"transform", "written"} /\ UNCHANGED input
      /\ UNCHANGED walk /\ lambdas' = lambdas /\ chosen' = chosen
      /\ index' = index /\ jobs' = jobs /\ l' = l /\ base' = base /\ codings' = codings
      /\ stage' \in {"written", "ended"}
      /\ stage = "transform" => l \notin Terms
      /\ stage' = "ended" => jobs = <<>>
  BY DEF Freeze, DestroyQueue, walk, input
<1>2. WalkInv'
  BY <1>1, WalkStays DEF HybridIInv
<1>3. TransformInv'
  <2>1. l \in 0..N /\ base = BaseOf(l) /\ IndexInv /\ JobsInv
    BY <1>1 DEF HybridIInv, TransformInv
  <2>2. l = N
    <3>1. stage = "transform" => l = N
      BY <1>1, <2>1, ListsAre
    <3>2. stage = "written" => l = N
      BY DEF HybridIInv, TransformInv
    <3> QED
      BY <1>1, <3>1, <3>2
  <2>3. BaseOf(l)' = BaseOf(l)
    BY <1>1 DEF BaseOf, Total, IsSum, Chosen
  <2>4. IndexInv' /\ JobsInv'
    BY <1>1, <2>1, OutputStays
  <2> QED
    BY <1>1, <2>1, <2>2, <2>3, <2>4 DEF TransformInv
<1>4. ComputeInv'
  BY <1>1 DEF ComputeInv
<1>5. RestInv'
  BY <1>1, InputStays DEF RestInv, HybridIInv
<1> QED
  BY <1>1, <1>2, <1>3, <1>4, <1>5, FileKeeps DEF HybridIInv

LEMMA DestroyKeeps ==
  ASSUME HybridIInv, DestroyQueue \/ Refuse
  PROVE  HybridIInv'
<1>1. /\ stage \in {"transform", "written"} /\ UNCHANGED input /\ UNCHANGED walk
      /\ lambdas' = lambdas
  BY DEF DestroyQueue, Refuse, walk, input
<1>2. stage' = "failed" \/ (DestroyQueue /\ stage' = "ended")
  BY DEF DestroyQueue, Refuse
<1> QED
  BY <1>1, <1>2, FailureKeeps, FreezeKeeps

\* A step that changes nothing keeps the invariant.
LEMMA HybridStays ==
  ASSUME HybridIInv, UNCHANGED hybrid
  PROVE  HybridIInv'
<1>1. /\ UNCHANGED input /\ stage' = stage /\ lambdas' = lambdas /\ l' = l /\ base' = base
      /\ block_counts' = block_counts /\ points' = points /\ chosen' = chosen
      /\ cur_space' = cur_space /\ index' = index /\ jobs' = jobs /\ codings' = codings
  BY DEF hybrid, walk, input
<1>2. \A t, s : FileHas(t, s)' <=> FileHas(t, s)
  BY <1>1, FileStays
<1>3. BaseOf(l)' = BaseOf(l)
  BY <1>1 DEF BaseOf, Total, IsSum, Chosen
<1>4. ComputeInv'
  <2>1. Opened' = Opened /\ block_freqs' = block_freqs
    BY <1>1, InputStays DEF input, profiler
  <2>2. MergeInv' <=> MergeInv
    BY <1>1, <2>1 DEF MergeInv, LinesBefore, Lower
  <2> QED
    BY <1>1, <1>2, <1>3, <2>2 DEF ComputeInv, HybridIInv
<1>5. WalkInv'
  <2>1. (space_base + Total(Used, Blocks))' = space_base + Total(Used, Blocks)
    BY <1>1, ChosenStays
  <2>2. InOrder => InOrder'
    BY <1>1, InOrderStays
  <2> QED
    BY <1>1, <2>1, <2>2 DEF WalkInv, HybridIInv
<1>6. TransformInv'
  <2>1. (IndexInv => IndexInv') /\ (JobsInv => JobsInv')
    BY <1>1, OutputStays
  <2> QED
    BY <1>1, <1>3, <2>1 DEF TransformInv, HybridIInv
<1>7. RestInv'
  BY <1>1, InputStays DEF RestInv, NotWalked, HybridIInv
<1> QED
  BY <1>1, <1>4, <1>5, <1>6, <1>7, FileKeeps DEF HybridIInv

\* Every step keeps the invariant: one case per action.
LEMMA HybridStep ==
  ASSUME HybridIInv, [Step]_hybrid
  PROVE  HybridIInv'
<1>1. Report \/ Exit \/ Crash => Exited
  BY DEF Report, Exit, Crash
<1> QED
  BY <1>1, ProfileKeeps, StartKeeps, ComputeKeeps, SortKeeps, OpenKeeps, WalkKeeps,
     EndWalkKeeps, FoundKeeps, TransformKeeps, CommitKeeps, FreezeKeeps, DestroyKeeps,
     ExitedKeeps, HybridStays DEF Step

\* The invariant holds of every state: of the profile, the file, the walk and
\* the index, over all runs of the program and all crashes.
THEOREM HybridInvariance == HybridSpec => []HybridIInv
<1>1. HybridInit => HybridIInv
  BY HybridBegins
<1>2. HybridIInv /\ [Step]_hybrid => HybridIInv'
  BY HybridStep
<1> QED
  BY <1>1, <1>2, PTL DEF HybridSpec

\* The points of a block and the buffer that is made of them.
FromCodecs(P, r, id) ==
  /\ r \in Seq(Point) /\ Len(r) >= 1 /\ r[1].lambda = Flat
  /\ \A i \in 1..Len(r) : r[i].id = id /\ IsCoded(r[i])
  /\ ~heuristic_greedy => Frontier(r, P)
  /\ ~heuristic_greedy => {<<p.space, p.time>> : p \in Range(r)} = Critical(PairsOf(P))

\* The buffer of append_lambdas is that of the codecs of its block.
LEMMA PointsFromCodecs ==
  ASSUME codings \in Codings, NEW term, NEW slot, NEW id \in Blocks, NEW count \in Nat
  PROVE  LET sts == compute_space_time(term, slot, id, count)
         IN FromCodecs(sts, append_lambdas(sts), id)
<1> DEFINE sts == compute_space_time(term, slot, id, count)
           r == append_lambdas(sts)
<1>1. /\ r \in Seq(Point) /\ Len(r) >= 1 /\ r[1].lambda = Flat
      /\ \A i \in 1..Len(r) : r[i].id = id /\ IsCoded(r[i])
      /\ \E first \in Point : first.lambda = Flat /\ Kept(r, sts, first)
      /\ ~heuristic_greedy => Frontier(r, sts)
      /\ ~heuristic_greedy => {<<p.space, p.time>> : p \in Range(r)} = Critical(PairsOf(sts))
  BY PointsOfCoding
<1> HIDE DEF sts, r
<1>2. FromCodecs(sts, r, id)
  BY <1>1 DEF FromCodecs
<1> QED
  BY <1>2 DEF r, sts

\* The file that is used: per slot, what its points are.
LEMMA SlotInFile ==
  ASSUME HybridIInv, Cached, NEW t \in Terms, NEW s \in Slots(t)
  PROVE  LET P == compute_space_time(t, s, BaseOf(t) + s, smoothing + Decodes(t, s))
             r == SlotPoints(t, s)
         IN /\ {p \in Range(lambdas.points) : p.id = BaseOf(t) + s} = Range(r)
            /\ PairsOf(P) = SpaceTime(t, s) /\ P \in SUBSET Point
            /\ r \in Seq(Point) /\ Len(r) >= 1 /\ r[1].lambda = Flat
            /\ \A i \in 1..Len(r) : r[i].id = BaseOf(t) + s /\ IsCoded(r[i])
            /\ ~heuristic_greedy => Frontier(r, P)
            /\ ~heuristic_greedy => {<<p.space, p.time>> : p \in Range(r)} = Critical(PairsOf(P))
<1> DEFINE P == compute_space_time(t, s, BaseOf(t) + s, smoothing + Decodes(t, s))
           r == SlotPoints(t, s)
           id == BaseOf(t) + s
           count == smoothing + Decodes(t, s)
<1>1. Profiled /\ ThreadsInOrder /\ CountsKept /\ codings \in Codings /\ FileHas(t, s)
  BY DEF HybridIInv, FileInv, Cached
<1>2. count \in Nat
  BY <1>1, CountersAre DEF smoothing
<1>3. id \in Blocks
  BY BasesAre
<1>4. {p \in Range(lambdas.points) : p.id = BaseOf(t) + s} = Range(r)
  BY <1>1 DEF FileHas
<1>5. PairsOf(P) = SpaceTime(t, s)
  BY IdIs DEF PairsOf, SpaceTime
<1>6. r = append_lambdas(P)
  BY DEF SlotPoints
<1>7. P \in SUBSET Point
  <2> HIDE DEF id, count
  <2>1. compute_space_time(t, s, id, count) \in SUBSET Point
    BY <1>1, <1>2, <1>3, CodedPoints
  <2> QED
    BY <2>1 DEF id, count
<1>8. FromCodecs(P, append_lambdas(P), id)
  <2> DEFINE PP == compute_space_time(t, s, id, count)
  <2>1. P = PP
    OBVIOUS
  <2> HIDE DEF id, count, P
  <2>2. FromCodecs(PP, append_lambdas(PP), id)
    BY <1>1, <1>2, <1>3, PointsFromCodecs
  <2> HIDE DEF PP
  <2> QED
    BY <2>1, <2>2
<1> HIDE DEF P, r
<1>9. FromCodecs(P, r, id)
  BY <1>6, <1>8
<1> QED
  BY <1>4, <1>5, <1>7, <1>9 DEF FromCodecs, P, r

\* A finished file holds the critical points of every block.
THEOREM FileCorrect == HybridSpec => []FileHoldsCriticalPoints
<1>1. HybridIInv => FileHoldsCriticalPoints
  <2> SUFFICES ASSUME HybridIInv, Cached, ~heuristic_greedy, NEW term \in Terms, NEW slot \in Slots(term)
               PROVE  {<<p.space, p.time>> : p \in {q \in Range(lambdas.points) : q.id = IdOf(term, slot)}}
                        = Critical(SpaceTime(term, slot))
    BY DEF FileHoldsCriticalPoints
  <2>1. /\ {p \in Range(lambdas.points) : p.id = BaseOf(term) + slot} = Range(SlotPoints(term, slot))
        /\ {<<p.space, p.time>> : p \in Range(SlotPoints(term, slot))} = Critical(SpaceTime(term, slot))
    <3> DEFINE P == compute_space_time(term, slot, BaseOf(term) + slot, smoothing + Decodes(term, slot))
    <3>1. /\ {p \in Range(lambdas.points) : p.id = BaseOf(term) + slot} = Range(SlotPoints(term, slot))
          /\ PairsOf(P) = SpaceTime(term, slot)
          /\ {<<p.space, p.time>> : p \in Range(SlotPoints(term, slot))} = Critical(PairsOf(P))
      BY SlotInFile
    <3> HIDE DEF P
    <3> QED
      BY <3>1
  <2>2. IdOf(term, slot) = BaseOf(term) + slot
    BY IdIs
  <2> QED
    BY <2>1, <2>2
<1> QED
  BY <1>1, HybridInvariance, PTL

\* At the end of the walk of a sorted file, every block has a point.
LEMMA AllChosen ==
  ASSUME HybridIInv, Cached, NEW id \in Blocks,
         stage \in {"found", "transform", "written", "ended"}
  PROVE  /\ chosen[id] # None /\ chosen[id] \in Point /\ IsCoded(chosen[id]) /\ chosen[id].id = id
<1>1. InOrder /\ points \subseteq DOMAIN lambdas.points /\ lambdas.points \in Seq(Point)
  BY DEF HybridIInv, WalkInv, Cached, FileInv
<1>2. PICK t \in Terms : \E s \in Slots(t) : id = BaseOf(t) + s
  BY SlotOfBlock
<1>3. PICK s \in Slots(t) : id = BaseOf(t) + s
  BY <1>2
<1> DEFINE r == SlotPoints(t, s)
<1>4. /\ {p \in Range(lambdas.points) : p.id = id} = Range(r)
      /\ r \in Seq(Point) /\ Len(r) >= 1 /\ r[1].lambda = Flat
  BY <1>3, SlotInFile
<1> HIDE DEF r
<1>5. r[1] \in Range(r)
  <2>1. 1 \in DOMAIN r
    BY <1>4
  <2> QED
    BY <2>1 DEF Range
<1>6. PICK i0 \in DOMAIN lambdas.points : lambdas.points[i0] = r[1]
  BY <1>4, <1>5 DEF Range
<1>7. lambdas.points[i0].id = id /\ LambdaAt(i0) = Flat
  BY <1>4, <1>5, <1>6 DEF LambdaAt
<1>8. i0 \in Applied
  <2>1. CASE points = {}
    BY <1>6, <2>1 DEF Applied
  <2>2. CASE points # {}
    <3>1. PICK i \in Applied : LambdaAt(i).num > 0
      BY <1>1, <2>2 DEF InOrder
    <3>2. LambdaAt(i).num \in Int /\ LambdaAt(i).den \in Int
      <4>1. lambdas.points[i] \in Point
        BY <1>1, <3>1 DEF Applied
      <4> QED
        BY <4>1, PointIs DEF LambdaAt
    <3>3. Less(Flat, LambdaAt(i))
      <4> DEFINE a == LambdaAt(i).num
                 b == LambdaAt(i).den
      <4>1. a \in Int /\ b \in Int /\ a > 0
        BY <3>1, <3>2
      <4>2. Less(Flat, LambdaAt(i)) <=> 0 * b < a * 1
        BY DEF Less, Flat
      <4> HIDE DEF a, b
      <4> QED
        BY <4>1, <4>2
    <3>4. i0 \notin points
      BY <1>1, <1>7, <3>1, <3>3 DEF InOrder
    <3> QED
      BY <1>6, <3>4 DEF Applied
  <2> QED
    BY <2>1, <2>2
<1>9. chosen[id] # None
  BY <1>1, <1>7, <1>8 DEF InOrder
<1> QED
  BY <1>9 DEF HybridIInv, ChosenInv

\* Numbers that are the sums of two others.
AddsUp(h, f, g, S) ==
  /\ IsFiniteSet(S)
  /\ \A x \in S : f[x] \in Nat /\ g[x] \in Nat /\ h[x] = f[x] + g[x]

\* Then the total is that of the two.
LEMMA AddedTotal ==
  ASSUME NEW h, NEW f, NEW g, NEW S, AddsUp(h, f, g, S)
  PROVE  Total(h, S) = Total(f, S) + Total(g, S)
BY TotalOfSums DEF AddsUp

\* What a list takes with the codecs that were chosen for its blocks.
Taken == [t \in Terms |-> ListSize(t, Coded(t))]

\* The space that was announced is that of all lists with the codecs chosen.
LEMMA SpaceChosen ==
  ASSUME HybridIInv, Cached, stage \in {"transform", "written", "ended"}
  PROVE  /\ cur_space = 8 + Total(Taken, Terms)
         /\ \A t \in Terms : /\ Taken[t] \in Nat
                             /\ [slot \in Slots(t) |-> Replaced(BaseOf(t) + slot)] = Coded(t)
<1> DEFINE R == [t \in Terms |-> Total(Coded(t), Slots(t))]
           row == [t \in Terms |-> Coded(t)]
<1>1. /\ cur_space = space_base + Total(Used, Blocks)
      /\ N \in Nat /\ Terms = 0..(N - 1) /\ IsFiniteSet(Terms)
  BY ListsAre DEF HybridIInv, WalkInv
<1>2. ASSUME NEW id \in Blocks
      PROVE  /\ Used[id] = codings[id][type_of(id)].space /\ Used[id] \in Nat
             /\ Used[id] = Replaced(id)
  <2>1. /\ chosen[id] # None /\ chosen[id] \in Point /\ IsCoded(chosen[id]) /\ chosen[id].id = id
    BY AllChosen
  <2> QED
    BY <2>1, PointIs DEF Used, Replaced, type_of, IsCoded
<1>3. ASSUME NEW t \in Terms
      PROVE  /\ DOMAIN Coded(t) = Slots(t)
             /\ \A slot \in Slots(t) : /\ Coded(t)[slot] = Used[BaseOf(t) + slot]
                                       /\ Coded(t)[slot] \in Nat
             /\ [slot \in Slots(t) |-> Replaced(BaseOf(t) + slot)] = Coded(t)
  <2>1. \A slot \in Slots(t) : BaseOf(t) + slot \in Blocks
    BY BasesAre
  <2>2. \A slot \in Slots(t) :
          /\ Used[BaseOf(t) + slot] = codings[BaseOf(t) + slot][type_of(BaseOf(t) + slot)].space
          /\ Used[BaseOf(t) + slot] \in Nat
          /\ Used[BaseOf(t) + slot] = Replaced(BaseOf(t) + slot)
    BY <1>2, <2>1
  <2> QED
    BY <2>2 DEF Coded
<1>4. ASSUME NEW t \in Terms
      PROVE  /\ R[t] \in Nat
             /\ SumFunction(Coded(t)) = R[t]
             /\ Taken[t] = Overhead[t] + R[t]
  <2>1. IsFiniteSet(Slots(t))
    <3>1. Slots(t) = 0..(Width[t] - 1) /\ Width[t] \in Nat
      BY ListsAre
    <3> QED
      BY <3>1, FS_Interval
  <2>2. R[t] \in Nat
    BY <1>3, <2>1, TotalIs
  <2>3. SumFunction(Coded(t)) = R[t]
    <3>1. SumFunction(Coded(t)) = Total(Coded(t), DOMAIN Coded(t))
      BY SumFunctionIs
    <3> QED
      BY <1>3, <3>1
  <2>4. vbyte_size(Postings(t)) = EncodedLength(Postings(t))
    <3>1. Postings(t) \in Nat \ {0} /\ Postings(t) < 2^30
      BY ListsAre
    <3> QED
      BY <3>1, LengthIsEncoded
  <2>5. Taken[t] = Overhead[t] + R[t]
    BY <2>3, <2>4 DEF Overhead, Taken, ListSize
  <2> QED
    BY <2>2, <2>3, <2>5
<1>5. Total(Used, Blocks) = Total(R, Terms)
  <2>1. \A t \in 0..(N - 1) : Width[t] \in Nat
    BY <1>1, ListsAre
  <2>2. \A x \in 0..(Total(Width, 0..(N - 1)) - 1) : Used[x] \in Nat
    BY <1>2, BlocksAre DEF BaseOf
  <2>3. \A t \in 0..(N - 1) : \A s \in 0..(Width[t] - 1) :
          row[t][s] = Used[Total(Width, 0..(t - 1)) + s]
    <3>1. ASSUME NEW t \in Terms, NEW s \in Slots(t)
          PROVE  row[t][s] = Used[Total(Width, 0..(t - 1)) + s]
      BY <1>3 DEF BaseOf
    <3>2. \A t \in Terms : Slots(t) = 0..(Width[t] - 1)
      BY ListsAre
    <3> HIDE DEF row
    <3> QED
      BY <1>1, <3>1, <3>2
  <2>4. \A t \in 0..(N - 1) : R[t] = Total(row[t], 0..(Width[t] - 1))
    <3>1. \A t \in Terms : R[t] = Total(row[t], Slots(t))
      OBVIOUS
    <3>2. \A t \in Terms : Slots(t) = 0..(Width[t] - 1)
      BY ListsAre
    <3> HIDE DEF row, R
    <3> QED
      BY <1>1, <3>1, <3>2
  <2> HIDE DEF row, R
  <2>5. Total(Used, 0..(Total(Width, 0..(N - 1)) - 1)) = Total(R, 0..(N - 1))
    <3>1. RowsOf(N, Width, Used, row, R)
      BY <1>1, <2>1, <2>2, <2>3, <2>4 DEF RowsOf
    <3> QED
      BY <3>1, TotalOfRows
  <2> QED
    BY <1>1, <2>5, BlocksAre DEF BaseOf
<1> HIDE DEF R
<1>6. Total(Taken, Terms) = Total(Overhead, Terms) + Total(R, Terms)
  <2>1. \A t \in Terms : Overhead[t] \in Nat /\ R[t] \in Nat /\ Taken[t] = Overhead[t] + R[t]
    BY <1>4, SpaceBaseIs
  <2>2. AddsUp(Taken, Overhead, R, Terms)
    BY <1>1, <2>1 DEF AddsUp
  <2> QED
    BY <2>2, AddedTotal
<1>7. Total(Overhead, Terms) \in Nat /\ Total(R, Terms) \in Nat
  <2>1. \A t \in Terms : Overhead[t] \in Nat /\ R[t] \in Nat
    BY <1>4, SpaceBaseIs
  <2>2. Total(Overhead, Terms) \in Nat
    BY <1>1, <2>1, TotalIs
  <2>3. Total(R, Terms) \in Nat
    BY <1>1, <2>1, TotalIs
  <2> QED
    BY <2>2, <2>3
<1>8. cur_space = 8 + Total(Taken, Terms)
  <2> DEFINE a == Total(Overhead, Terms)
             b == Total(R, Terms)
             c == Total(Taken, Terms)
  <2>1. a \in Nat /\ b \in Nat /\ c = a + b /\ cur_space = (8 + a) + b
    BY <1>1, <1>5, <1>6, <1>7, SpaceBaseIs
  <2> HIDE DEF a, b, c
  <2>2. cur_space = 8 + c
    BY <2>1
  <2> QED
    BY <2>2 DEF c
<1>9. \A t \in Terms : Taken[t] \in Nat
  BY <1>4, SpaceBaseIs
<1> QED
  BY <1>3, <1>8, <1>9

\* The lists of the index and those that were left take what all lists take.
LEMMA SpaceSplit ==
  ASSUME HybridIInv, Cached, stage \in {"written", "ended"}
  PROVE  /\ IndexSize \in Nat
         /\ cur_space = IndexSize + SpaceLeft
         /\ jobs = <<>> => SpaceLeft = 0
<1> DEFINE m == Len(index)
           n == Len(jobs)
           G == [t \in 0..(m - 1) |-> ListSize(t, index[t + 1])]
           H == [k \in 0..(n - 1) |-> LET job == jobs[k + 1] IN
                  ListSize(job.list, [slot \in Slots(job.list) |-> Replaced(job.base + slot)])]
<1>1. l = N /\ IndexInv /\ JobsInv
  BY DEF HybridIInv, TransformInv
<1>2. m \in Nat /\ n \in Nat /\ m + n = N /\ Terms = 0..(N - 1) /\ N \in Nat
  <2>1. PICK S : jobs \in Seq(S)
    BY <1>1 DEF JobsInv
  <2> QED
    BY <1>1, <2>1, ListsAre DEF IndexInv, JobsInv
<1>3. /\ cur_space = 8 + Total(Taken, Terms)
      /\ \A t \in Terms : /\ Taken[t] \in Nat
                          /\ [slot \in Slots(t) |-> Replaced(BaseOf(t) + slot)] = Coded(t)
  BY SpaceChosen
<1>4. ASSUME NEW t \in 0..(m - 1) PROVE G[t] = Taken[t] /\ Taken[t] \in Nat
  <2>1. t \in Terms
    BY <1>2
  <2>2. index[t + 1] = Coded(t)
    BY <1>1 DEF IndexInv
  <2> QED
    BY <1>3, <2>1, <2>2 DEF Taken
<1>5. ASSUME NEW k \in 0..(n - 1) PROVE H[k] = Taken[m + k] /\ Taken[m + k] \in Nat
  <2>1. m + k \in Terms /\ k + 1 \in 1..n /\ m + (k + 1) - 1 = m + k
    BY <1>2
  <2>2. jobs[k + 1].list = m + k /\ jobs[k + 1].base = BaseOf(m + k)
    <3>1. /\ jobs[k + 1].list = m + (k + 1) - 1
          /\ jobs[k + 1].base = BaseOf(m + (k + 1) - 1)
      BY <1>1, <2>1 DEF JobsInv
    <3> QED
      BY <2>1, <3>1
  <2>3. H[k] = ListSize(m + k, [slot \in Slots(m + k) |-> Replaced(BaseOf(m + k) + slot)])
    BY <2>2
  <2> HIDE DEF H
  <2> QED
    BY <1>3, <2>1, <2>3 DEF Taken
<1>6. IndexSize = 8 + SumFunction(G) /\ SpaceLeft = SumFunction(H)
  BY DEF IndexSize, SpaceLeft
<1>7. DOMAIN G = 0..(m - 1) /\ DOMAIN H = 0..(n - 1)
  OBVIOUS
<1> HIDE DEF G, H, m, n
<1>8. SumFunction(G) = Total(G, 0..(m - 1)) /\ SumFunction(H) = Total(H, 0..(n - 1))
  BY <1>7, SumFunctionIs
<1>9. IsFiniteSet(0..(m - 1)) /\ IsFiniteSet(0..(n - 1))
  BY <1>2, FS_Interval
<1>10. Total(G, 0..(m - 1)) = Total(Taken, 0..(m - 1)) /\ Total(Taken, 0..(m - 1)) \in Nat
  <2>1. Total(Taken, 0..(m - 1)) = Total(G, 0..(m - 1))
    BY <1>4, <1>9, TotalSame
  <2>2. Total(Taken, 0..(m - 1)) \in Nat
    BY <1>4, <1>9, TotalIs
  <2> QED
    BY <2>1, <2>2
<1>11. Total(H, 0..(n - 1)) \in Nat
  <2>1. \A k \in 0..(n - 1) : H[k] \in Nat
    BY <1>5
  <2> QED
    BY <1>9, <2>1, TotalIs
<1>12. Total(Taken, 0..(N - 1)) = Total(Taken, 0..(m - 1)) + Total(H, 0..(n - 1))
  <2>1. \A x \in 0..(m + n - 1) : Taken[x] \in Nat
    BY <1>2, <1>3
  <2>2. IsStretch(H, n, Taken, m)
    BY <1>5, <2>1 DEF IsStretch
  <2> QED
    BY <1>2, <2>2, TotalRow
<1>13. cur_space = IndexSize + SpaceLeft /\ IndexSize \in Nat
  <2> DEFINE a == Total(Taken, 0..(m - 1))
             b == Total(H, 0..(n - 1))
             c == Total(Taken, 0..(N - 1))
  <2>1. /\ a \in Nat /\ b \in Nat /\ c = a + b /\ cur_space = 8 + c
        /\ IndexSize = 8 + a /\ SpaceLeft = b
    BY <1>2, <1>3, <1>6, <1>8, <1>10, <1>11, <1>12
  <2> HIDE DEF a, b, c
  <2> QED
    BY <2>1
<1>14. ASSUME jobs = <<>> PROVE SpaceLeft = 0
  <2>1. n = 0 /\ 0..(n - 1) = {}
    BY <1>14 DEF n
  <2> QED
    BY <1>6, <1>8, <2>1, TotalEmpty
<1> QED
  BY <1>13, <1>14

\* A program that ends normally has announced the space of the index it has
\* written, and an index without the lists of a batch that complete() did not
\* join is short of it by what those lists take.
THEOREM SpaceCorrect == HybridSpec => []FoundSpaceIsIndexSize
<1>1. HybridIInv => FoundSpaceIsIndexSize
  <2> SUFFICES ASSUME HybridIInv, Cached
               PROVE  /\ stage = "ended" => cur_space = IndexSize
                      /\ stage = "written" => cur_space = IndexSize + SpaceLeft
    BY DEF FoundSpaceIsIndexSize
  <2>1. ASSUME stage = "ended" PROVE cur_space = IndexSize
    <3>1. jobs = <<>>
      BY <2>1 DEF HybridIInv, TransformInv
    <3>2. IndexSize \in Nat /\ cur_space = IndexSize + SpaceLeft /\ SpaceLeft = 0
      BY <2>1, <3>1, SpaceSplit
    <3> QED
      BY <3>2
  <2>2. ASSUME stage = "written" PROVE cur_space = IndexSize + SpaceLeft
    BY <2>2, SpaceSplit
  <2> QED
    BY <2>1, <2>2
<1> QED
  BY <1>1, HybridInvariance, PTL

Slotted == UNION {{t} \X Slots(t) : t \in Terms}

\* What FoldSet computes: the pairs that the slots of a set come to.
Onward(s, before) ==
  {<<a[1] + p[1], a[2] + p[2]>> :
     a \in before, p \in SpaceTime(Chosen(s)[1], Chosen(s)[2])}
IsReach(reach, U) ==
  reach = [s \in SUBSET U |->
             IF s = {} THEN {<<space_base, 0>>} ELSE Onward(s, reach[s \ {Chosen(s)}])]

\* The fold of TimeOptimal is the value of that function.
LEMMA ReachableIs == Reachable = (CHOOSE reach : IsReach(reach, Slotted))[Slotted]
BY DEF Reachable, FoldSet, MapThenFoldSet, IsReach, Onward, Chosen, Slotted

\* There is such a function, built up set by set.
LEMMA ReachExists ==
  ASSUME NEW U, IsFiniteSet(U)
  PROVE  \E reach : IsReach(reach, U)
<1> DEFINE Small(n) == {s \in SUBSET U : Cardinality(s) <= n}
           Partial(n, reach) ==
             \A s \in Small(n) :
               reach[s] = IF s = {} THEN {<<space_base, 0>>}
                          ELSE Onward(s, reach[s \ {Chosen(s)}])
           Good(n) == \E reach : Partial(n, reach)
           Bad == {n \in Nat : ~Good(n)}
<1>1. \A s \in SUBSET U : IsFiniteSet(s) /\ Cardinality(s) \in Nat
                          /\ Cardinality(s) <= Cardinality(U)
  BY FS_Subset, FS_CardinalityType
<1>2. \A s \in SUBSET U : s # {} =>
        /\ Chosen(s) \in U /\ s \ {Chosen(s)} \in SUBSET U
        /\ Cardinality(s \ {Chosen(s)}) = Cardinality(s) - 1
  BY <1>1, ChosenIsIn, FS_RemoveElement
<1>3. Good(0)
  <2> DEFINE none == [s \in SUBSET U |-> {<<space_base, 0>>}]
  <2>1. \A s \in Small(0) : s = {}
    BY <1>1, FS_EmptySet
  <2>2. Partial(0, none)
    BY <2>1
  <2> HIDE DEF Partial, none
  <2> QED
    BY <2>2
<1>4. ASSUME NEW n \in Nat, Good(n) PROVE Good(n + 1)
  <2>1. PICK reach : Partial(n, reach)
    BY <1>4
  <2> DEFINE more == [s \in SUBSET U |->
               IF s = {} THEN {<<space_base, 0>>} ELSE Onward(s, reach[s \ {Chosen(s)}])]
  <2>2. \A s \in Small(n) : more[s] = reach[s]
    BY <2>1
  <2>3. \A s \in Small(n + 1) : s # {} => s \ {Chosen(s)} \in Small(n)
    BY <1>1, <1>2
  <2>4. Partial(n + 1, more)
    <3> SUFFICES ASSUME NEW s \in Small(n + 1)
                 PROVE  more[s] = IF s = {} THEN {<<space_base, 0>>}
                                  ELSE Onward(s, more[s \ {Chosen(s)}])
      OBVIOUS
    <3>1. CASE s = {}
      BY <3>1
    <3>2. CASE s # {}
      BY <2>2, <2>3, <3>2
    <3> QED
      BY <3>1, <3>2
  <2> HIDE DEF more, Partial
  <2> QED
    BY <2>4
<1>5. Bad = {}
  <2>1. SUFFICES ASSUME Bad # {} PROVE FALSE
    OBVIOUS
  <2> HIDE DEF Good
  <2>2. PICK n \in Bad : \A m \in Bad : n <= m
    BY <2>1, LeastElement
  <2>3. n # 0 /\ n - 1 \in Nat /\ ~(n - 1 \in Bad)
    BY <1>3, <2>2
  <2> QED
    BY <1>4, <2>2, <2>3
<1>6. PICK reach : Partial(Cardinality(U), reach)
  <2>1. Cardinality(U) \in Nat
    BY FS_CardinalityType
  <2> HIDE DEF Partial
  <2> QED
    BY <1>5, <2>1
<1> DEFINE whole == [s \in SUBSET U |-> reach[s]]
<1>7. \A s \in SUBSET U :
        whole[s] = IF s = {} THEN {<<space_base, 0>>}
                   ELSE Onward(s, whole[s \ {Chosen(s)}])
  BY <1>1, <1>2, <1>6
<1>8. whole = [s \in SUBSET U |->
                 IF s = {} THEN {<<space_base, 0>>}
                 ELSE Onward(s, whole[s \ {Chosen(s)}])]
  <2>1. whole = [s \in SUBSET U |-> whole[s]]
    OBVIOUS
  <2> HIDE DEF whole
  <2> QED
    BY <1>7, <2>1
<1> HIDE DEF whole
<1>9. IsReach(whole, U)
  BY <1>8 DEF IsReach
<1> QED
  BY <1>9

\* A total of weighted sums.
Weighs(h, f, g, a, b, S) ==
  /\ IsFiniteSet(S) /\ a \in Nat /\ b \in Nat
  /\ \A x \in S : f[x] \in Nat /\ g[x] \in Nat /\ h[x] = f[x] * a + g[x] * b

\* Then the total weighs as the totals do.
LEMMA WeighedTotal ==
  ASSUME NEW h, NEW f, NEW g, NEW a, NEW b, NEW S, Weighs(h, f, g, a, b, S)
  PROVE  /\ Total(h, S) = Total(f, S) * a + Total(g, S) * b
         /\ \A x \in S : h[x] \in Nat
<1> DEFINE C == {R \in SUBSET S : Total(h, R) # Total(f, R) * a + Total(g, R) * b}
<1>0. IsFiniteSet(S) /\ a \in Nat /\ b \in Nat
  BY DEF Weighs
<1>1. \A x \in S : f[x] \in Nat /\ g[x] \in Nat /\ h[x] \in Nat /\ h[x] = f[x] * a + g[x] * b
  <2> SUFFICES ASSUME NEW x \in S
               PROVE  f[x] \in Nat /\ g[x] \in Nat /\ h[x] \in Nat /\ h[x] = f[x] * a + g[x] * b
    OBVIOUS
  <2> DEFINE u == f[x]
             v == g[x]
  <2>1. u \in Nat /\ v \in Nat /\ h[x] = u * a + v * b
    BY DEF Weighs
  <2>2. u * a \in Nat /\ v * b \in Nat
    <3> HIDE DEF u, v
    <3> QED
      BY <1>0, <2>1
  <2> QED
    BY <2>1, <2>2
<1>2. ASSUME NEW R \in SUBSET S
      PROVE  /\ IsFiniteSet(R)
             /\ \A x \in R : f[x] \in Nat /\ g[x] \in Nat /\ h[x] \in Nat
  BY <1>0, <1>1, FS_Subset
<1>3. C = {}
  <2> SUFFICES ASSUME C # {} PROVE FALSE
    OBVIOUS
  <2>1. PICK R \in C : \A x \in R : R \ {x} \notin C
    <3>1. C \in SUBSET (SUBSET S)
      OBVIOUS
    <3> HIDE DEF C
    <3> QED
      BY <1>0, <3>1, MinimalSet
  <2>2. R \in SUBSET S
    BY <2>1
  <2>3. R # {}
    <3>1. Total(h, {}) = 0 /\ Total(f, {}) = 0 /\ Total(g, {}) = 0
      BY TotalEmpty
    <3>2. 0 = 0 * a + 0 * b
      BY <1>0
    <3> QED
      BY <2>1, <3>1, <3>2
  <2>4. PICK x \in R : TRUE
    BY <2>3
  <2>5. R \ {x} \in SUBSET S
    BY <2>2
  <2>6. Total(h, R \ {x}) = Total(f, R \ {x}) * a + Total(g, R \ {x}) * b
    BY <2>1, <2>4, <2>5
  <2>7. Total(h, R) = h[x] + Total(h, R \ {x})
    BY <1>2, <2>2, TotalRemove
  <2>8. Total(f, R) = f[x] + Total(f, R \ {x})
    BY <1>2, <2>2, TotalRemove
  <2>9. Total(g, R) = g[x] + Total(g, R \ {x})
    BY <1>2, <2>2, TotalRemove
  <2>10. Total(f, R \ {x}) \in Nat
    BY <1>2, <2>5, TotalIs
  <2>11. Total(g, R \ {x}) \in Nat
    BY <1>2, <2>5, TotalIs
  <2> DEFINE u == f[x]
             v == g[x]
             tu == Total(f, R \ {x})
             tv == Total(g, R \ {x})
             th == Total(h, R)
  <2>12. u \in Nat /\ v \in Nat /\ h[x] = u * a + v * b
    BY <1>1, <2>2, <2>4
  <2>13. /\ tu \in Nat /\ tv \in Nat
         /\ th = (u * a + v * b) + (tu * a + tv * b)
         /\ Total(f, R) = u + tu /\ Total(g, R) = v + tv
    BY <2>6, <2>7, <2>8, <2>9, <2>10, <2>11, <2>12
  <2>14. th # Total(f, R) * a + Total(g, R) * b
    BY <2>1
  <2>15. th # (u + tu) * a + (v + tv) * b
    BY <2>13, <2>14
  <2> HIDE DEF u, v, tu, tv, th
  <2> QED
    BY <1>0, <2>12, <2>13, <2>15
<1>4. S \in SUBSET S
  OBVIOUS
<1> QED
  BY <1>1, <1>3, <1>4

\* No point is below the line through a corner whose slope is between those to
\* the corner and from it.
LEMMA PointUnder ==
  ASSUME NEW P \in SUBSET Point, NEW buf \in Seq(Point), Frontier(buf, P),
         NEW k \in 1..Len(buf), NEW lam, lam.num \in Int, lam.den \in Int, lam.den > 0,
         ~Less(lam, buf[k].lambda),
         k < Len(buf) => ~Less(buf[k + 1].lambda, lam),
         NEW p \in P
  PROVE  Lift(p, buf[k], lam) >= 0
<1> DEFINE ds == p.space - buf[k].space
           dt == p.time - buf[k].time
           n2 == lam.num
           d2 == lam.den
<1>1. /\ Len(buf) \in Nat /\ k \in Nat /\ IsPair(p) /\ IsPair(buf[k]) /\ buf[k] \in Point
      /\ ds \in Int /\ dt \in Int
  <2>1. p \in Point /\ buf[k] \in Point /\ Len(buf) \in Nat
    OBVIOUS
  <2>2. IsPair(p)
    BY <2>1, PointIs DEF IsPair
  <2>3. IsPair(buf[k])
    BY <2>1, PointIs DEF IsPair
  <2>4. ds \in Int /\ dt \in Int
    BY <2>2, <2>3 DEF IsPair
  <2> QED
    BY <2>1, <2>2, <2>3, <2>4
<1>2. Lift(p, buf[k], lam) = ds * d2 + dt * n2
  BY DEF Lift
<1>3. CASE dt >= 0
  <2> DEFINE n1 == buf[k].lambda.num
             d1 == buf[k].lambda.den
  <2>1. n1 \in Int /\ d1 \in Int /\ d1 > 0 /\ ds * d1 + dt * n1 >= 0
    <3>1. Lift(p, buf[k], buf[k].lambda) >= 0 /\ d1 > 0
      BY DEF Frontier
    <3> QED
      BY <1>1, <3>1, PointIs DEF Lift
  <2>2. ~(n2 * d1 < n1 * d2)
    BY DEF Less
  <2> HIDE DEF ds, dt, n1, d1, n2, d2
  <2>3. n2 \in Int /\ d2 \in Int /\ d2 > 0
    BY DEF n2, d2
  <2>4. n2 * d1 - n1 * d2 \in Int /\ n2 * d1 - n1 * d2 >= 0
    BY <2>1, <2>2, <2>3
  <2>5. dt * (n2 * d1 - n1 * d2) >= 0
    <3> DEFINE x == n2 * d1 - n1 * d2
    <3>1. x \in Int /\ x >= 0
      BY <2>4
    <3> HIDE DEF x
    <3>2. dt * x >= 0
      BY <1>1, <1>3, <3>1, SignOfProduct
    <3> QED
      BY <3>2 DEF x
  <2>6. ds * d2 + dt * n2 >= 0
    BY <1>1, <2>1, <2>3, <2>5, Turned
  <2> QED
    BY <1>2, <2>6
<1>4. CASE dt < 0
  <2>1. k < Len(buf)
    <3>1. p.time >= buf[Len(buf)].time
      BY DEF Frontier
    <3>2. p.time < buf[k].time
      BY <1>1, <1>4 DEF IsPair
    <3>3. p.time \in Int /\ buf[k].time \in Int
      BY <1>1 DEF IsPair
    <3>4. k # Len(buf)
      BY <3>1, <3>2, <3>3
    <3> QED
      BY <1>1, <3>4
  <2> DEFINE c == buf[k + 1]
             n1 == c.lambda.num
             d1 == c.lambda.den
  <2>2. k + 1 \in 2..Len(buf) /\ k + 1 \in 1..Len(buf) /\ (k + 1) - 1 = k
    BY <1>1, <2>1
  <2>3. c \in Point /\ IsPair(c)
    <3>1. c \in Point
      BY <2>2
    <3> QED
      BY <3>1, PointIs DEF IsPair
  <2>4. /\ n1 \in Int /\ d1 \in Int /\ d1 > 0
        /\ Lift(c, buf[k], c.lambda) = 0
    <3>1. /\ Lift(buf[k + 1], buf[(k + 1) - 1], buf[k + 1].lambda) = 0
          /\ buf[k + 1].lambda.den > 0
          /\ buf[k + 1].lambda.num \in Int /\ buf[k + 1].lambda.den \in Int
      BY <2>2, OnLine
    <3> QED
      BY <2>2, <3>1
  <2>5. Lift(p, c, c.lambda) >= 0
    BY <2>2 DEF Frontier
  <2>6. ds * d1 + dt * n1 >= 0
    <3> HIDE DEF c
    <3>1. Lift(p, buf[k], c.lambda) = Lift(c, buf[k], c.lambda) + Lift(p, c, c.lambda)
      BY <1>1, <2>3, <2>4, LiftOver
    <3>2. Lift(p, c, c.lambda) \in Int
      BY <1>1, <2>3, <2>4, LiftOver
    <3>3. Lift(p, buf[k], c.lambda) >= 0
      BY <2>4, <2>5, <3>1, <3>2
    <3> QED
      BY <3>3 DEF Lift
  <2>7. ~(n1 * d2 < n2 * d1)
    BY <2>1 DEF Less
  <2> HIDE DEF ds, dt, n1, d1, n2, d2
  <2>8. n2 \in Int /\ d2 \in Int /\ d2 > 0
    BY DEF n2, d2
  <2>9. n2 * d1 - n1 * d2 \in Int /\ n2 * d1 - n1 * d2 <= 0
    BY <2>4, <2>7, <2>8
  <2>10. dt * (n2 * d1 - n1 * d2) >= 0
    <3> DEFINE x == n2 * d1 - n1 * d2
    <3>1. x \in Int /\ x <= 0
      BY <2>9
    <3> HIDE DEF x
    <3>2. dt * x >= 0
      BY <1>1, <1>4, <3>1, SignOfProduct
    <3> QED
      BY <3>2 DEF x
  <2>11. ds * d2 + dt * n2 >= 0
    BY <1>1, <2>4, <2>6, <2>8, <2>10, Turned
  <2> QED
    BY <1>2, <2>11
<1> HIDE DEF ds, dt
<1> QED
  BY <1>1, <1>3, <1>4

\* The point of a block that was applied last, and the next one of the block.
LEMMA LastApplied ==
  ASSUME HybridIInv, stage = "found", Cached, ~heuristic_greedy, ~Tied,
         NEW t \in Terms, NEW s \in Slots(t), NEW r, r = SlotPoints(t, s)
  PROVE  \E k \in 1..Len(r) :
           /\ chosen[BaseOf(t) + s] = r[k]
           /\ \E i \in Applied : LambdaAt(i) = r[k].lambda
           /\ k < Len(r) => \E j \in points : LambdaAt(j) = r[k + 1].lambda
<1> DEFINE id == BaseOf(t) + s
           P == compute_space_time(t, s, BaseOf(t) + s, smoothing + Decodes(t, s))
<1>1. /\ InOrder /\ points \subseteq DOMAIN lambdas.points
      /\ lambdas.points \in Seq(Point)
  BY DEF HybridIInv, WalkInv, Cached, FileInv
<1>2. id \in Blocks
  BY BasesAre
<1>3. /\ {p \in Range(lambdas.points) : p.id = id} = Range(r)
      /\ r \in Seq(Point) /\ Len(r) >= 1 /\ Frontier(r, P)
      /\ \A i \in 1..Len(r) : r[i].id = id
  BY SlotInFile
<1> HIDE DEF P
<1>4. chosen[id] # None /\ chosen[id].id = id
  <2> HIDE DEF id
  <2> QED
    BY <1>2, AllChosen
<1>5. PICK i \in Applied : /\ lambdas.points[i] = chosen[id]
                           /\ \A j \in Applied : lambdas.points[j].id = id =>
                                ~Less(LambdaAt(i), LambdaAt(j))
  <2> HIDE DEF id
  <2> QED
    BY <1>1, <1>2, <1>4 DEF InOrder
<1> HIDE DEF id
<1>6. i \in DOMAIN lambdas.points
  BY <1>5 DEF Applied
<1>7. chosen[id] \in Range(r)
  <2>1. chosen[id] \in Range(lambdas.points)
    BY <1>5, <1>6 DEF Range
  <2> QED
    BY <1>3, <1>4, <2>1
<1>8. PICK k \in 1..Len(r) : chosen[id] = r[k]
  <2>1. DOMAIN r = 1..Len(r)
    BY <1>3
  <2> QED
    BY <1>7, <2>1 DEF Range
<1>9. LambdaAt(i) = r[k].lambda
  BY <1>5, <1>8 DEF LambdaAt
<1>10. ASSUME k < Len(r) PROVE \E j \in points : LambdaAt(j) = r[k + 1].lambda
  <2>1. Len(r) \in Nat /\ k \in Nat /\ k + 1 \in 1..Len(r) /\ k + 1 \in k..Len(r) /\ k < k + 1
    BY <1>3, <1>10
  <2>2. r[k + 1] \in Range(r)
    <3>1. k + 1 \in DOMAIN r
      BY <1>3, <2>1
    <3> QED
      BY <3>1 DEF Range
  <2>3. PICK j \in DOMAIN lambdas.points : lambdas.points[j] = r[k + 1]
    BY <1>3, <2>2 DEF Range
  <2>4. LambdaAt(j) = r[k + 1].lambda
    BY <2>3 DEF LambdaAt
  <2>5. j \notin Applied
    <3> SUFFICES ASSUME j \in Applied PROVE FALSE
      OBVIOUS
    <3>1. lambdas.points[j].id = id
      BY <1>3, <2>1, <2>3
    <3>2. ~Less(LambdaAt(i), LambdaAt(j))
      BY <1>5, <3>1
    <3>3. ~Less(r[k + 1].lambda, r[k].lambda) /\ r[k + 1].time < r[k].time
      BY <1>3, <2>1, FrontierBends
    <3>4. i # j
      <4>1. r[k] \in Point /\ r[k + 1] \in Point
        BY <1>3, <2>1
      <4>2. r[k].time \in Nat /\ r[k + 1].time \in Nat
        BY <4>1, PointIs
      <4>3. r[k] # r[k + 1]
        BY <3>3, <4>2
      <4> QED
        BY <1>5, <1>8, <2>3, <4>3
    <3>5. Tied
      <4>1. lambdas.points[i].id = id
        BY <1>4, <1>5
      <4>2. /\ ~Less(lambdas.points[i].lambda, lambdas.points[j].lambda)
            /\ ~Less(lambdas.points[j].lambda, lambdas.points[i].lambda)
        BY <1>9, <2>4, <3>2, <3>3 DEF LambdaAt
      <4> QED
        BY <1>6, <2>3, <3>1, <3>4, <4>1, <4>2 DEF Tied
    <3> QED
      BY <3>5
  <2>6. j \in points
    BY <2>3, <2>5 DEF Applied
  <2> QED
    BY <2>4, <2>6
<1> QED
  BY <1>5, <1>8, <1>9, <1>10 DEF id

\* There is a line such that no codec of a block is below the parallel to it
\* through the point that was chosen for the block.
OnOrAbove(lam) ==
  \A t \in Terms : \A s \in Slots(t) :
    \A p \in compute_space_time(t, s, BaseOf(t) + s, smoothing + Decodes(t, s)) :
      Lift(p, chosen[BaseOf(t) + s], lam) >= 0

\* What was found has such a line: that of the point applied last.
LEMMA FoundLine ==
  ASSUME HybridIInv, stage = "found", Cached, ~heuristic_greedy, ~Tied
  PROVE  \E lam \in [num : Int, den : Int] :
           lam.num > 0 /\ lam.den >= 0 /\ OnOrAbove(lam)
<1>1. /\ InOrder /\ points \subseteq DOMAIN lambdas.points
      /\ lambdas.points \in Seq(Point)
  BY DEF HybridIInv, WalkInv, Cached, FileInv
<1>2. CASE points = {}
  <2> DEFINE lam == [num |-> 1, den |-> 0]
  <2>1. lam \in [num : Int, den : Int] /\ lam.num = 1 /\ lam.den = 0
    OBVIOUS
  <2> HIDE DEF lam
  <2>2. ASSUME NEW t \in Terms, NEW s \in Slots(t),
               NEW p \in compute_space_time(t, s, BaseOf(t) + s, smoothing + Decodes(t, s))
        PROVE  Lift(p, chosen[BaseOf(t) + s], lam) >= 0
    <3> DEFINE P == compute_space_time(t, s, BaseOf(t) + s, smoothing + Decodes(t, s))
               r == SlotPoints(t, s)
    <3>1. r \in Seq(Point) /\ Frontier(r, P) /\ P \in SUBSET Point
      BY SlotInFile
    <3>2. PICK k \in 1..Len(r) : chosen[BaseOf(t) + s] = r[k] /\ ~(k < Len(r))
      <4> HIDE DEF r
      <4>1. r = SlotPoints(t, s)
        BY DEF r
      <4> QED
        BY <1>2, <4>1, LastApplied
    <3>3. p \in P
      OBVIOUS
    <3> HIDE DEF P, r
    <3>4. k = Len(r)
      BY <3>1, <3>2
    <3>5. p.time >= r[k].time
      BY <3>1, <3>3, <3>4 DEF Frontier
    <3>6. p \in Point /\ r[k] \in Point
      BY <3>1, <3>3
    <3>7. IsPair(p) /\ IsPair(r[k])
      BY <3>6, PointIs DEF IsPair
    <3>8. Lift(p, r[k], lam) = (p.space - r[k].space) * 0 + (p.time - r[k].time) * 1
      BY <2>1 DEF Lift
    <3> QED
      BY <3>2, <3>5, <3>7, <3>8 DEF IsPair
  <2> QED
    BY <2>1, <2>2 DEF OnOrAbove
<1>3. CASE points # {}
  <2>1. PICK i0 \in Applied : /\ LambdaAt(i0).num > 0
                              /\ \A j \in Applied : ~Less(LambdaAt(i0), LambdaAt(j))
    BY <1>1, <1>3 DEF InOrder
  <2> DEFINE lam == LambdaAt(i0)
  <2>2. i0 \in DOMAIN lambdas.points /\ lambdas.points[i0] \in Point
    BY <1>1, <2>1 DEF Applied
  <2>3. lam \in [num : Int, den : Int]
    BY <2>2 DEF LambdaAt, Point
  <2>4. lam.den > 0
    <3> DEFINE p == lambdas.points[i0]
    <3>1. p.id \in Blocks /\ p \in Range(lambdas.points)
      <4>1. p \in Range(lambdas.points)
        BY <2>2 DEF Range
      <4> QED
        BY <2>2, <4>1, PointIs
    <3>2. PICK t \in Terms : \E s \in Slots(t) : p.id = BaseOf(t) + s
      <4> DEFINE id == p.id
      <4>1. id \in Blocks
        BY <3>1
      <4> HIDE DEF id
      <4>2. \E t \in Terms : \E s \in Slots(t) : id = BaseOf(t) + s
        BY <4>1, SlotOfBlock
      <4> QED
        BY <4>2 DEF id
    <3>3. PICK s \in Slots(t) : p.id = BaseOf(t) + s
      BY <3>2
    <3> DEFINE P == compute_space_time(t, s, BaseOf(t) + s, smoothing + Decodes(t, s))
               r == SlotPoints(t, s)
    <3>4. /\ {q \in Range(lambdas.points) : q.id = BaseOf(t) + s} = Range(r)
          /\ r \in Seq(Point) /\ Frontier(r, P)
      BY SlotInFile
    <3> HIDE DEF P, r
    <3>5. p \in Range(r)
      BY <3>1, <3>3, <3>4
    <3>6. PICK k \in 1..Len(r) : r[k] = p
      <4>1. DOMAIN r = 1..Len(r)
        BY <3>4
      <4> HIDE DEF p
      <4> QED
        BY <3>5, <4>1 DEF Range
    <3>7. r[k].lambda.den > 0
      BY <3>4 DEF Frontier
    <3>8. lam = r[k].lambda
      BY <3>6 DEF LambdaAt
    <3> QED
      BY <3>7, <3>8
  <2>5. ASSUME NEW t \in Terms, NEW s \in Slots(t),
               NEW p \in compute_space_time(t, s, BaseOf(t) + s, smoothing + Decodes(t, s))
        PROVE  Lift(p, chosen[BaseOf(t) + s], lam) >= 0
    <3> DEFINE P == compute_space_time(t, s, BaseOf(t) + s, smoothing + Decodes(t, s))
               r == SlotPoints(t, s)
    <3>1. r \in Seq(Point) /\ Frontier(r, P) /\ P \in SUBSET Point
      BY SlotInFile
    <3> HIDE DEF lam
    <3>2. PICK k \in 1..Len(r) :
            /\ chosen[BaseOf(t) + s] = r[k]
            /\ \E i \in Applied : LambdaAt(i) = r[k].lambda
            /\ k < Len(r) => \E j \in points : LambdaAt(j) = r[k + 1].lambda
      <4> HIDE DEF r
      <4>1. r = SlotPoints(t, s)
        BY DEF r
      <4> QED
        BY <4>1, LastApplied
    <3>3. p \in P
      OBVIOUS
    <3> HIDE DEF P, r
    <3>4. ~Less(lam, r[k].lambda)
      BY <2>1, <3>2 DEF lam
    <3>5. k < Len(r) => ~Less(r[k + 1].lambda, lam)
      BY <1>1, <2>1, <3>2 DEF lam, InOrder
    <3>6. lam.num \in Int /\ lam.den \in Int /\ lam.den > 0
      BY <2>3, <2>4
    <3>7. Lift(p, r[k], lam) >= 0
      BY <3>1, <3>3, <3>4, <3>5, <3>6, PointUnder
    <3> QED
      BY <3>2, <3>7
  <2>6. lam.num > 0
    BY <2>1
  <2>7. lam.den >= 0
    <3> DEFINE d == lam.den
    <3>1. d \in Int /\ d > 0
      BY <2>3, <2>4
    <3> HIDE DEF d
    <3>2. d >= 0
      BY <3>1
    <3> QED
      BY <3>2 DEF d
  <2> HIDE DEF lam
  <2> QED
    BY <2>3, <2>5, <2>6, <2>7 DEF OnOrAbove
<1> QED
  BY <1>2, <1>3

\* The slots and their blocks.
IdsOf(S) == {BaseOf(x[1]) + x[2] : x \in S}

\* Slots and blocks are the same in number, one block to a slot.
LEMMA SlottedAre ==
  /\ IsFiniteSet(Slotted)
  /\ \A x \in Slotted : /\ x[1] \in Terms /\ x[2] \in Slots(x[1])
                        /\ x = <<x[1], x[2]>>
                        /\ BaseOf(x[1]) + x[2] \in Blocks
  /\ IdsOf(Slotted) = Blocks
<1>1. /\ N \in Nat /\ Terms = 0..(N - 1) /\ IsFiniteSet(Terms)
      /\ \A t \in Terms : Width[t] \in Nat /\ Slots(t) = 0..(Width[t] - 1)
  BY ListsAre
<1>2. ASSUME NEW x \in Slotted
      PROVE  /\ x[1] \in Terms /\ x[2] \in Slots(x[1]) /\ x = <<x[1], x[2]>>
             /\ BaseOf(x[1]) + x[2] \in Blocks
  <2>1. PICK t \in Terms : x \in {t} \X Slots(t)
    BY DEF Slotted
  <2>2. x[1] = t /\ x[2] \in Slots(t) /\ x = <<x[1], x[2]>>
    BY <2>1
  <2>3. BaseOf(t) + x[2] \in Blocks
    BY <2>2, BasesAre
  <2> QED
    BY <2>2, <2>3
<1>3. ASSUME NEW t \in Terms, NEW s \in Slots(t) PROVE <<t, s>> \in Slotted
  BY DEF Slotted
<1>4. IdsOf(Slotted) = Blocks
  <2>1. ASSUME NEW id \in Blocks PROVE id \in IdsOf(Slotted)
    <3>1. PICK t \in Terms : \E s \in Slots(t) : id = BaseOf(t) + s
      BY SlotOfBlock
    <3>2. PICK s \in Slots(t) : id = BaseOf(t) + s
      BY <3>1
    <3> DEFINE x == <<t, s>>
    <3>3. x \in Slotted /\ x[1] = t /\ x[2] = s
      BY <1>3
    <3> HIDE DEF x
    <3> QED
      BY <3>2, <3>3 DEF IdsOf
  <2>2. ASSUME NEW id \in IdsOf(Slotted) PROVE id \in Blocks
    BY <1>2 DEF IdsOf
  <2> QED
    BY <2>1, <2>2
<1>5. IsFiniteSet(Slotted)
  <2> DEFINE M == BaseOf(N)
  <2>1. M \in Nat
    BY BlocksAre
  <2>2. \A t \in Terms : \A s \in Slots(t) : s \in 0..M
    <3> SUFFICES ASSUME NEW t \in Terms, NEW s \in Slots(t) PROVE s \in 0..M
      OBVIOUS
    <3>1. BaseOf(t) + s \in Blocks /\ BaseOf(t) \in Nat
      <4>1. t \in 0..N
        BY <1>1
      <4> QED
        BY <4>1, BasesAre
    <3>2. Blocks = 0..(M - 1)
      BY BlocksAre
    <3>3. s \in Nat
      BY <1>1
    <3> DEFINE b == BaseOf(t)
    <3> HIDE DEF M, b
    <3>4. b \in Nat /\ b + s \in 0..(M - 1)
      BY <3>1, <3>2 DEF b
    <3> QED
      BY <2>1, <3>3, <3>4
  <2>3. Slotted \in SUBSET (Terms \X (0..M))
    <3> SUFFICES ASSUME NEW x \in Slotted PROVE x \in Terms \X (0..M)
      OBVIOUS
    <3>1. x[1] \in Terms /\ x[2] \in 0..M /\ x = <<x[1], x[2]>>
      BY <1>2, <2>2
    <3> HIDE DEF M
    <3> QED
      BY <3>1
  <2> HIDE DEF M
  <2>4. IsFiniteSet(0..M)
    BY <2>1, FS_Interval
  <2>5. IsFiniteSet(Terms \X (0..M))
    BY <1>1, <2>4, FS_Product
  <2> QED
    BY <2>3, <2>5, FS_Subset
<1> QED
  BY <1>2, <1>4, <1>5

\* A pair that is reached comes from one before and a codec of the slot.
LEMMA OnwardFrom ==
  ASSUME NEW S, NEW before, NEW st \in Onward(S, before)
  PROVE  \E a \in before : \E p \in SpaceTime(Chosen(S)[1], Chosen(S)[2]) :
           st = <<a[1] + p[1], a[2] + p[2]>>
<1> DEFINE V == SpaceTime(Chosen(S)[1], Chosen(S)[2])
<1> HIDE DEF V
<1>1. st \in {<<a[1] + p[1], a[2] + p[2]>> : a \in before, p \in V}
  BY DEF Onward, V
<1>2. \E a \in before : \E p \in V : st = <<a[1] + p[1], a[2] + p[2]>>
  BY <1>1
<1> QED
  BY <1>2 DEF V

\* What a pair weighs along a line.
Weight(st, lam) == (st[1] - space_base) * lam.den + st[2] * lam.num

\* No pair that is reachable weighs less than the points that were chosen.
LEMMA WeightBound ==
  ASSUME NEW lam \in [num : Int, den : Int], NEW w,
         \A id \in Blocks : w[id] \in Nat,
         \A x \in Slotted : \A p \in SpaceTime(x[1], x[2]) :
           /\ p[1] \in Nat /\ p[2] \in Nat
           /\ p[1] * lam.den + p[2] * lam.num >= w[BaseOf(x[1]) + x[2]]
  PROVE  \A st \in Reachable : /\ st[1] \in Int /\ st[2] \in Int
                               /\ Weight(st, lam) >= Total(w, Blocks)
<1> DEFINE reach == CHOOSE r : IsReach(r, Slotted)
           Bounded(st, S) == /\ st[1] \in Int /\ st[2] \in Int
                             /\ Weight(st, lam) >= Total(w, IdsOf(S))
           C == {S \in SUBSET Slotted : ~\A st \in reach[S] : Bounded(st, S)}
<1>1. IsReach(reach, Slotted)
  <2>1. \E r : IsReach(r, Slotted)
    BY SlottedAre, ReachExists
  <2> QED
    BY <2>1
<1>2. Reachable = reach[Slotted]
  BY ReachableIs
<1> HIDE DEF reach
<1>3. ASSUME NEW S \in SUBSET Slotted
      PROVE  reach[S] = IF S = {} THEN {<<space_base, 0>>}
                        ELSE Onward(S, reach[S \ {Chosen(S)}])
  BY <1>1 DEF IsReach
<1>4. ASSUME NEW S \in SUBSET Slotted
      PROVE  /\ IdsOf(S) \in SUBSET Blocks /\ IsFiniteSet(IdsOf(S))
             /\ Total(w, IdsOf(S)) \in Nat
  <2>1. IdsOf(S) \in SUBSET Blocks
    BY SlottedAre DEF IdsOf
  <2>2. IsFiniteSet(IdsOf(S))
    BY <2>1, BlocksAre, FS_Subset
  <2>3. \A id \in IdsOf(S) : w[id] \in Nat
    BY <2>1
  <2> QED
    BY <2>1, <2>2, <2>3, TotalIs
<1>5. space_base \in Nat /\ lam.num \in Int /\ lam.den \in Int
  BY SpaceBaseIs
<1>6. C = {}
  <2> SUFFICES ASSUME C # {} PROVE FALSE
    OBVIOUS
  <2>1. PICK S \in C : \A x \in S : S \ {x} \notin C
    <3>1. C \in SUBSET (SUBSET Slotted)
      OBVIOUS
    <3> HIDE DEF C
    <3> QED
      BY <3>1, SlottedAre, MinimalSet
  <2>2. S \in SUBSET Slotted
    BY <2>1
  <2>3. PICK st \in reach[S] : ~Bounded(st, S)
    BY <2>1
  <2>4. CASE S = {}
    <3>1. st = <<space_base, 0>>
      BY <1>3, <2>2, <2>3, <2>4
    <3>2. Total(w, IdsOf(S)) = 0
      <4>1. IdsOf(S) = {}
        BY <2>4 DEF IdsOf
      <4> QED
        BY <4>1, TotalEmpty
    <3>3. st[1] = space_base /\ st[2] = 0
      BY <3>1
    <3>4. Weight(st, lam) = (space_base - space_base) * lam.den + 0 * lam.num
      BY <3>3 DEF Weight
    <3>5. Weight(st, lam) = 0
      BY <1>5, <3>4
    <3> QED
      BY <1>5, <2>3, <3>2, <3>3, <3>5
  <2>5. CASE S # {}
    <3> DEFINE x == Chosen(S)
               R == S \ {x}
               id == BaseOf(x[1]) + x[2]
    <3>1. x \in S /\ R \in SUBSET Slotted /\ x \in Slotted
      BY <2>2, <2>5, ChosenIsIn
    <3>2. reach[S] = Onward(S, reach[R])
      BY <1>3, <2>2, <2>5
    <3>3. PICK a \in reach[R] : \E p \in SpaceTime(x[1], x[2]) : st = <<a[1] + p[1], a[2] + p[2]>>
      <4>1. st \in Onward(S, reach[R])
        BY <2>3, <3>2
      <4> HIDE DEF R
      <4> QED
        BY <4>1, OnwardFrom
    <3>4. PICK p \in SpaceTime(x[1], x[2]) : st = <<a[1] + p[1], a[2] + p[2]>>
      BY <3>3
    <3> HIDE DEF x
    <3>5. a[1] \in Int /\ a[2] \in Int /\ Weight(a, lam) >= Total(w, IdsOf(R))
      <4>1. R \notin C
        BY <2>1, <3>1
      <4> QED
        BY <3>1, <3>3, <4>1
    <3>6. /\ p[1] \in Nat /\ p[2] \in Nat
          /\ p[1] * lam.den + p[2] * lam.num >= w[id]
      BY <3>1
    <3>7. /\ IdsOf(R) = IdsOf(S) \ {id} /\ id \in IdsOf(S) /\ id \in Blocks
      <4>1. id \in IdsOf(S)
        BY <3>1 DEF IdsOf
      <4>2. ASSUME NEW y \in S, BaseOf(y[1]) + y[2] = id PROVE y = x
        <5>1. /\ y[1] \in Terms /\ y[2] \in Slots(y[1]) /\ y = <<y[1], y[2]>>
              /\ x[1] \in Terms /\ x[2] \in Slots(x[1]) /\ x = <<x[1], x[2]>>
          BY <2>2, <3>1, SlottedAre
        <5>2. y[1] = x[1] /\ y[2] = x[2]
          BY <4>2, <5>1, SlotsApart
        <5> QED
          BY <5>1, <5>2
      <4>3. id \in Blocks
        BY <3>1, SlottedAre
      <4> HIDE DEF id
      <4>4. IdsOf(R) \subseteq IdsOf(S) \ {id}
        <5> SUFFICES ASSUME NEW e \in IdsOf(R) PROVE e \in IdsOf(S) \ {id}
          OBVIOUS
        <5>1. PICK y \in R : e = BaseOf(y[1]) + y[2]
          BY DEF IdsOf
        <5> QED
          BY <4>2, <5>1 DEF IdsOf
      <4>5. IdsOf(S) \ {id} \subseteq IdsOf(R)
        <5> SUFFICES ASSUME NEW e \in IdsOf(S), e # id PROVE e \in IdsOf(R)
          OBVIOUS
        <5>1. PICK y \in S : e = BaseOf(y[1]) + y[2]
          BY DEF IdsOf
        <5>2. y # x
          BY <5>1 DEF id
        <5> QED
          BY <5>1, <5>2 DEF IdsOf
      <4> QED
        BY <4>1, <4>3, <4>4, <4>5
    <3>8. Total(w, IdsOf(S)) = w[id] + Total(w, IdsOf(R))
      <4> DEFINE I == IdsOf(S)
      <4>1. IsFiniteSet(I) /\ \A e \in I : w[e] \in Nat
        BY <1>4, <2>2
      <4>2. id \in I /\ IdsOf(R) = I \ {id}
        BY <3>7
      <4> HIDE DEF I, id
      <4>3. Total(w, I) = w[id] + Total(w, I \ {id})
        BY <4>1, <4>2, TotalRemove
      <4> QED
        BY <4>2, <4>3 DEF I
    <3>9. Weight(st, lam) = Weight(a, lam) + (p[1] * lam.den + p[2] * lam.num)
      <4> DEFINE a1 == a[1]
                 a2 == a[2]
                 p1 == p[1]
                 p2 == p[2]
                 n == lam.num
                 d == lam.den
                 b == space_base
      <4>1. st[1] = a1 + p1 /\ st[2] = a2 + p2
        BY <3>4
      <4>2. Weight(st, lam) = ((a1 + p1) - b) * d + (a2 + p2) * n
        BY <4>1 DEF Weight
      <4>3. Weight(a, lam) = (a1 - b) * d + a2 * n
        BY DEF Weight
      <4>4. a1 \in Int /\ a2 \in Int /\ p1 \in Int /\ p2 \in Int /\ n \in Int /\ d \in Int /\ b \in Int
        BY <1>5, <3>5, <3>6
      <4> HIDE DEF a1, a2, p1, p2, n, d, b
      <4>5. ((a1 + p1) - b) * d + (a2 + p2) * n = ((a1 - b) * d + a2 * n) + (p1 * d + p2 * n)
        BY <4>4
      <4>6. Weight(st, lam) = Weight(a, lam) + (p1 * d + p2 * n)
        BY <4>2, <4>3, <4>5
      <4> QED
        BY <4>6 DEF p1, p2, n, d
    <3>10. Bounded(st, S)
      <4> DEFINE wa == Weight(a, lam)
                 wp == p[1] * lam.den + p[2] * lam.num
                 ta == Total(w, IdsOf(R))
                 tw == w[id]
      <4>1. wa \in Int /\ wp \in Int
        BY <1>5, <3>5, <3>6 DEF Weight
      <4>2. ta \in Nat /\ tw \in Nat
        BY <1>4, <3>1, <3>7
      <4>3. wa >= ta /\ wp >= tw /\ Weight(st, lam) = wa + wp /\ Total(w, IdsOf(S)) = tw + ta
        BY <3>5, <3>6, <3>8, <3>9
      <4>4. st[1] \in Int /\ st[2] \in Int
        <5>1. st[1] = a[1] + p[1] /\ st[2] = a[2] + p[2]
          BY <3>4
        <5> QED
          BY <3>5, <3>6, <5>1
      <4> HIDE DEF wa, wp, ta, tw
      <4>5. Weight(st, lam) >= Total(w, IdsOf(S))
        BY <4>1, <4>2, <4>3
      <4> QED
        BY <4>4, <4>5
    <3> QED
      BY <2>3, <3>10
  <2> QED
    BY <2>4, <2>5
<1>7. Slotted \in SUBSET Slotted
  OBVIOUS
<1>8. \A st \in reach[Slotted] : Bounded(st, Slotted)
  <2> HIDE DEF Bounded
  <2> QED
    BY <1>6, <1>7
<1> QED
  BY <1>2, <1>8, SlottedAre

\* A number times a positive one.
LEMMA DividedBy ==
  ASSUME NEW a \in Int, NEW b \in Int, NEW n \in Int, n > 0, a * n >= b * n
  PROVE  a >= b
<1> DEFINE x == a - b
<1>1. x \in Int /\ n * x >= 0
  <2>1. n * (a - b) = a * n - b * n
    OBVIOUS
  <2> DEFINE u == a * n
             v == b * n
  <2>2. u \in Int /\ v \in Int /\ u >= v
    OBVIOUS
  <2>3. n * x = u - v
    BY <2>1
  <2> HIDE DEF u, v, x
  <2>4. n * x >= 0
    BY <2>2, <2>3
  <2> QED
    BY <2>4 DEF x
<1>2. x >= 0
  <2> HIDE DEF x
  <2> QED
    BY <1>1, ProductSign
<1> QED
  BY <1>2

\* No choice that takes no more space is faster.
THEOREM TimeCorrect == HybridSpec => []TimeOptimal
<1>1. HybridIInv => TimeOptimal
  <2> DEFINE time == [id \in Blocks |-> chosen[id].time]
  <2> SUFFICES ASSUME HybridIInv, stage = "found", Cached, ~heuristic_greedy, ~Tied,
                      NEW st \in Reachable, st[1] <= cur_space
               PROVE  st[2] >= SumFunction(time)
    BY DEF TimeOptimal
  <2>1. PICK lam \in [num : Int, den : Int] : lam.num > 0 /\ lam.den >= 0 /\ OnOrAbove(lam)
    BY FoundLine
  <2> DEFINE n == lam.num
             d == lam.den
             w == [id \in Blocks |-> Used[id] * d + time[id] * n]
  <2>2. n \in Nat /\ n > 0 /\ d \in Nat
    BY <2>1
  <2>3. ASSUME NEW id \in Blocks
        PROVE  /\ Used[id] = chosen[id].space /\ time[id] = chosen[id].time
               /\ Used[id] \in Nat /\ time[id] \in Nat
    <3>1. chosen[id] # None /\ chosen[id] \in Point
      BY AllChosen
    <3> QED
      BY <3>1, PointIs DEF Used, Replaced
  <2> HIDE DEF time
  <2>4. Weighs(w, Used, time, d, n, Blocks)
    BY <2>2, <2>3, BlocksAre DEF Weighs
  <2>5. ASSUME NEW x \in Slotted, NEW p \in SpaceTime(x[1], x[2])
        PROVE  /\ p[1] \in Nat /\ p[2] \in Nat
               /\ p[1] * d + p[2] * n >= w[BaseOf(x[1]) + x[2]]
    <3> DEFINE t == x[1]
               s == x[2]
               id == BaseOf(x[1]) + x[2]
               P == compute_space_time(t, s, BaseOf(t) + s, smoothing + Decodes(t, s))
               c == chosen[id]
    <3>1. t \in Terms /\ s \in Slots(t) /\ id \in Blocks
      BY SlottedAre
    <3>2. PairsOf(P) = SpaceTime(t, s) /\ P \in SUBSET Point
      BY <3>1, SlotInFile
    <3>3. PICK q \in P : p = <<q.space, q.time>>
      <4> HIDE DEF P
      <4> QED
        BY <3>2 DEF PairsOf
    <3>4. Lift(q, c, lam) >= 0
      BY <2>1, <3>1 DEF OnOrAbove
    <3> HIDE DEF P
    <3>5. q.space \in Nat /\ q.time \in Nat
      BY <3>2, PointIs
    <3>6. w[id] = c.space * d + c.time * n /\ c.space \in Nat /\ c.time \in Nat
      <4> HIDE DEF id
      <4> QED
        BY <2>3, <3>1
    <3> DEFINE ps == q.space
               pt == q.time
               cs == c.space
               ct == c.time
    <3>7. (ps - cs) * d + (pt - ct) * n >= 0
      BY <3>4 DEF Lift
    <3>8. ps \in Nat /\ pt \in Nat /\ cs \in Nat /\ ct \in Nat /\ p[1] = ps /\ p[2] = pt
      BY <3>3, <3>5, <3>6
    <3>9. w[id] = cs * d + ct * n
      BY <3>6
    <3> HIDE DEF ps, pt, cs, ct, n, d, w
    <3>10. ps * d + pt * n >= cs * d + ct * n
      BY <2>2, <3>7, <3>8
    <3> QED
      BY <3>8, <3>9, <3>10
  <2>6. /\ Total(w, Blocks) = Total(Used, Blocks) * d + Total(time, Blocks) * n
        /\ \A id \in Blocks : w[id] \in Nat
    <3> HIDE DEF w, n, d
    <3> QED
      BY <2>4, WeighedTotal
  <2>7. st[1] \in Int /\ st[2] \in Int /\ Weight(st, lam) >= Total(w, Blocks)
    <3> HIDE DEF w
    <3> QED
      BY <2>1, <2>5, <2>6, WeightBound
  <2>8. Total(Used, Blocks) \in Nat
    BY <2>3, BlocksAre, TotalIs
  <2>9. Total(time, Blocks) \in Nat
    BY <2>3, BlocksAre, TotalIs
  <2>10. SumFunction(time) = Total(time, Blocks)
    <3>1. DOMAIN time = Blocks
      BY DEF time
    <3> QED
      BY <3>1, SumFunctionIs
  <2>11. cur_space = space_base + Total(Used, Blocks) /\ space_base \in Nat
    BY SpaceBaseIs DEF HybridIInv, WalkInv
  <2> DEFINE U == Total(Used, Blocks)
             T == Total(time, Blocks)
             b == space_base
             s1 == st[1]
             s2 == st[2]
  <2>12. /\ s1 \in Int /\ s2 \in Int /\ U \in Nat /\ T \in Nat /\ b \in Nat
         /\ (s1 - b) * d + s2 * n >= U * d + T * n
         /\ s1 <= b + U
    BY <2>6, <2>7, <2>8, <2>9, <2>11 DEF Weight
  <2> HIDE DEF U, T, b, s1, s2, n, d, w
  <2>13. (U - (s1 - b)) * d >= 0
    <3> DEFINE x == U - (s1 - b)
    <3>1. x \in Int /\ x >= 0
      BY <2>12
    <3> HIDE DEF x
    <3>2. x * d >= 0
      BY <2>2, <3>1, SignOfProduct
    <3> QED
      BY <3>2 DEF x
  <2>14. s2 * n >= T * n
    BY <2>2, <2>12, <2>13
  <2>15. s2 >= T
    BY <2>2, <2>12, <2>14, DividedBy
  <2> QED
    BY <2>10, <2>15 DEF s2, T
<1> QED
  BY <1>1, HybridInvariance, PTL

-----------------------------------------------------------------------------
(* The inductive invariant *)

InCommit == {"join", "commit"}
InSpawn == {"spawn", "launch"}
InInline == {"prepare", "commit_inline"}

First(p) == running[p].jobs[1]
Size(p) == Len(running[p].jobs)

\* The control state agrees with the two containers.
ControlInv ==
  /\ pc \in InCommit => running # <<>>
  /\ pc \in InSpawn => next # <<>>
  /\ pc \in InCommit /\ joiner = "spawn" => next # <<>>
  /\ pc \in {"drain", "built", "destroyed"} => next = <<>>
  /\ pc \in InCommit /\ joiner = "drain" => next = <<>>
  /\ pc = "destroyed" => running = <<>>
  /\ pc \in InSpawn \cup InCommit \cup {"drain"} => maxThreads > 0
  /\ pc \in InInline => maxThreads = 0
  /\ maxThreads = 0 => running = <<>> /\ next = <<>>
  /\ pc = "commit" => reset <= Size(1) /\ running[1].done = Size(1)
  /\ pc \notin {"commit", "terminated"} => reset = 0

\* The jobs of a batch are consecutive numbers, and so are the batches.
BatchesInv ==
  /\ \A p \in 1..Len(running) :
       /\ Size(p) > 0
       /\ running[p].done <= Size(p)
       /\ \A i \in 1..Size(p) : running[p].jobs[i] = First(p) + i - 1
  /\ \A p \in 1..Len(running) : p + 1 <= Len(running) =>
       First(p + 1) = First(p) + Size(p)
  /\ \A p, q \in 1..Len(running) : p < q => First(p) + Size(p) <= First(q)

\* The numbers handed out: the collection, then the batches, then next.
OrderInv ==
  /\ \A i \in 1..Len(out) : out[i] = i
  /\ \A i \in 1..Len(next) : next[i] = submitted - Len(next) + i
  /\ Len(next) <= submitted
  /\ running # <<>> => First(1) + reset = Len(out) + 1
  /\ running # <<>> =>
       First(Len(running)) + Size(Len(running)) + Len(next) = submitted + 1
  /\ running = <<>> /\ maxThreads > 0 => Len(out) + Len(next) = submitted
  /\ pc \in InInline => submitted = Len(out) + 1
  /\ maxThreads = 0 /\ pc \notin InInline \cup {"terminated"} =>
       Len(out) = submitted

\* prepared is what the workers have passed, and nothing else.
PreparedInv ==
  /\ prepared \subseteq 1..submitted
  /\ \A i \in 1..Len(out) : i \in prepared
  /\ \A p \in 1..Len(running) : \A i \in 1..Size(p) :
       running[p].jobs[i] \in prepared <=> i <= running[p].done
  /\ \A i \in 1..Len(next) : next[i] \notin prepared
  /\ pc = "prepare" => submitted \notin prepared
  /\ pc = "commit_inline" => submitted \in prepared

ThreadsInv ==
  /\ Len(running) <= maxThreads
  /\ pc = "launch" => Len(running) < maxThreads

IInv ==
  /\ TypeOK
  /\ ControlInv
  /\ BatchesInv
  /\ OrderInv
  /\ PreparedInv
  /\ ThreadsInv

-----------------------------------------------------------------------------
(* Batches *)

\* A step of a worker leaves a batch a batch.
LEMMA BatchStep ==
  ASSUME NEW b \in Batch
  PROVE  [b EXCEPT !.done = @ + 1] \in Batch
BY DEF Batch

\* A job of a batch is a job.
LEMMA BatchJob ==
  ASSUME NEW b \in Batch, NEW i \in Nat, i < Len(b.jobs)
  PROVE  b.jobs[i + 1] \in Job
<1>1. b.jobs \in Seq(Job)
  BY DEF Batch
<1> QED
  BY <1>1

-----------------------------------------------------------------------------
(* The initial state *)

LEMMA InitIInv == Init => IInv
<1> SUFFICES ASSUME Init PROVE IInv
  OBVIOUS
<1> USE JobsAssumption, ThreadsAssumption
    DEF JobsAssumption, ThreadsAssumption, Init
<1>1. TypeOK
  BY DEF TypeOK, Location, Stopped
<1>2. ControlInv /\ BatchesInv
  BY DEF ControlInv, BatchesInv, InCommit, InSpawn, InInline
<1>3. OrderInv
  BY DEF OrderInv, InInline
<1>4. PreparedInv
  BY DEF PreparedInv
<1>5. ThreadsInv
  BY DEF ThreadsInv
<1> QED
  BY <1>1, <1>2, <1>3, <1>4, <1>5 DEF IInv

-----------------------------------------------------------------------------
(* Type correctness *)

\* The number of threads is fixed when the queue is made.
LEMMA ThreadsFixed == [Next]_vars => maxThreads' = maxThreads
BY DEF Next, MainThread, Worker, Over, vars

\* Every step leaves the variables in their types.
LEMMA TypeStep == IInv /\ [Next]_vars => TypeOK'
<1> SUFFICES ASSUME IInv, [Next]_vars, maxThreads' = maxThreads
             PROVE TypeOK'
  BY ThreadsFixed
<1> USE JobsAssumption DEF JobsAssumption, IInv, TypeOK, Location, Stopped
<1>1. ASSUME NEW w \in Works, AddJob(w) PROVE TypeOK'
  BY <1>1 DEF AddJob, Job
<1>2. CASE AddJobInline
  BY <1>2 DEF AddJobInline
<1>3. CASE PrepareInline
  <2>1. submitted \in Job
    BY <1>3 DEF PrepareInline, OrderInv, ControlInv, InInline, Job
  <2> QED
    BY <1>3, <2>1 DEF PrepareInline
<1>4. CASE CommitInline
  <2>1. submitted \in Job
    BY <1>4 DEF CommitInline, OrderInv, ControlInv, InInline, Job
  <2> QED
    BY <1>4, <2>1 DEF CommitInline
<1>5. CASE Spawn
  BY <1>5 DEF Spawn
<1>6. CASE Launch
  BY <1>6 DEF Launch, Batch
<1>7. CASE Join
  BY <1>7 DEF Join
<1>8. CASE Commit
  <2>1. Head(running) \in Batch
    BY <1>8 DEF Commit, ControlInv, InCommit
  <2>2. Head(running).jobs[reset + 1] \in Job
    BY <1>8, <2>1, BatchJob DEF Commit
  <2> QED
    BY <1>8, <2>2 DEF Commit
<1>9. CASE PopFront
  BY <1>9 DEF PopFront, ControlInv, InCommit
<1>10. CASE Complete
  BY <1>10 DEF Complete
<1>11. CASE Drain
  BY <1>11 DEF Drain
<1>12. CASE Destroy
  BY <1>12 DEF Destroy
<1>13. ASSUME NEW p \in 1..Len(running), Prepare(p) PROVE TypeOK'
  <2>1. running[p] \in Batch
    OBVIOUS
  <2>2. running[p].jobs[running[p].done + 1] \in Job
    BY <1>13, <2>1, BatchJob DEF Prepare, Batch
  <2>3. [running[p] EXCEPT !.done = @ + 1] \in Batch
    BY <2>1, BatchStep
  <2>4. [running EXCEPT ![p].done = @ + 1] \in Seq(Batch)
    BY <2>3, ExceptSeq
  <2> QED
    BY <1>13, <2>2, <2>4 DEF Prepare
<1>14. CASE UNCHANGED vars
  BY <1>14 DEF vars
<1> QED
  BY <1>1, <1>2, <1>3, <1>4, <1>5, <1>6, <1>7, <1>8, <1>9, <1>10, <1>11,
     <1>12, <1>13, <1>14 DEF Next, MainThread, Worker, Over

-----------------------------------------------------------------------------
(* The types of the parts of a batch *)

\* Numbers the arithmetic below may be done with.
LEMMA BatchTypes ==
  ASSUME IInv
  PROVE  /\ Len(running) \in Nat /\ Len(next) \in Nat /\ Len(out) \in Nat
         /\ submitted \in Nat /\ reset \in Nat
         /\ \A q \in 1..Len(running) :
              /\ Size(q) \in Nat /\ Size(q) > 0
              /\ First(q) \in Nat
              /\ running[q].done \in Nat
<1>1. TypeOK /\ BatchesInv
  BY DEF IInv
<1>2. ASSUME NEW q \in 1..Len(running)
      PROVE  /\ Size(q) \in Nat /\ Size(q) > 0
             /\ First(q) \in Nat
             /\ running[q].done \in Nat
  <2>1. running[q] \in Batch
    BY <1>1 DEF TypeOK
  <2>2. running[q].jobs \in Seq(Job) /\ running[q].done \in Nat
    BY <2>1 DEF Batch
  <2>3. Size(q) \in Nat /\ Size(q) > 0
    BY <1>1, <2>2 DEF BatchesInv, Size
  <2>4. running[q].jobs[1] \in Job
    BY <2>2, <2>3 DEF Size
  <2> QED
    BY <2>2, <2>3, <2>4 DEF First, Job
<1> QED
  BY <1>1, <1>2 DEF TypeOK

\* The same for the first and the last batch.
LEMMA EndTypes ==
  ASSUME IInv, running # <<>>
  PROVE  /\ 1 \in 1..Len(running) /\ Len(running) \in 1..Len(running)
         /\ Size(1) \in Nat /\ Size(1) > 0 /\ First(1) \in Nat
         /\ Size(Len(running)) \in Nat /\ First(Len(running)) \in Nat
<1>1. 1 \in 1..Len(running) /\ Len(running) \in 1..Len(running)
  BY DEF IInv, TypeOK
<1> QED
  BY <1>1, BatchTypes

\* The numbers that belong to no batch.
LEMMA ScalarTypes ==
  ASSUME IInv
  PROVE  /\ Len(running) \in Nat /\ Len(next) \in Nat /\ Len(out) \in Nat
         /\ submitted \in Nat /\ reset \in Nat
BY BatchTypes

\* Job numbers start at 1.
LEMMA FirstPositive ==
  ASSUME IInv, NEW q \in 1..Len(running)
  PROVE  First(q) > 0
<1>1. running[q] \in Batch /\ Size(q) > 0
  BY DEF IInv, TypeOK, BatchesInv
<1>2. running[q].jobs \in Seq(Job)
  BY <1>1 DEF Batch
<1>3. running[q].jobs[1] \in Job
  BY <1>1, <1>2 DEF Size
<1> QED
  BY <1>3 DEF First, Job

-----------------------------------------------------------------------------
(* What the three steps that write the deque of threads do to it *)

\* Launch appends the next batch and leaves the others alone.
LEMMA LaunchRunning ==
  ASSUME TypeOK, Launch
  PROVE  /\ Len(running') = Len(running) + 1
         /\ \A q \in 1..Len(running) : running'[q] = running[q]
         /\ running'[Len(running) + 1] = [jobs |-> next, done |-> 0]
BY DEF Launch, TypeOK

\* PopFront shifts the batches down by one.
LEMMA PopFrontRunning ==
  ASSUME TypeOK, PopFront, running # <<>>
  PROVE  /\ Len(running') = Len(running) - 1
         /\ \A q \in 1..Len(running') : running'[q] = running[q + 1]
BY DEF PopFront, TypeOK

\* A worker's step changes how far its own batch is, and no job.
LEMMA PrepareRunning ==
  ASSUME TypeOK, NEW p \in 1..Len(running), Prepare(p), running' # running
  PROVE  /\ Len(running') = Len(running)
         /\ \A q \in 1..Len(running) : running'[q].jobs = running[q].jobs
         /\ \A q \in 1..Len(running) : q # p =>
              running'[q].done = running[q].done
         /\ running'[p].done = running[p].done + 1
         /\ running[p].done < Len(running[p].jobs)
         /\ prepared' =
              prepared \cup {running[p].jobs[running[p].done + 1]}
<1>1. running' = [running EXCEPT ![p].done = @ + 1]
  BY DEF Prepare
<1>2. \A q \in 1..Len(running) : running[q] \in Batch
  BY DEF TypeOK
<1> QED
  BY <1>1, <1>2 DEF Prepare, TypeOK, Batch

\* A worker's step that throws changes neither its progress nor prepared.
LEMMA PrepareKeeps ==
  ASSUME TypeOK, NEW p \in 1..Len(running), Prepare(p), running' = running
  PROVE  UNCHANGED prepared
<1>1. SUFFICES ASSUME running' = [running EXCEPT ![p].done = @ + 1]
               PROVE  FALSE
  BY DEF Prepare
<1>2. running[p] \in Batch
  BY DEF TypeOK
<1>3. running'[p].done = running[p].done + 1
  BY <1>1, <1>2 DEF TypeOK, Batch
<1> QED
  BY <1>2, <1>3 DEF Batch

-----------------------------------------------------------------------------
(* Each part of the invariant is preserved *)

LEMMA ControlStep == IInv /\ [Next]_vars => ControlInv'
<1> SUFFICES ASSUME IInv, [Next]_vars, maxThreads' = maxThreads
             PROVE ControlInv'
  BY ThreadsFixed
<1> USE DEF ControlInv, InCommit, InSpawn, InInline, First, Size
<1>0. TypeOK /\ ControlInv /\ BatchesInv
  BY DEF IInv
<1>1. ASSUME NEW w \in Works, AddJob(w) PROVE ControlInv'
  BY <1>0, <1>1 DEF AddJob, TypeOK
<1>2. CASE AddJobInline
  BY <1>0, <1>2 DEF AddJobInline
<1>3. CASE PrepareInline
  BY <1>0, <1>3 DEF PrepareInline
<1>4. CASE CommitInline
  BY <1>0, <1>4 DEF CommitInline
<1>5. CASE Spawn
  BY <1>0, <1>5 DEF Spawn, TypeOK
<1>6. CASE Launch
  BY <1>0, <1>6, LaunchRunning DEF Launch, TypeOK
<1>7. CASE Join
  BY <1>0, <1>7 DEF Join, WorkerFinished, TypeOK
<1>8. CASE Commit
  BY <1>0, <1>8 DEF Commit, TypeOK
<1>9. CASE PopFront
  <2>1. /\ pc = "commit" /\ running # <<>> /\ maxThreads > 0
        /\ reset' = 0 /\ UNCHANGED <<joiner, next>>
        /\ pc' = IF joiner = "spawn" THEN "launch" ELSE "drain"
    BY <1>0, <1>9 DEF PopFront
  <2>2. joiner = "spawn" \/ joiner = "drain"
    BY <1>0 DEF TypeOK
  <2>3. /\ joiner = "spawn" => next # <<>>
        /\ joiner = "drain" => next = <<>>
    BY <1>0, <2>1
  <2>4. CASE joiner = "spawn"
    <3>1. pc' = "launch" /\ next' # <<>>
      BY <2>1, <2>3, <2>4
    <3> QED
      BY <2>1, <3>1
  <2>5. CASE joiner = "drain"
    <3>1. pc' = "drain" /\ next' = <<>>
      BY <2>1, <2>3, <2>5
    <3> QED
      BY <2>1, <3>1
  <2> QED
    BY <2>2, <2>4, <2>5
<1>10. CASE Complete
  <2>1. next # <<>> => maxThreads > 0
    BY <1>0 DEF TypeOK
  <2> QED
    BY <1>0, <1>10, <2>1 DEF Complete
<1>11. CASE Drain
  BY <1>0, <1>11 DEF Drain
<1>12. CASE Destroy
  BY <1>0, <1>12 DEF Destroy
<1>13. ASSUME NEW p \in 1..Len(running), Prepare(p) PROVE ControlInv'
  <2>1. CASE running' = running
    BY <1>0, <1>13, <2>1 DEF Prepare, Stopped
  <2>2. CASE running' # running
    <3>1. pc' = pc /\ pc \notin Stopped
      BY <1>13, <2>2 DEF Prepare
    <3>2. running # <<>> /\ running' # <<>> /\ 1 \in 1..Len(running)
      BY <1>0, <1>13, <2>2, PrepareRunning DEF TypeOK
    <3>3. pc = "commit" => p # 1
      BY <1>0, <1>13, <2>2, PrepareRunning DEF TypeOK
    <3>4. pc = "commit" => /\ running'[1].jobs = running[1].jobs
                           /\ running'[1].done = running[1].done
      BY <1>0, <1>13, <2>2, <3>2, <3>3, PrepareRunning
    <3>5. UNCHANGED <<joiner, next, reset>>
      BY <1>13 DEF Prepare
    <3> QED
      BY <1>0, <3>1, <3>2, <3>4, <3>5 DEF Stopped
  <2> QED
    BY <2>1, <2>2
<1>14. CASE UNCHANGED vars
  BY <1>0, <1>14 DEF vars
<1> QED
  BY <1>1, <1>2, <1>3, <1>4, <1>5, <1>6, <1>7, <1>8, <1>9, <1>10, <1>11,
     <1>12, <1>13, <1>14 DEF Next, MainThread, Worker, Over

\* Every step keeps the batches.
LEMMA BatchesStep == IInv /\ [Next]_vars => BatchesInv'
<1> SUFFICES ASSUME IInv, [Next]_vars, maxThreads' = maxThreads
             PROVE BatchesInv'
  BY ThreadsFixed
<1>0. TypeOK /\ ControlInv /\ BatchesInv /\ OrderInv
  BY DEF IInv
<1>1. CASE UNCHANGED running
  BY <1>0, <1>1 DEF BatchesInv, First, Size
<1>2. CASE Launch
  <2>1. Len(next) > 0
    BY <1>0, <1>2 DEF Launch, ControlInv, InSpawn, TypeOK
  <2>2. next[1] = submitted - Len(next) + 1
    BY <1>0, <2>1, BatchTypes DEF OrderInv
  <2>3. \A i \in 1..Len(next) : next[i] = next[1] + i - 1
    BY <1>0, <2>2, BatchTypes DEF OrderInv
  <2>4. running # <<>> => Len(running) \in 1..Len(running)
    BY <1>0 DEF TypeOK
  <2>5. ASSUME running # <<>>
        PROVE  First(Len(running)) + Size(Len(running)) = next[1]
    <3>1. First(Len(running)) + Size(Len(running)) + Len(next) = submitted + 1
      BY <1>0, <2>5 DEF OrderInv
    <3> QED
      BY <2>2, <2>4, <2>5, <3>1, BatchTypes, SMTT(30)
  <2>6. ASSUME NEW q \in 1..Len(running)
        PROVE  First(q) + Size(q) <= next[1]
    <3>1. running # <<>> /\ Len(running) \in 1..Len(running)
      BY <2>4
    <3>2. CASE q = Len(running)
      BY <2>5, <3>1, <3>2, BatchTypes
    <3>3. CASE q < Len(running)
      <4>1. First(q) + Size(q) <= First(Len(running))
        BY <1>0, <3>1, <3>3 DEF BatchesInv
      <4> QED
        BY <2>5, <3>1, <4>1, BatchTypes
    <3> QED
      BY <3>2, <3>3, BatchTypes
  <2> PICK n \in Nat : n = Len(running)
    BY BatchTypes
  <2>7. /\ Len(running') = n + 1
        /\ \A q \in 1..n : First(q)' = First(q) /\ Size(q)' = Size(q)
        /\ First(n + 1)' = next[1] /\ Size(n + 1)' = Len(next)
    BY <1>0, <1>2, BatchTypes, LaunchRunning DEF First, Size
  <2>8. ASSUME NEW q \in 1..Len(running')
        PROVE  /\ Size(q)' > 0
               /\ running'[q].done <= Size(q)'
               /\ \A i \in 1..Size(q)' :
                    running'[q].jobs[i] = First(q)' + i - 1
    <3>1. CASE q \in 1..n
      BY <1>0, <1>2, <3>1, LaunchRunning, BatchTypes
      DEF BatchesInv, First, Size
    <3>2. CASE q = n + 1
      BY <1>0, <1>2, <2>1, <2>3, <3>2, LaunchRunning, BatchTypes
      DEF First, Size
    <3> QED
      BY <2>7, <3>1, <3>2, BatchTypes
  <2>9. ASSUME NEW q \in 1..Len(running'), q + 1 <= Len(running')
        PROVE  First(q + 1)' = First(q)' + Size(q)'
    <3>1. CASE q = n
      <4>1. running # <<>>
        BY <2>9, <3>1, BatchTypes
      <4> QED
        BY <2>4, <2>5, <2>7, <3>1, <4>1
    <3>2. CASE q # n
      <4>1. q \in 1..n /\ q + 1 \in 1..n
        BY <2>7, <2>9, <3>2, BatchTypes
      <4> QED
        BY <1>0, <2>7, <4>1, BatchTypes DEF BatchesInv
    <3> QED
      BY <3>1, <3>2
  <2>10. ASSUME NEW q \in 1..Len(running'), NEW r \in 1..Len(running'), q < r
         PROVE  First(q)' + Size(q)' <= First(r)'
    <3>1. q \in 1..n
      BY <2>7, <2>10, BatchTypes
    <3>2. CASE r = n + 1
      BY <2>6, <2>7, <3>1, <3>2
    <3>3. CASE r \in 1..n
      BY <1>0, <2>7, <2>10, <3>1, <3>3 DEF BatchesInv
    <3> QED
      BY <2>7, <3>2, <3>3, BatchTypes
  <2> QED
    BY <2>8, <2>9, <2>10 DEF BatchesInv
<1>3. CASE PopFront
  <2>1. running # <<>>
    BY <1>0, <1>3 DEF PopFront, ControlInv, InCommit
  <2>2. ASSUME NEW q \in 1..Len(running')
        PROVE  /\ running'[q] = running[q + 1]
               /\ q \in 1..Len(running) /\ q + 1 \in 1..Len(running)
               /\ First(q)' = First(q + 1) /\ Size(q)' = Size(q + 1)
    BY <1>0, <1>3, <2>1, PopFrontRunning, BatchTypes DEF First, Size
  <2>3. ASSUME NEW q \in 1..Len(running')
        PROVE  /\ Size(q)' > 0
               /\ running'[q].done <= Size(q)'
               /\ \A i \in 1..Size(q)' :
                    running'[q].jobs[i] = First(q)' + i - 1
    BY <1>0, <2>2 DEF BatchesInv
  <2>4. ASSUME NEW q \in 1..Len(running'), q + 1 <= Len(running')
        PROVE  First(q + 1)' = First(q)' + Size(q)'
    <3>1. Len(running') \in Nat /\ q + 1 \in 1..Len(running')
      BY <1>0, <1>3, <2>1, <2>4, PopFrontRunning, BatchTypes
    <3> QED
      BY <1>0, <2>2, <2>4, <3>1, BatchTypes DEF BatchesInv
  <2>5. ASSUME NEW q \in 1..Len(running'), NEW r \in 1..Len(running'), q < r
        PROVE  First(q)' + Size(q)' <= First(r)'
    BY <1>0, <2>2, <2>5 DEF BatchesInv
  <2> QED
    BY <2>3, <2>4, <2>5 DEF BatchesInv
<1>4. ASSUME NEW p \in 1..Len(running), Prepare(p), running' # running
      PROVE  BatchesInv'
  <2>1. /\ Len(running') = Len(running)
        /\ \A q \in 1..Len(running) :
             /\ running'[q].jobs = running[q].jobs
             /\ First(q)' = First(q) /\ Size(q)' = Size(q)
             /\ running'[q].done <= Size(q)
    BY <1>0, <1>4, PrepareRunning, BatchTypes DEF First, Size, BatchesInv
  <2> QED
    BY <1>0, <2>1 DEF BatchesInv
<1> QED
  BY <1>1, <1>2, <1>3, <1>4
  DEF Next, MainThread, Worker, Over, vars, AddJob, AddJobInline,
      PrepareInline, CommitInline, Spawn, Join, Commit, Complete, Drain,
      Destroy

\* Every step keeps the order of the jobs.
LEMMA OrderStep == IInv /\ [Next]_vars => OrderInv'
<1> SUFFICES ASSUME IInv, [Next]_vars, maxThreads' = maxThreads
             PROVE OrderInv'
  BY ThreadsFixed
<1>0. /\ TypeOK /\ ControlInv /\ BatchesInv /\ OrderInv
      /\ maxThreads \in Nat
  BY DEF IInv, TypeOK
<1>1. ASSUME NEW w \in Works, AddJob(w) PROVE OrderInv'
  <2>1. /\ Len(next') = Len(next) + 1 /\ submitted' = submitted + 1
        /\ \A i \in 1..Len(next) : next'[i] = next[i]
        /\ next'[Len(next) + 1] = submitted + 1
    BY <1>0, <1>1 DEF AddJob, TypeOK
  <2>2. /\ UNCHANGED <<running, reset, out>>
        /\ maxThreads > 0 /\ pc' \notin InInline
    BY <1>1 DEF AddJob, InInline
  <2>3. \A i \in 1..Len(next') : next'[i] = submitted' - Len(next') + i
    <3>1. \A i \in 1..Len(next) : next[i] = submitted - Len(next) + i
      BY <1>0 DEF OrderInv
    <3>2. ASSUME NEW i \in 1..Len(next')
          PROVE  next'[i] = submitted' - Len(next') + i
      <4>1. CASE i \in 1..Len(next)
        BY <2>1, <3>1, <4>1, ScalarTypes
      <4>2. CASE i = Len(next) + 1
        BY <2>1, <4>2, ScalarTypes
      <4> QED
        BY <2>1, <4>1, <4>2, ScalarTypes
    <3> QED
      BY <3>2
  <2>4. running # <<>> =>
          /\ running[1].jobs[1] + reset = Len(out) + 1
          /\ running[Len(running)].jobs[1] + Len(running[Len(running)].jobs)
               + Len(next') = submitted' + 1
    <3>1. ASSUME running # <<>>
          PROVE  First(Len(running)) + Size(Len(running)) + Len(next')
                   = submitted' + 1
      <4>1. Len(running) \in 1..Len(running)
        BY <3>1, EndTypes
      <4>2. First(Len(running)) + Size(Len(running)) + Len(next)
              = submitted + 1
        BY <1>0, <3>1 DEF OrderInv
      <4> QED
        BY <2>1, <3>1, <4>2, EndTypes, ScalarTypes
    <3> QED
      BY <1>0, <3>1 DEF OrderInv, First, Size
  <2>5. running = <<>> => Len(out) + Len(next') = submitted'
    BY <1>0, <2>1, <2>2, BatchTypes DEF OrderInv
  <2>6. Len(next') <= submitted' /\ \A i \in 1..Len(out) : out[i] = i
    BY <1>0, <2>1, ScalarTypes DEF OrderInv
  <2>7. /\ \A i \in 1..Len(out') : out'[i] = i
        /\ Len(next') <= submitted'
        /\ running' # <<>> => (First(1) + reset)' = Len(out)' + 1
        /\ running' # <<>> =>
             (First(Len(running)) + Size(Len(running)) + Len(next))' = submitted' + 1
        /\ running' = <<>> => (Len(out) + Len(next))' = submitted'
    BY <2>2, <2>4, <2>5, <2>6 DEF First, Size
  <2> QED
    BY <2>2, <2>3, <2>7 DEF OrderInv
<1>2. CASE AddJobInline
  BY <1>0, <1>2, BatchTypes
  DEF AddJobInline, OrderInv, ControlInv, InInline, First, Size
<1>3. CASE PrepareInline
  BY <1>0, <1>3 DEF PrepareInline, OrderInv, ControlInv, InInline, First, Size
<1>4. CASE CommitInline
  <2>1. /\ running = <<>> /\ next = <<>> /\ submitted = Len(out) + 1
        /\ maxThreads = 0
    BY <1>0, <1>4 DEF CommitInline, OrderInv, ControlInv, InInline
  <2>2. /\ Len(out') = Len(out) + 1
        /\ \A i \in 1..Len(out) : out'[i] = out[i]
        /\ out'[Len(out) + 1] = submitted
    BY <1>0, <1>4 DEF CommitInline, TypeOK
  <2>3. UNCHANGED <<running, next, submitted>> /\ pc' = "ready"
    BY <1>4 DEF CommitInline
  <2> QED
    BY <1>0, <2>1, <2>2, <2>3, BatchTypes DEF OrderInv, InInline
<1>5. CASE Spawn \/ Join \/ Complete \/ Drain \/ Destroy
  <2>1. UNCHANGED <<submitted, next, running, reset, out>>
    BY <1>5 DEF Spawn, Join, Complete, Drain, Destroy
  <2>2. pc' \notin InInline
    BY <1>5 DEF Spawn, Join, Complete, Drain, Destroy, InInline
  <2>3. maxThreads = 0 => pc \notin InInline \cup {"terminated"}
    BY <1>5 DEF Spawn, Join, Complete, Drain, Destroy, InInline
  <2> QED
    BY <1>0, <2>1, <2>2, <2>3 DEF OrderInv, First, Size
<1>6. CASE Launch
  <2>1. /\ reset = 0 /\ Len(next) > 0 /\ maxThreads > 0
        /\ next' = <<>> /\ Len(next') = 0
        /\ pc' \notin InInline
        /\ UNCHANGED <<submitted, reset, out>>
    BY <1>0, <1>6 DEF Launch, ControlInv, InSpawn, InInline, TypeOK
  <2>2. next[1] = submitted - Len(next) + 1
    BY <1>0, <2>1, BatchTypes DEF OrderInv
  <2> PICK n \in Nat : n = Len(running)
    BY BatchTypes
  <2>3. /\ Len(running') = n + 1
        /\ running'[n + 1].jobs = next
        /\ n > 0 => running'[1] = running[1]
    BY <1>0, <1>6, LaunchRunning
  <2>4. running' # <<>>
    BY <2>3
  <2>5. running'[1].jobs[1] + reset = Len(out) + 1
    <3>1. CASE n = 0
      <4>1. running = <<>>
        BY <1>0, <3>1, EmptySeq DEF TypeOK
      <4>2. Len(out) + Len(next) = submitted
        BY <1>0, <2>1, <4>1 DEF OrderInv
      <4> QED
        BY <2>1, <2>2, <2>3, <3>1, <4>2, BatchTypes
    <3>2. CASE n > 0
      BY <1>0, <2>3, <3>2 DEF OrderInv, First
    <3> QED
      BY <3>1, <3>2
  <2>6. running'[n + 1].jobs[1] + Len(running'[n + 1].jobs) + Len(next')
          = submitted + 1
    BY <2>1, <2>2, <2>3, BatchTypes
  <2> QED
    BY <1>0, <2>1, <2>3, <2>4, <2>5, <2>6, BatchTypes
    DEF OrderInv, First, Size
<1>7. CASE Commit
  <2>1. /\ running # <<>> /\ 1 \in 1..Len(running) /\ reset < Size(1)
        /\ Head(running) = running[1] /\ maxThreads > 0
    BY <1>0, <1>7 DEF Commit, ControlInv, InCommit, TypeOK, Size
  <2>2. running[1].jobs[reset + 1] = Len(out) + 1
    <3>1. running[1].jobs[reset + 1] = First(1) + reset
      <4>1. \A i \in 1..Size(1) : running[1].jobs[i] = First(1) + i - 1
        BY <1>0, <2>1 DEF BatchesInv
      <4>2. reset \in Nat /\ First(1) \in Nat /\ reset + 1 \in 1..Size(1)
        BY <2>1, EndTypes, ScalarTypes
      <4>3. running[1].jobs[reset + 1] = First(1) + (reset + 1) - 1
        BY ONLY <4>1, <4>2
      <4> QED
        BY ONLY <4>2, <4>3
    <3>2. First(1) + reset = Len(out) + 1
      BY <1>0, <2>1 DEF OrderInv
    <3> QED
      BY <3>1, <3>2
  <2>3. /\ Len(out') = Len(out) + 1
        /\ \A i \in 1..Len(out) : out'[i] = out[i]
        /\ out'[Len(out) + 1] = Len(out) + 1
    BY <1>0, <1>7, <2>1, <2>2 DEF Commit, TypeOK
  <2>4. /\ UNCHANGED <<running, next, submitted, pc>> /\ pc = "commit"
        /\ reset' = reset + 1
    BY <1>7 DEF Commit
  <2>5. First(1) + reset + 1 = Len(out) + 2
    BY <1>0, <2>1, EndTypes, ScalarTypes DEF OrderInv
  <2>6. \A i \in 1..Len(out') : out'[i] = i
    <3>1. \A i \in 1..Len(out) : out[i] = i
      BY <1>0 DEF OrderInv
    <3> QED
      BY <2>3, <3>1, ScalarTypes
  <2>7. First(1)' + reset' = Len(out') + 1
    <3>1. First(1)' = First(1)
      BY <2>4 DEF First
    <3> QED
      BY <2>1, <2>3, <2>4, <2>5, <3>1, EndTypes, ScalarTypes
  <2> QED
    BY <1>0, <2>1, <2>4, <2>6, <2>7 DEF OrderInv, InInline, First, Size
<1>8. CASE PopFront
  <2>1. /\ running # <<>> /\ 1 \in 1..Len(running) /\ reset = Size(1)
        /\ maxThreads > 0
        /\ reset' = 0 /\ UNCHANGED <<next, submitted, out>>
        /\ pc' \notin InInline
    BY <1>0, <1>8 DEF PopFront, ControlInv, InCommit, TypeOK, Size, InInline
  <2> PICK n \in Nat : n = Len(running)
    BY BatchTypes
  <2>2. /\ Len(running') = n - 1
        /\ \A q \in 1..(n - 1) : running'[q] = running[q + 1]
    BY <1>0, <1>8, <2>1, PopFrontRunning
  <2>3. First(1) + Size(1) = Len(out) + 1
    BY <1>0, <2>1 DEF OrderInv
  <2>4. CASE n = 1
    <3>1. running' = <<>>
      <4>1. running' \in Seq(Batch)
        BY TypeStep DEF TypeOK
      <4> QED
        BY <2>2, <2>4, <4>1
    <3>2. Len(out) + Len(next) = submitted
      <4>1. First(1) + Size(1) + Len(next) = submitted + 1
        BY <1>0, <2>1, <2>4 DEF OrderInv
      <4> QED
        BY <2>1, <2>3, <4>1, EndTypes, ScalarTypes
    <3> QED
      BY <1>0, <2>1, <3>1, <3>2 DEF OrderInv
  <2>5. CASE n > 1
    <3>1. running'[1] = running[2] /\ running'[n - 1] = running[n]
      BY <2>2, <2>5
    <3>2. First(2) = First(1) + Size(1)
      BY <1>0, <2>5 DEF BatchesInv
    <3>3. running'[1].jobs[1] = Len(out) + 1
      BY <2>3, <3>1, <3>2 DEF First
    <3>4. running'[n - 1].jobs[1] + Len(running'[n - 1].jobs) + Len(next)
            = submitted + 1
      BY <1>0, <2>1, <3>1 DEF OrderInv, First, Size
    <3> QED
      BY <1>0, <2>1, <2>2, <2>5, <3>3, <3>4, BatchTypes
      DEF OrderInv, First, Size
  <2> QED
    BY <2>1, <2>4, <2>5, BatchTypes
<1>9. ASSUME NEW p \in 1..Len(running), Prepare(p) PROVE OrderInv'
  <2>1. UNCHANGED <<submitted, next, reset, out>> /\ maxThreads > 0
    BY <1>0, <1>9 DEF Prepare, ControlInv
  <2>2. pc' \notin InInline
    BY <1>0, <1>9, <2>1 DEF Prepare, ControlInv, InInline
  <2>3. CASE running' = running
    BY <1>0, <2>1, <2>2, <2>3 DEF OrderInv, First, Size
  <2>4. CASE running' # running
    <3>1. /\ Len(running') = Len(running)
          /\ running # <<>> /\ running' # <<>>
          /\ \A q \in 1..Len(running) : running'[q].jobs = running[q].jobs
          /\ 1 \in 1..Len(running) /\ Len(running) \in 1..Len(running)
      BY <1>0, <1>9, <2>4, PrepareRunning DEF TypeOK
    <3> QED
      BY <1>0, <2>1, <2>2, <3>1 DEF OrderInv, First, Size
  <2> QED
    BY <2>3, <2>4
<1>10. CASE UNCHANGED vars
  BY <1>0, <1>10 DEF vars, OrderInv, First, Size
<1> QED
  BY <1>1, <1>2, <1>3, <1>4, <1>5, <1>6, <1>7, <1>8, <1>9, <1>10
  DEF Next, MainThread, Worker, Over

\* A job of a running batch is numbered after its batch's first job, before
\* the jobs of the next batch, and nowhere twice.
LEMMA JobNumber ==
  ASSUME IInv, NEW p \in 1..Len(running), NEW i \in 1..Size(p)
  PROVE  /\ running[p].jobs[i] = First(p) + i - 1
         /\ running[p].jobs[i] \in Nat /\ running[p].jobs[i] > 0
         /\ running[p].jobs[i] <= submitted - Len(next)
<1>0. BatchesInv /\ OrderInv /\ running # <<>>
  BY DEF IInv, TypeOK
<1>1. running[p].jobs[i] = First(p) + i - 1
  BY <1>0 DEF BatchesInv
<1>2. First(p) + Size(p) <= First(Len(running)) + Size(Len(running))
  <2>1. CASE p = Len(running)
    BY <2>1, BatchTypes
  <2>2. CASE p < Len(running)
    <3>1. First(p) + Size(p) <= First(Len(running))
      BY <1>0, <2>2, EndTypes DEF BatchesInv
    <3> QED
      BY <1>0, <3>1, EndTypes, BatchTypes
  <2> QED
    BY <2>1, <2>2, BatchTypes
<1>3. First(Len(running)) + Size(Len(running)) + Len(next) = submitted + 1
  BY <1>0 DEF OrderInv
<1>4. First(p) \in Nat /\ First(p) > 0 /\ Size(p) \in Nat
  BY FirstPositive, BatchTypes
<1>5. First(p) + Size(p) <= submitted - Len(next) + 1
  BY <1>0, <1>2, <1>3, <1>4, EndTypes, ScalarTypes, SMTT(30)
<1>6. i \in Nat /\ 1 <= i /\ i <= Size(p)
  BY <1>4
<1> QED
  BY <1>1, <1>4, <1>5, <1>6, ScalarTypes

\* Two intervals of numbers that share a number are not one before the other.
LEMMA IntervalsMeet ==
  ASSUME NEW a \in Nat, NEW m \in Nat, NEW i \in 1..m,
         NEW b \in Nat, NEW n \in Nat, NEW k \in 1..n,
         a + i - 1 = b + k - 1
  PROVE  ~(a + m <= b) /\ ~(b + n <= a) /\ (a = b => i = k)
OBVIOUS

\* No two places of the running batches hold the same job.
LEMMA JobsApart ==
  ASSUME IInv,
         NEW p \in 1..Len(running), NEW i \in 1..Size(p),
         NEW q \in 1..Len(running), NEW k \in 1..Size(q),
         running[p].jobs[i] = running[q].jobs[k]
  PROVE  p = q /\ i = k
<1>1. /\ running[p].jobs[i] = First(p) + i - 1
      /\ running[q].jobs[k] = First(q) + k - 1
  BY JobNumber
<1>2. /\ p < q => First(p) + Size(p) <= First(q)
      /\ q < p => First(q) + Size(q) <= First(p)
  BY DEF IInv, BatchesInv
<1>3. First(p) + i - 1 = First(q) + k - 1
  BY <1>1
<1>4. /\ First(p) \in Nat /\ First(q) \in Nat
      /\ Size(p) \in Nat /\ Size(q) \in Nat
  BY BatchTypes
<1>5. /\ ~(First(p) + Size(p) <= First(q))
      /\ ~(First(q) + Size(q) <= First(p))
      /\ First(p) = First(q) => i = k
  BY <1>3, <1>4, IntervalsMeet, SMTT(30)
<1>6. p = q
  BY <1>2, <1>5
<1> QED
  BY <1>5, <1>6

\* Every step keeps what is said of the jobs prepared.
LEMMA PreparedStep == IInv /\ [Next]_vars => PreparedInv'
<1> SUFFICES ASSUME IInv, [Next]_vars, maxThreads' = maxThreads
             PROVE PreparedInv'
  BY ThreadsFixed
<1>0. /\ TypeOK /\ ControlInv /\ BatchesInv /\ OrderInv /\ PreparedInv
      /\ maxThreads \in Nat
  BY DEF IInv, TypeOK
<1>1. ASSUME NEW w \in Works, AddJob(w) PROVE PreparedInv'
  <2>1. /\ Len(next') = Len(next) + 1 /\ submitted' = submitted + 1
        /\ \A i \in 1..Len(next) : next'[i] = next[i]
        /\ next'[Len(next) + 1] = submitted + 1
    BY <1>0, <1>1 DEF AddJob, TypeOK
  <2>2. /\ UNCHANGED <<running, prepared, out>>
        /\ pc' # "prepare" /\ pc' # "commit_inline"
    BY <1>1 DEF AddJob
  <2>3. submitted + 1 \notin prepared /\ prepared \subseteq 1..submitted'
    BY <1>0, <2>1, ScalarTypes DEF PreparedInv
  <2>4. \A i \in 1..Len(next') : next'[i] \notin prepared
    BY <1>0, <2>1, <2>3, ScalarTypes DEF PreparedInv
  <2> QED
    BY <1>0, <2>2, <2>3, <2>4 DEF PreparedInv, Size
<1>2. CASE AddJobInline \/ PrepareInline
  <2>1. /\ running = <<>> /\ next = <<>> /\ UNCHANGED <<running, next, out>>
        /\ Len(running) = 0 /\ Len(next) = 0
    BY <1>0, <1>2, EmptySeq
    DEF AddJobInline, PrepareInline, ControlInv, InInline
  <2>2. CASE AddJobInline
    BY <1>0, <2>1, <2>2, ScalarTypes DEF AddJobInline, PreparedInv
  <2>3. CASE PrepareInline
    <3>1. submitted \in 1..submitted
      BY <1>0, <2>3, ScalarTypes
      DEF PrepareInline, OrderInv, ControlInv, InInline
    <3>2. prepared' \in {prepared, prepared \cup {submitted}}
      BY <2>3 DEF PrepareInline
    <3>3. pc' = "commit_inline" => submitted \in prepared'
      BY <2>3 DEF PrepareInline
    <3>4. pc' # "prepare" /\ UNCHANGED submitted
      BY <2>3 DEF PrepareInline
    <3>5. prepared' \subseteq 1..submitted /\ prepared \subseteq prepared'
      BY <1>0, <3>1, <3>2 DEF PreparedInv
    <3> QED
      BY <1>0, <2>1, <3>3, <3>4, <3>5 DEF PreparedInv
  <2> QED
    BY <1>2, <2>2, <2>3
<1>3. CASE CommitInline
  <2>1. /\ Len(out') = Len(out) + 1
        /\ \A i \in 1..Len(out) : out'[i] = out[i]
        /\ UNCHANGED <<submitted, running, next, prepared>>
        /\ submitted = Len(out) + 1 /\ submitted \in prepared
        /\ pc' = "ready"
    BY <1>0, <1>3
    DEF CommitInline, TypeOK, OrderInv, InInline, PreparedInv
  <2>2. \A i \in 1..Len(out') : i \in prepared
    BY <1>0, <2>1, ScalarTypes DEF PreparedInv
  <2> QED
    BY <1>0, <2>1, <2>2 DEF PreparedInv, Size
<1>4. CASE Spawn \/ Join \/ Complete \/ Drain \/ Destroy
  <2>1. /\ UNCHANGED <<submitted, next, running, prepared, out>>
        /\ pc' # "prepare" /\ pc' # "commit_inline"
    BY <1>4 DEF Spawn, Join, Complete, Drain, Destroy
  <2> QED
    BY <1>0, <2>1 DEF PreparedInv, Size
<1>5. CASE Launch
  <2>1. /\ next' = <<>> /\ Len(next') = 0 /\ UNCHANGED <<submitted, prepared, out>>
        /\ pc' # "prepare" /\ pc' # "commit_inline"
    BY <1>5, EmptySeq DEF Launch
  <2> PICK n \in Nat : n = Len(running)
    BY BatchTypes
  <2>2. /\ Len(running') = n + 1
        /\ \A q \in 1..n : running'[q] = running[q]
        /\ running'[n + 1] = [jobs |-> next, done |-> 0]
    BY <1>0, <1>5, LaunchRunning
  <2>3. ASSUME NEW q \in 1..Len(running'), NEW i \in 1..Len(running'[q].jobs)
        PROVE  running'[q].jobs[i] \in prepared <=> i <= running'[q].done
    <3>1. CASE q \in 1..n
      BY <1>0, <2>2, <2>3, <3>1 DEF PreparedInv, Size
    <3>2. CASE q = n + 1
      <4>1. running'[q].jobs = next /\ running'[q].done = 0
        BY <2>2, <3>2
      <4>2. i \in 1..Len(next) /\ ~(i <= 0)
        BY <2>3, <4>1, ScalarTypes
      <4> QED
        BY <1>0, <4>1, <4>2 DEF PreparedInv
    <3> QED
      BY <2>2, <2>3, <3>1, <3>2
  <2> QED
    BY <1>0, <2>1, <2>3 DEF PreparedInv, Size
<1>6. CASE Commit
  <2>1. /\ running # <<>> /\ reset < Size(1) /\ Head(running) = running[1]
        /\ running[1].done = Size(1)
    BY <1>0, <1>6 DEF Commit, ControlInv, InCommit, TypeOK, Size
  <2>2. reset + 1 \in 1..Size(1) /\ reset + 1 <= running[1].done
        /\ 1 \in 1..Len(running)
    BY <2>1, EndTypes, ScalarTypes
  <2>3. running[1].jobs[reset + 1] \in prepared
    BY <1>0, <2>2 DEF PreparedInv
  <2>4. /\ Len(out') = Len(out) + 1
        /\ \A i \in 1..Len(out) : out'[i] = out[i]
        /\ out'[Len(out) + 1] \in prepared
    BY <1>0, <1>6, <2>1, <2>3 DEF Commit, TypeOK
  <2>5. \A i \in 1..Len(out') : out'[i] = i
    BY OrderStep DEF OrderInv
  <2>6. \A i \in 1..Len(out') : i \in prepared
    BY <1>0, <2>4, <2>5, ScalarTypes DEF PreparedInv
  <2>7. UNCHANGED <<submitted, running, next, prepared, pc>>
    BY <1>6 DEF Commit
  <2> QED
    BY <1>0, <2>6, <2>7 DEF PreparedInv, Size
<1>7. CASE PopFront
  <2>1. /\ running # <<>> /\ UNCHANGED <<submitted, next, prepared, out>>
        /\ pc' # "prepare" /\ pc' # "commit_inline"
    BY <1>0, <1>7 DEF PopFront, ControlInv, InCommit
  <2>2. \A q \in 1..Len(running') :
          running'[q] = running[q + 1] /\ q + 1 \in 1..Len(running)
    BY <1>0, <1>7, <2>1, PopFrontRunning, ScalarTypes
  <2> QED
    BY <1>0, <2>1, <2>2 DEF PreparedInv, Size
<1>8. ASSUME NEW p \in 1..Len(running), Prepare(p) PROVE PreparedInv'
  <2>1. /\ UNCHANGED <<submitted, next, out>>
        /\ pc' \in {pc, "terminated"}
    BY <1>8 DEF Prepare
  <2>2. CASE running' = running
    <3>1. UNCHANGED prepared
      BY <1>0, <1>8, <2>2, PrepareKeeps
    <3> QED
      BY <1>0, <2>1, <2>2, <3>1 DEF PreparedInv, Size
  <2>3. CASE running' # running
    <3> PICK d \in Nat : d = running[p].done
      BY BatchTypes
    <3>0. d + 1 \in 1..Size(p)
      BY <1>0, <1>8, <2>3, PrepareRunning, BatchTypes DEF Size
    <3> PICK j \in Nat : j = running[p].jobs[d + 1]
      BY <3>0, JobNumber
    <3>1. /\ Len(running') = Len(running)
          /\ \A q \in 1..Len(running) : running'[q].jobs = running[q].jobs
          /\ \A q \in 1..Len(running) : q # p =>
               running'[q].done = running[q].done
          /\ running'[p].done = d + 1
          /\ prepared' = prepared \cup {j}
      BY <1>0, <1>8, <2>3, PrepareRunning
    <3>2. j > 0 /\ j <= submitted - Len(next)
      BY <3>0, JobNumber
    <3>3. prepared' \subseteq 1..submitted
      <4>1. j \in 1..submitted
        BY <3>2, ScalarTypes
      <4> QED
        BY <1>0, <3>1, <4>1 DEF PreparedInv
    <3>4. ASSUME NEW i \in 1..Len(next) PROVE next[i] \notin prepared'
      <4>1. next[i] = submitted - Len(next) + i
        BY <1>0 DEF OrderInv
      <4>2. next[i] # j
        BY <3>2, <4>1, ScalarTypes
      <4> QED
        BY <1>0, <3>1, <4>2 DEF PreparedInv
    <3>5. ASSUME NEW q \in 1..Len(running'),
                 NEW i \in 1..Len(running'[q].jobs)
          PROVE  running'[q].jobs[i] \in prepared' <=> i <= running'[q].done
      <4>1. /\ q \in 1..Len(running) /\ i \in 1..Size(q)
            /\ running'[q].jobs[i] = running[q].jobs[i]
        BY <3>1, <3>5 DEF Size
      <4>2. running[q].jobs[i] \in prepared <=> i <= running[q].done
        BY <1>0, <4>1 DEF PreparedInv
      <4>3. running[q].jobs[i] = j <=> q = p /\ i = d + 1
        BY <3>0, <4>1, JobsApart
      <4>4. running'[q].done = IF q = p THEN d + 1 ELSE running[q].done
        BY <3>1, <4>1
      <4>5. i \in Nat /\ running[q].done \in Nat
        <5>1. running[q].done \in Nat /\ Size(q) \in Nat
          BY <4>1, BatchTypes
        <5> QED
          BY <4>1, <5>1
      <4>6. CASE q = p
        BY <3>1, <4>1, <4>2, <4>3, <4>4, <4>5, <4>6
      <4>7. CASE q # p
        BY <3>1, <4>1, <4>2, <4>3, <4>4, <4>7
      <4> QED
        BY <4>6, <4>7
    <3>6. pc # "prepare" /\ pc # "commit_inline"
      BY <1>0, <1>8 DEF ControlInv, InInline
    <3>7. \A i \in 1..Len(out) : i \in prepared'
      BY <1>0, <3>1 DEF PreparedInv
    <3> QED
      BY <2>1, <3>3, <3>4, <3>5, <3>6, <3>7 DEF PreparedInv, Size
  <2> QED
    BY <2>2, <2>3
<1>9. CASE UNCHANGED vars
  BY <1>0, <1>9 DEF vars, PreparedInv, Size
<1> QED
  BY <1>1, <1>2, <1>3, <1>4, <1>5, <1>6, <1>7, <1>8, <1>9
  DEF Next, MainThread, Worker, Over

\* Every step keeps the number of threads.
LEMMA ThreadsStep == IInv /\ [Next]_vars => ThreadsInv'
<1> SUFFICES ASSUME IInv, [Next]_vars, maxThreads' = maxThreads
             PROVE ThreadsInv'
  BY ThreadsFixed
<1>0. /\ TypeOK /\ ControlInv /\ ThreadsInv
      /\ maxThreads \in Nat /\ Len(running) \in Nat
  BY ScalarTypes DEF IInv, TypeOK
<1>1. CASE Launch
  <2>1. pc' # "launch" /\ Len(running) < maxThreads
    BY <1>0, <1>1 DEF Launch, ThreadsInv
  <2>2. Len(running') = Len(running) + 1
    BY <1>0, <1>1, LaunchRunning
  <2> QED
    BY <1>0, <2>1, <2>2 DEF ThreadsInv
<1>2. CASE PopFront
  <2>1. running # <<>>
    BY <1>0, <1>2 DEF PopFront, ControlInv, InCommit
  <2>2. Len(running') = Len(running) - 1
    BY <1>0, <1>2, <2>1, PopFrontRunning
  <2> QED
    BY <1>0, <2>2 DEF ThreadsInv
<1>3. ASSUME NEW p \in 1..Len(running), Prepare(p) PROVE ThreadsInv'
  <2>1. Len(running') = Len(running)
    BY <1>0, <1>3, PrepareRunning
  <2>2. pc' \in {pc, "terminated"}
    BY <1>3 DEF Prepare
  <2> QED
    BY <1>0, <2>1, <2>2 DEF ThreadsInv
<1>4. CASE Spawn
  BY <1>0, <1>4 DEF Spawn, ThreadsInv
<1>5. CASE /\ UNCHANGED running
           /\ pc' = "launch" => pc = "launch"
  BY <1>0, <1>5 DEF ThreadsInv
<1> QED
  BY <1>1, <1>2, <1>3, <1>4, <1>5
  DEF Next, MainThread, Worker, Over, vars, AddJob, AddJobInline,
      PrepareInline, CommitInline, Join, Commit, Complete, Drain, Destroy

-----------------------------------------------------------------------------
(* Theorems *)

\* The invariant above holds in every state of every build.
THEOREM Invariance == Spec => []IInv
<1>1. IInv /\ [Next]_vars => IInv'
  BY TypeStep, ControlStep, BatchesStep, OrderStep, PreparedStep, ThreadsStep
  DEF IInv
<1> QED
  BY InitIInv, <1>1, PTL DEF Spec

\* Type correctness of the queue.
THEOREM TypeCorrect == Spec => []TypeOK
<1>1. IInv => TypeOK
  BY DEF IInv
<1> QED
  BY <1>1, Invariance, PTL

\* Entry i of the collection is the i-th list submitted (commit_thread), for
\* any number of threads and any speed of theirs.
THEOREM CommitOrder == Spec => []CommitsInOrder
<1>1. IInv => CommitsInOrder
  BY DEF IInv, OrderInv, CommitsInOrder
<1> QED
  BY <1>1, Invariance, PTL

\* commit() never reads bits that prepare() has not finished writing.
THEOREM CommitAfterPrepare == Spec => []CommitsPrepared
<1>1. IInv => CommitsPrepared
  BY DEF IInv, OrderInv, PreparedInv, CommitsPrepared
<1> QED
  BY <1>1, Invariance, PTL

\* A worker never visits a job that the main thread has reset.
THEOREM ResetIsSafe == Spec => []NoUseAfterReset
<1>1. ASSUME IInv PROVE NoUseAfterReset
  <2> SUFFICES ASSUME NEW p \in 1..Len(running),
                      NEW i \in 1..Len(running[p].jobs),
                      i > running[p].done,
                      running[p].jobs[i] \in Range(out)
               PROVE  FALSE
    BY DEF NoUseAfterReset
  <2>1. running[p].jobs[i] \notin prepared
    <3>1. ~(i <= running[p].done)
      BY <1>1, BatchTypes DEF Size
    <3> QED
      BY <1>1, <3>1 DEF IInv, PreparedInv, Size
  <2>2. \E k \in 1..Len(out) : out[k] = running[p].jobs[i]
    <3>1. DOMAIN out = 1..Len(out)
      <4>1. out \in Seq(Job)
        BY <1>1 DEF IInv, TypeOK
      <4> QED
        BY <4>1
    <3> QED
      BY <3>1 DEF Range
  <2>3. \A k \in 1..Len(out) : out[k] \in prepared
    BY <1>1 DEF IInv, OrderInv, PreparedInv
  <2> QED
    BY <2>1, <2>2, <2>3
<1> QED
  BY <1>1, Invariance, PTL

\* The configured number of worker threads is never exceeded.
THEOREM ThreadLimit == Spec => []ThreadsBounded
<1>1. IInv => ThreadsBounded
  BY ScalarTypes DEF IInv, TypeOK, ThreadsInv, ThreadsBounded
<1> QED
  BY <1>1, Invariance, PTL

\* A build whose queue is destroyed normally has every list, in order.
THEOREM CleanExit == Spec => []CleanExitIsComplete
<1>1. ASSUME IInv PROVE CleanExitIsComplete
  <2> SUFFICES ASSUME pc = "destroyed"
               PROVE  out = [i \in 1..submitted |-> i] /\ next = <<>>
    BY DEF CleanExitIsComplete
  <2>1. running = <<>> /\ next = <<>> /\ Len(next) = 0
    BY <1>1, EmptySeq DEF IInv, ControlInv
  <2>2. Len(out) = submitted
    <3>1. CASE maxThreads = 0
      BY <1>1, <3>1 DEF IInv, OrderInv, InInline
    <3>2. CASE maxThreads # 0
      BY <1>1, <2>1, <3>2, ScalarTypes DEF IInv, TypeOK, OrderInv
    <3> QED
      BY <3>1, <3>2
  <2>3. \A i \in 1..Len(out) : out[i] = i
    BY <1>1 DEF IInv, OrderInv
  <2>4. out = [i \in 1..Len(out) |-> out[i]]
    BY <1>1 DEF IInv, TypeOK
  <2> QED
    BY <2>1, <2>2, <2>3, <2>4
<1> QED
  BY <1>1, Invariance, PTL

\* What prepare() completed did not throw: an error ends the program before the
\* job counts as prepared, in add_job and in a worker.
NothingThrown == prepared \cap Throwing = {}

\* Every step keeps that no job that throws is prepared.
LEMMA ThrownStep == NothingThrown /\ [Next]_vars => NothingThrown'
<1> SUFFICES ASSUME NothingThrown, [Next]_vars PROVE NothingThrown'
  OBVIOUS
<1>1. CASE UNCHANGED prepared
  BY <1>1 DEF NothingThrown
<1>2. CASE PrepareInline
  BY <1>2 DEF PrepareInline, NothingThrown
<1>3. ASSUME NEW p \in 1..Len(running), Prepare(p) PROVE NothingThrown'
  BY <1>3 DEF Prepare, NothingThrown
<1>4. \/ UNCHANGED prepared
      \/ PrepareInline
      \/ \E p \in 1..Len(running) : Prepare(p)
  BY DEF Next, MainThread, Worker, Over, vars, AddJob, AddJobInline,
         CommitInline, Spawn, Launch, Join, Commit, PopFront, Complete, Drain,
         Destroy
<1> QED
  BY <1>1, <1>2, <1>3, <1>4

\* A build that ends normally has met no error: a list whose prepare() throws is
\* either not submitted or ends the program, on whichever thread it runs.
THEOREM ErrorsEndTheProgram == Spec => []ErrorsAreFatal
<1>1. Init => NothingThrown
  BY DEF Init, NothingThrown
<1>2. ASSUME IInv, NothingThrown, CleanExitIsComplete PROVE ErrorsAreFatal
  <2> SUFFICES ASSUME pc = "destroyed", NEW j \in Throwing, ~(j > submitted)
               PROVE  FALSE
    BY DEF ErrorsAreFatal
  <2>1. submitted \in Nat /\ j \in 1..submitted
    BY <1>2, ScalarTypes, JobsAssumption DEF JobsAssumption, Job
  <2>2. out = [i \in 1..submitted |-> i] /\ Len(out) = submitted
    BY <1>2, <2>1 DEF CleanExitIsComplete, IInv, TypeOK
  <2>3. j \in prepared
    BY <1>2, <2>1, <2>2 DEF IInv, PreparedInv
  <2> QED
    BY <1>2, <2>3 DEF NothingThrown
<1> QED
  BY <1>1, <1>2, ThrownStep, Invariance, CleanExit, PTL DEF Spec

\* Every step of the queue is a step of the ordered committer, or none.
LEMMA StepRefines == IInv /\ [Next]_vars => [Abstract!Next]_(Abstract!vars)
<1> SUFFICES ASSUME IInv, [Next]_vars, maxThreads' = maxThreads
             PROVE [Abstract!Next]_(Abstract!vars)
  BY ThreadsFixed
<1>0. /\ TypeOK /\ ControlInv /\ OrderInv /\ PreparedInv
      /\ submitted \in Nat /\ Len(out) \in Nat
  BY ScalarTypes DEF IInv
<1>1. ASSUME (\E w \in Works : AddJob(w)) \/ AddJobInline
      PROVE  Abstract!Submit
  BY <1>1 DEF AddJob, AddJobInline, Abstract!Submit
<1>2. CASE PrepareInline
  <2>1. /\ submitted \in 1..submitted /\ submitted \notin prepared
        /\ UNCHANGED <<submitted, out>>
    BY <1>0, <1>2
    DEF PrepareInline, OrderInv, PreparedInv, InInline
  <2>2. CASE UNCHANGED prepared
    BY <2>1, <2>2 DEF Abstract!vars
  <2>3. CASE prepared' = prepared \cup {submitted}
    <3>1. Abstract!Prepare(submitted)
      BY <2>1, <2>3 DEF Abstract!Prepare
    <3> QED
      BY <2>1, <3>1 DEF Abstract!Next
  <2> QED
    BY <1>2, <2>2, <2>3 DEF PrepareInline
<1>3. ASSUME CommitInline \/ Commit PROVE Abstract!Commit
  <2>1. Len(out') = Len(out) + 1
    BY <1>0, <1>3 DEF CommitInline, Commit, TypeOK
  <2>2. UNCHANGED <<submitted, prepared>>
    BY <1>3 DEF CommitInline, Commit
  <2>3. \A i \in 1..Len(out') : i \in prepared'
    BY PreparedStep DEF PreparedInv
  <2>4. Len(out) + 1 \in prepared
    BY <1>0, <2>1, <2>2, <2>3
  <2> QED
    BY <2>1, <2>2, <2>4 DEF Abstract!Commit
<1>4. ASSUME NEW p \in 1..Len(running), Prepare(p)
      PROVE  [Abstract!Next]_(Abstract!vars)
  <2>1. UNCHANGED <<submitted, out>>
    BY <1>4 DEF Prepare
  <2>2. CASE running' = running
    BY <1>0, <1>4, <2>1, <2>2, PrepareKeeps DEF Abstract!vars
  <2>3. CASE running' # running
    <3> PICK d \in Nat : d = running[p].done
      BY BatchTypes
    <3>1. d + 1 \in 1..Size(p)
      <4>1. d < Len(running[p].jobs)
        BY <1>0, <1>4, <2>3, PrepareRunning
      <4>2. Size(p) \in Nat
        BY BatchTypes
      <4> QED
        BY <4>1, <4>2 DEF Size
    <3> PICK j \in Nat : j = running[p].jobs[d + 1]
      BY <3>1, JobNumber
    <3>2. j \in 1..submitted
      <4>1. j > 0 /\ j <= submitted - Len(next)
        BY <3>1, JobNumber
      <4> QED
        BY <4>1, ScalarTypes
    <3>3. j \notin prepared
      BY <1>0, <3>1 DEF PreparedInv
    <3>4. prepared' = prepared \cup {j}
      BY <1>0, <1>4, <2>3, PrepareRunning
    <3>5. Abstract!Prepare(j)
      BY <2>1, <3>3, <3>4 DEF Abstract!Prepare
    <3> QED
      BY <3>2, <3>5 DEF Abstract!Next
  <2> QED
    BY <2>2, <2>3
<1>5. CASE UNCHANGED <<submitted, prepared, out>>
  BY <1>5 DEF Abstract!vars
<1> QED
  BY <1>1, <1>2, <1>3, <1>4, <1>5
  DEF Abstract!Next, Next, MainThread, Worker, Over, vars, Spawn, Launch,
      Join, PopFront, Complete, Drain, Destroy

\* The queue implements the ordered committer the builders expect.
THEOREM Refinement == Spec => RefinesOrderedCommit
<1>1. Init => Abstract!Init
  BY EmptySeq DEF Init, Abstract!Init
<1> QED
  BY <1>1, StepRefines, Invariance, PTL
  DEF Spec, RefinesOrderedCommit, Abstract!Spec
============================================================================
