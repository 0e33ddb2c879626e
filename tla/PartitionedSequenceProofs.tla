--------------------- MODULE PartitionedSequenceProofs ---------------------
(***************************************************************************)
(* The partitioned enumerator implements the abstract one, for every       *)
(* sequence, every partition of it and every order of calls, as long as an *)
(* int holds the universe.                                                 *)
(*                                                                         *)
(* The inductive invariant says that the members m_cur_... are those of a  *)
(* partition as it was written (Exact), that the position lies in it, and  *)
(* that the partition's enumerator was opened on it and is in step.  The   *)
(* lemmas say that what is read back from the ends and the upper bounds is *)
(* Exact, and that the searches in them find the partition that holds a    *)
(* position or a bound.                                                    *)
(*                                                                         *)
(* The last section is about the cut that optimal_partition chooses: the   *)
(* loops only ever record a way to a position that comes from before it    *)
(* (Ways), so that the way back from n is a cut.                           *)
(***************************************************************************)
EXTENDS OptimalPartition, SortedSequencesProofs, SequenceTheorems

\* Every int the constructor computes is below the limit.
IntsSuffice == \A u \in Universes : u <= IntLimit

\* The members of the enumerator in partition p, from what was written.
Exact(p) ==
  [partition |-> p, begin |-> Begin(p), end |-> partition[p],
   base |-> Base(p), upper_bound |-> Last(p)]

SequenceOK ==
  /\ n \in Nat \ {0} /\ universe \in Nat /\ universe <= IntLimit
  /\ seq \in [0..(n - 1) -> 0..(universe - 1)]
  /\ Ascending(seq, n)

PartitionOK ==
  /\ partitions \in Nat \ {0}
  /\ partition \in [0..(partitions - 1) -> 1..n]
  /\ Ascending(partition, partitions)
  /\ partition[partitions - 1] = n

\* The shift by log_partition_size agrees with the partitions.
UniformOK ==
  /\ uniform \in Nat
  /\ uniform > 0 =>
       /\ \A p \in 0..(partitions - 1) :
            UniformEnds(p) = [begin |-> Begin(p), end |-> partition[p]]
       /\ \A x \in 0..(n - 1) : x \div uniform \in 0..(partitions - 1)

DataOK == SequenceOK /\ PartitionOK /\ UniformOK

CursorOK ==
  /\ cur.partition \in 0..(partitions - 1)
  /\ cur = Exact(cur.partition)
  /\ m_position \in 0..n
  /\ m_position >= cur.begin
  /\ m_position < cur.end \/ (m_position = n /\ cur.partition = partitions - 1)
  /\ m_partition_enum = Open(cur, m_position - cur.begin)
  /\ m_sizes \in 0..(partitions - 1)
  /\ m_upper_bounds \in 0..partitions
  /\ value = ValueIn(seq, universe, m_position)

IInv == DataOK /\ CursorOK

-----------------------------------------------------------------------------
(* What was written *)

\* A partition is not empty, and its base is not above its values.
LEMMA PartitionBounds ==
  ASSUME DataOK, NEW p \in 0..(partitions - 1)
  PROVE  /\ Begin(p) \in 0..(n - 1)
         /\ partition[p] \in 1..n
         /\ Begin(p) < partition[p]
         /\ Last(p) \in 0..(universe - 1)
         /\ Base(p) \in 0..(universe - 1)
         /\ \A i \in Begin(p)..(partition[p] - 1) :
              i \in 0..(n - 1) /\ Base(p) <= seq[i] /\ seq[i] <= Last(p)
         /\ \A i \in 0..(Begin(p) - 1) : seq[i] < Base(p)
<1>0. /\ n \in Nat \ {0} /\ universe \in Nat /\ partitions \in Nat \ {0}
      /\ seq \in [0..(n - 1) -> 0..(universe - 1)]
      /\ partition \in [0..(partitions - 1) -> 1..n]
      /\ \A i, j \in 0..(n - 1) : i < j => seq[i] < seq[j]
      /\ \A i, j \in 0..(partitions - 1) : i < j => partition[i] < partition[j]
  BY DEF DataOK, SequenceOK, PartitionOK, Ascending
<1>1. partition[p] \in 1..n
  BY <1>0
<1>2. /\ Begin(p) \in 0..(n - 1)
      /\ Begin(p) < partition[p]
  <2>1. CASE p = 0
    BY <1>0, <1>1, <2>1 DEF Begin, ValueBefore
  <2>2. CASE p # 0
    <3>1. /\ p - 1 \in 0..(partitions - 1) /\ p - 1 < p
          /\ Begin(p) = partition[p - 1]
      BY <1>0, <2>2 DEF Begin, ValueBefore
    <3>2. partition[p - 1] < partition[p] /\ partition[p - 1] \in 1..n
      BY <1>0, <3>1
    <3> QED
      BY <1>0, <1>1, <3>1, <3>2
  <2> QED
    BY <2>1, <2>2
<1>3. Last(p) = seq[partition[p] - 1] /\ partition[p] - 1 \in 0..(n - 1)
  BY <1>0, <1>1 DEF Last
<1>4. Last(p) \in 0..(universe - 1)
  BY <1>0, <1>3
<1>5. ASSUME NEW i \in 0..(n - 1), NEW j \in 0..(n - 1), i <= j
      PROVE  seq[i] <= seq[j]
  BY <1>0, <1>5, SMTT(30)
<1>6. /\ Base(p) \in 0..(universe - 1)
      /\ Base(p) <= seq[Begin(p)]
      /\ \A i \in 0..(Begin(p) - 1) : seq[i] < Base(p)
  <2>1. CASE p = 0
    <3>1. Base(p) = seq[0] /\ Begin(p) = 0
      BY <2>1 DEF Base, Begin, ValueBefore
    <3> QED
      BY <1>0, <1>2, <3>1
  <2>2. CASE p # 0
    <3>1. /\ p - 1 \in 0..(partitions - 1)
          /\ Begin(p) = partition[p - 1]
          /\ Base(p) = seq[Begin(p) - 1] + 1
      BY <1>0, <2>2 DEF Base, Begin, ValueBefore, Last
    <3>2. Begin(p) - 1 \in 0..(n - 1) /\ Begin(p) - 1 < Begin(p)
      BY <1>0, <1>2, <3>1, SMTT(30)
    <3>3. seq[Begin(p) - 1] < seq[Begin(p)]
      BY <1>0, <1>2, <3>2
    <3>4. ASSUME NEW i \in 0..(Begin(p) - 1) PROVE seq[i] < Base(p)
      <4>1. i \in 0..(n - 1) /\ i <= Begin(p) - 1
        BY <1>0, <1>2
      <4>2. seq[i] <= seq[Begin(p) - 1]
        BY <1>0, <1>5, <3>2, <4>1
      <4> QED
        BY <1>0, <3>1, <3>2, <4>1, <4>2, SMTT(30)
    <3>5. /\ seq[Begin(p) - 1] \in 0..(universe - 1)
          /\ seq[Begin(p)] \in 0..(universe - 1)
      BY <1>0, <1>2, <3>2
    <3>6. Base(p) \in 0..(universe - 1) /\ Base(p) <= seq[Begin(p)]
      <4> DEFINE a == seq[Begin(p) - 1]
                 b == seq[Begin(p)]
      <4>1. /\ a \in 0..(universe - 1) /\ b \in 0..(universe - 1)
            /\ a < b /\ Base(p) = a + 1
        BY <3>1, <3>3, <3>5
      <4> HIDE DEF a, b
      <4>2. Base(p) \in 0..(universe - 1) /\ Base(p) <= b
        BY <1>0, <4>1
      <4> QED
        BY <4>2 DEF b
    <3> QED
      BY <3>4, <3>6
  <2> QED
    BY <2>1, <2>2
<1>7. ASSUME NEW i \in Begin(p)..(partition[p] - 1)
      PROVE  i \in 0..(n - 1) /\ Base(p) <= seq[i] /\ seq[i] <= Last(p)
  <2>1. i \in 0..(n - 1) /\ Begin(p) <= i /\ i <= partition[p] - 1
    BY <1>0, <1>1, <1>2
  <2>2. seq[Begin(p)] <= seq[i]
    BY <1>0, <1>2, <1>5, <2>1
  <2>3. seq[i] <= seq[partition[p] - 1]
    BY <1>0, <1>1, <1>3, <1>5, <2>1
  <2>4. seq[i] \in 0..(universe - 1) /\ seq[Begin(p)] \in 0..(universe - 1)
    BY <1>0, <1>2, <2>1
  <2> QED
    BY <1>0, <1>3, <1>6, <2>1, <2>2, <2>3, <2>4, SMTT(30)
<1> QED
  BY <1>1, <1>2, <1>4, <1>6, <1>7
\* Partitions follow one another: no position and no value lies between two.
LEMMA PartitionsAdjoin ==
  ASSUME DataOK
  PROVE  /\ Begin(0) = 0 /\ Base(0) = seq[0]
         /\ \A p \in 0..(partitions - 1) :
              IF p = partitions - 1
              THEN partition[p] = n
              ELSE Begin(p + 1) = partition[p] /\ Base(p + 1) = Last(p) + 1
<1>1. partitions \in Nat \ {0} /\ partition[partitions - 1] = n
  BY DEF DataOK, PartitionOK
<1>2. Begin(0) = 0 /\ Base(0) = seq[0]
  BY DEF Begin, Base, ValueBefore
<1>3. ASSUME NEW p \in 0..(partitions - 1), p # partitions - 1
      PROVE  Begin(p + 1) = partition[p] /\ Base(p + 1) = Last(p) + 1
  <2>1. p + 1 # 0 /\ (p + 1) - 1 = p
    BY <1>1
  <2> QED
    BY <2>1 DEF Begin, Base, ValueBefore
<1> QED
  BY <1>1, <1>2, <1>3

\* The values of a partition, relative to its base.
LEMMA PartitionValues ==
  ASSUME DataOK, NEW p \in 0..(partitions - 1)
  PROVE  /\ DOMAIN Values(p) = 0..(partition[p] - Begin(p) - 1)
         /\ SizeOf(Values(p)) = partition[p] - Begin(p)
         /\ \A k \in 0..(partition[p] - Begin(p) - 1) :
              Values(p)[k] = seq[Begin(p) + k] - Base(p)
<1>1. /\ Begin(p) \in Nat /\ partition[p] \in Nat /\ Begin(p) < partition[p]
  BY PartitionBounds
<1>2. partition[p] - Begin(p) \in Nat
  BY <1>1
<1>3. DOMAIN Values(p) = 0..(partition[p] - Begin(p) - 1)
  BY DEF Values
<1>4. SizeOf(Values(p)) = partition[p] - Begin(p)
  BY <1>2, <1>3, SizeOfSequence
<1> QED
  BY <1>3, <1>4 DEF Values

\* An element read back through the partition that holds it.
LEMMA ElementRead ==
  ASSUME DataOK, NEW p \in 0..(partitions - 1),
         NEW x \in Begin(p)..(partition[p] - 1)
  PROVE  Base(p) + Relative(Open(Exact(p), x - Begin(p))) = seq[x]
<1>1. /\ Begin(p) \in Nat /\ partition[p] \in Nat
      /\ Base(p) \in Int /\ seq[x] \in Int
  <2>1. x \in 0..(n - 1)
    BY PartitionBounds
  <2> QED
    BY <2>1, PartitionBounds DEF DataOK, SequenceOK
<1> DEFINE k == x - Begin(p)
<1>2. k \in 0..(partition[p] - Begin(p) - 1) /\ Begin(p) + k = x
  BY <1>1
<1>3. Values(p)[k] = seq[x] - Base(p) /\ k # SizeOf(Values(p))
  BY <1>1, <1>2, PartitionValues
<1>4. Relative(Open(Exact(p), k)) = ValueIn(Values(p), Last(p) - Base(p) + 1, k)
  BY DEF Relative, Open, Exact
<1> HIDE DEF k
<1>5. Relative(Open(Exact(p), k)) = seq[x] - Base(p)
  BY <1>3, <1>4 DEF ValueIn
<1>6. Base(p) + Relative(Open(Exact(p), k)) = seq[x]
  BY <1>1, <1>5
<1> QED
  BY <1>6 DEF k

-----------------------------------------------------------------------------
(* What is read back *)

LEMMA StoredSizes ==
  ASSUME DataOK, partitions > 1
  PROVE  /\ DOMAIN sizes = 0..(partitions - 1 - 1)
         /\ SizeOf(sizes) = partitions - 1
         /\ \A p \in 0..(partitions - 2) :
              sizes[p] = partition[p] /\ sizes[p] \in 1..(n - 1)
         /\ \A i, j \in 0..(partitions - 2) : i < j => sizes[i] < sizes[j]
<1>1. /\ partitions \in Nat \ {0} /\ partitions - 1 \in Nat /\ n \in Nat
      /\ partition \in [0..(partitions - 1) -> 1..n]
      /\ \A i, j \in 0..(partitions - 1) : i < j => partition[i] < partition[j]
      /\ partition[partitions - 1] = n
  BY DEF DataOK, PartitionOK, SequenceOK, Ascending
<1>2. DOMAIN sizes = 0..(partitions - 1 - 1)
  <2>1. partitions - 1 - 1 = partitions - 2
    BY <1>1
  <2> QED
    BY <2>1 DEF sizes
<1>3. SizeOf(sizes) = partitions - 1
  BY <1>1, <1>2, SizeOfSequence
<1>4. ASSUME NEW p \in 0..(partitions - 2)
      PROVE  sizes[p] = partition[p] /\ sizes[p] \in 1..(n - 1)
  <2>1. p \in 0..(partitions - 1) /\ p < partitions - 1
    BY <1>1
  <2>2. partition[p] < n /\ partition[p] \in 1..n
    <3>1. partitions - 1 \in 0..(partitions - 1)
      BY <1>1
    <3> QED
      BY <1>1, <2>1, <3>1
  <2>3. sizes[p] = partition[p]
    BY DEF sizes
  <2> QED
    BY <1>1, <2>2, <2>3
<1>5. ASSUME NEW i \in 0..(partitions - 2), NEW j \in 0..(partitions - 2), i < j
      PROVE  sizes[i] < sizes[j]
  <2>1. i \in 0..(partitions - 1) /\ j \in 0..(partitions - 1)
    BY <1>1
  <2> QED
    BY <1>1, <1>4, <1>5, <2>1
<1> QED
  BY <1>2, <1>3, <1>4, <1>5

LEMMA StoredUpperBounds ==
  ASSUME DataOK
  PROVE  /\ DOMAIN upper_bounds = 0..(partitions + 1 - 1)
         /\ SizeOf(upper_bounds) = partitions + 1
         /\ upper_bounds[0] = seq[0]
         /\ \A p \in 0..(partitions - 1) : upper_bounds[p + 1] = Last(p)
         /\ \A p \in 0..(partitions - 1) :
              Base(p) = upper_bounds[p] + (IF p = 0 THEN 0 ELSE 1)
         /\ \A k \in 0..partitions : upper_bounds[k] \in 0..(universe - 1)
<1>1. partitions \in Nat \ {0} /\ n \in Nat \ {0} /\ universe \in Nat
  BY DEF DataOK, PartitionOK, SequenceOK
<1>2. DOMAIN upper_bounds = 0..(partitions + 1 - 1)
  BY <1>1 DEF upper_bounds
<1>3. SizeOf(upper_bounds) = partitions + 1
  BY <1>1, <1>2, SizeOfSequence
<1>4. upper_bounds[0] = seq[0] /\ seq[0] \in 0..(universe - 1)
  BY <1>1 DEF upper_bounds, DataOK, SequenceOK
<1>5. \A p \in 0..(partitions - 1) :
        upper_bounds[p + 1] = Last(p) /\ Last(p) \in 0..(universe - 1)
  BY <1>1, PartitionBounds DEF upper_bounds
<1>6. ASSUME NEW p \in 0..(partitions - 1)
      PROVE  Base(p) = upper_bounds[p] + (IF p = 0 THEN 0 ELSE 1)
  <2>1. CASE p = 0
    BY <1>1, <1>4, <2>1 DEF Base
  <2>2. CASE p # 0
    BY <1>1, <2>2 DEF Base, upper_bounds
  <2> QED
    BY <2>1, <2>2
<1>7. ASSUME NEW k \in 0..partitions PROVE upper_bounds[k] \in 0..(universe - 1)
  <2>1. CASE k = 0
    BY <1>4, <2>1
  <2>2. CASE k # 0
    <3>1. k - 1 \in 0..(partitions - 1) /\ (k - 1) + 1 = k
      BY <1>1, <2>2
    <3> QED
      BY <1>5, <3>1
  <2> QED
    BY <2>1, <2>2
<1> QED
  BY <1>2, <1>3, <1>4, <1>5, <1>6, <1>7

\* What switch_partition reads is what was written (test_construction of
\* test/test_partitioned_sequence.cpp).
LEMMA PartitionIsExact ==
  ASSUME DataOK, partitions > 1, NEW p \in 0..(partitions - 1)
  PROVE  Partition(p) = Exact(p)
<1>1. partitions \in Nat
  BY DEF DataOK, PartitionOK
<1> DEFINE ends == IF uniform > 0 THEN UniformEnds(p) ELSE StoredEnds(p)
<1>2. ends.begin = Begin(p) /\ ends.end = partition[p]
  <2>1. CASE uniform > 0
    BY <2>1 DEF DataOK, UniformOK
  <2>2. CASE ~(uniform > 0)
    <3>1. ValueIn(sizes, n, p) = partition[p]
      <4>1. CASE p = partitions - 1
        BY <4>1, StoredSizes DEF ValueIn, DataOK, PartitionOK
      <4>2. CASE p # partitions - 1
        BY <1>1, <4>2, StoredSizes DEF ValueIn
      <4> QED
        BY <4>1, <4>2
    <3>2. ValueBefore(sizes, p) = Begin(p)
      <4>1. CASE p = 0
        BY <4>1 DEF ValueBefore, Begin
      <4>2. CASE p # 0
        <5>1. p - 1 \in 0..(partitions - 2)
          BY <1>1, <4>2
        <5> QED
          BY <4>2, <5>1, StoredSizes DEF ValueBefore, Begin
      <4> QED
        BY <4>1, <4>2
    <3> QED
      BY <2>2, <3>1, <3>2 DEF StoredEnds
  <2> QED
    BY <2>1, <2>2
<1>3. ValueBefore(upper_bounds, p + 1) = upper_bounds[p]
  BY <1>1 DEF ValueBefore
<1>4. ValueIn(upper_bounds, universe, p + 1) = Last(p)
  BY <1>1, StoredUpperBounds DEF ValueIn
<1>5. Base(p) = upper_bounds[p] + (IF p = 0 THEN 0 ELSE 1)
  BY StoredUpperBounds
<1> HIDE DEF ends
<1>6. Partition(p) =
        [partition |-> p, begin |-> ends.begin, end |-> ends.end,
         base |-> ValueBefore(upper_bounds, p + 1) + (IF p = 0 THEN 0 ELSE 1),
         upper_bound |-> ValueIn(upper_bounds, universe, p + 1)]
  BY DEF Partition, ends
<1> QED
  BY <1>2, <1>3, <1>4, <1>5, <1>6 DEF Exact

\* So is what the constructor reads when there is one partition.
LEMMA WholeIsExact ==
  ASSUME DataOK, partitions = 1
  PROVE  Whole = Exact(0)
<1>1. /\ Begin(0) = 0 /\ Base(0) = seq[0] /\ partition[0] = n
      /\ Last(0) = seq[n - 1]
  BY PartitionsAdjoin DEF DataOK, PartitionOK, Last
<1>2. /\ Last(0) \in 0..(universe - 1) /\ seq[0] \in 0..(universe - 1)
      /\ seq[0] <= Last(0) /\ universe \in Nat /\ universe <= IntLimit
      /\ n \in Nat \ {0} /\ IntLimit \in Nat
  <2>1. Last(0) \in 0..(universe - 1) /\ Base(0) \in 0..(universe - 1)
    BY PartitionBounds
  <2>2. n \in Nat \ {0} /\ universe \in Nat /\ universe <= IntLimit
    BY DEF DataOK, SequenceOK
  <2>3. seq[0] <= Last(0)
    <3>1. 0 \in Begin(0)..(partition[0] - 1)
      BY <1>1, <2>2
    <3>2. 0 \in 0..(partitions - 1)
      OBVIOUS
    <3> QED
      BY <3>1, <3>2, PartitionBounds
  <2> QED
    BY <1>1, <2>1, <2>2, <2>3, SizesAssumption DEF SizesAssumption
<1> DEFINE delta == IF UniverseDelta > 0 THEN UniverseDelta
                    ELSE universe - seq[0] - 1
<1>3. n # 1 => delta = Last(0) - seq[0]
  <2>1. CASE n = 1
    BY <2>1
  <2>2. CASE n # 1
    <3>1. 0 \in 0..(n - 1) /\ n - 1 \in 0..(n - 1) /\ 0 < n - 1
      BY <1>2, <2>2
    <3>2. seq[0] < Last(0)
      BY <1>1, <3>1 DEF DataOK, SequenceOK, Ascending
    <3> QED
      BY <1>2, <3>2 DEF UniverseDelta
  <2> QED
    BY <2>1, <2>2
<1> DEFINE ub == IF n = 1 THEN 0 ELSE AsInt(delta)
<1> HIDE DEF delta
<1>4. ub = Last(0) - seq[0]
  <2>1. CASE n = 1
    BY <1>1, <1>2, <2>1
  <2>2. CASE n # 1
    <3>1. delta < IntLimit
      BY <1>2, <1>3, <2>2
    <3> QED
      BY <1>3, <2>2, <3>1 DEF AsInt
  <2> QED
    BY <2>1, <2>2
<1> HIDE DEF ub
<1>5. AsWord(seq[0] + ub) = Last(0)
  BY <1>2, <1>4 DEF AsWord
<1>6. Whole = [partition |-> 0, begin |-> 0, end |-> n, base |-> seq[0],
               upper_bound |-> AsWord(seq[0] + ub)]
  BY DEF Whole, ub, delta
<1> QED
  BY <1>1, <1>5, <1>6 DEF Exact

LEMMA AtEndIsExact ==
  ASSUME DataOK
  PROVE  AtEnd = Exact(partitions - 1)
<1>1. partitions \in Nat \ {0}
  BY DEF DataOK, PartitionOK
<1>2. CASE partitions = 1
  BY <1>2, WholeIsExact DEF AtEnd
<1>3. CASE partitions # 1
  <2>1. partitions > 1 /\ partitions - 1 \in 0..(partitions - 1)
    BY <1>1, <1>3
  <2> QED
    BY <1>3, <2>1, PartitionIsExact DEF AtEnd
<1> QED
  BY <1>2, <1>3

-----------------------------------------------------------------------------
(* The searches *)

\* slow_move finds the partition that holds the position.
LEMMA PartitionOfHolds ==
  ASSUME DataOK, partitions > 1,
         m_sizes \in 0..(partitions - 1),
         NEW x \in 0..(n - 1)
  PROVE  LET p == PartitionOf(x)
         IN /\ p \in 0..(partitions - 1)
            /\ x \in Begin(p)..(partition[p] - 1)
<1>1. /\ partitions \in Nat \ {0} /\ n \in Nat \ {0} /\ uniform \in Nat
      /\ partition[partitions - 1] = n
  BY DEF DataOK, PartitionOK, SequenceOK, UniformOK
<1>2. CASE uniform > 0
  <2> DEFINE q == x \div uniform
  <2>1. PartitionOf(x) = q
    BY <1>2 DEF PartitionOf, UniformPartitionOf
  <2>2. q \in 0..(partitions - 1)
    BY <1>2 DEF DataOK, UniformOK
  <2>3. q * uniform <= x /\ x < (q + 1) * uniform
    BY <1>1, <1>2
  <2>4. Begin(q) = q * uniform /\ partition[q] = Smaller(n, (q + 1) * uniform)
    BY <1>2, <2>2 DEF DataOK, UniformOK, UniformEnds
  <2>5. Begin(q) \in Nat /\ partition[q] \in Nat
    BY <2>2, PartitionBounds
  <2> DEFINE next == (q + 1) * uniform
  <2>6. x < next /\ x < n /\ partition[q] = Smaller(n, next)
    BY <1>1, <2>3, <2>4
  <2> HIDE DEF q, next
  <2>7. x < partition[q]
    <3>1. CASE n <= next
      BY <2>6, <3>1 DEF Smaller
    <3>2. CASE ~(n <= next)
      BY <2>6, <3>2 DEF Smaller
    <3> QED
      BY <3>1, <3>2
  <2> QED
    BY <2>1, <2>2, <2>3, <2>4, <2>5, <2>7
<1>3. CASE ~(uniform > 0)
  <2> DEFINE q == FirstAtLeast(sizes, x + 1)
             m == partitions - 1
  <2>1. /\ m \in Nat /\ DOMAIN sizes = 0..(m - 1) /\ m - 1 = partitions - 2
        /\ \A i \in 0..(m - 1) : sizes[i] \in Int /\ sizes[i] < n
        /\ \A i, j \in 0..(m - 1) : i < j => sizes[i] < sizes[j]
        /\ m_sizes \in 0..m /\ x + 1 \in Int /\ n \in Int
    BY <1>1, StoredSizes
  <2> HIDE DEF m
  <2>2. Landing(sizes, n, m_sizes, x + 1) = q
    BY <2>1, LandingIsFirst
  <2>3. PartitionOf(x) = q
    BY <1>3, <2>2 DEF PartitionOf
  <2>4. /\ q \in 0..m
        /\ q = m \/ sizes[q] >= x + 1
        /\ \A i \in 0..(q - 1) : sizes[i] < x + 1
    BY <2>1, FirstAtLeastFound
  <2> HIDE DEF q
  <2>5. q \in 0..(partitions - 1)
    BY <2>4 DEF m
  <2>6. Begin(q) \in Nat /\ partition[q] \in Nat
    BY <2>5, PartitionBounds
  <2>7. x < partition[q]
    <3>1. CASE q = m
      BY <1>1, <3>1 DEF m
    <3>2. CASE q # m
      <4>1. q \in 0..(partitions - 2)
        BY <2>1, <2>4, <3>2 DEF m
      <4>2. sizes[q] = partition[q]
        BY <4>1, StoredSizes
      <4> QED
        BY <2>4, <2>6, <3>2, <4>2
    <3> QED
      BY <3>1, <3>2
  <2>8. Begin(q) <= x
    <3>1. CASE q = 0
      BY <3>1, PartitionsAdjoin
    <3>2. CASE q # 0
      <4>1. q - 1 \in 0..(q - 1) /\ q - 1 \in 0..(partitions - 2)
        BY <1>1, <2>5, <3>2
      <4>2. sizes[q - 1] = partition[q - 1] /\ sizes[q - 1] \in 1..(n - 1)
        BY <4>1, StoredSizes
      <4>3. sizes[q - 1] < x + 1
        BY <2>4, <4>1
      <4>4. Begin(q) = partition[q - 1]
        BY <3>2 DEF Begin, ValueBefore
      <4> QED
        BY <4>2, <4>3, <4>4
    <3> QED
      BY <3>1, <3>2
  <2> QED
    BY <2>3, <2>5, <2>6, <2>7, <2>8
<1> QED
  BY <1>1, <1>2, <1>3

\* The search in the upper bounds finds the partition that holds the bound, or
\* that the bound is not above the first value, or that it is above the last.
LEMMA UpperBoundHolds ==
  ASSUME DataOK,
         m_upper_bounds \in 0..partitions,
         NEW bound \in Nat
  PROVE  LET ub == UpperBoundFrom(bound)
         IN /\ ub \in 0..(partitions + 1)
            /\ ub = 0 => bound <= seq[0]
            /\ ub = partitions + 1 => bound > Last(partitions - 1)
            /\ ub \in 1..partitions =>
                 bound \in Base(ub - 1)..Last(ub - 1)
<1> DEFINE m == partitions + 1
           f == FirstAtLeast(upper_bounds, bound)
           ub == UpperBoundFrom(bound)
<1>1. /\ partitions \in Nat \ {0} /\ m \in Nat
      /\ DOMAIN upper_bounds = 0..(m - 1)
      /\ SizeOf(upper_bounds) = m
      /\ \A i \in 0..(m - 1) : upper_bounds[i] \in Int
  <2>1. partitions \in Nat \ {0}
    BY DEF DataOK, PartitionOK
  <2>2. m - 1 = partitions
    BY <2>1
  <2> HIDE DEF m
  <2>3. \A i \in 0..(m - 1) : upper_bounds[i] \in 0..(universe - 1)
    BY <2>2, StoredUpperBounds
  <2> QED
    BY <2>1, <2>3, StoredUpperBounds DEF m
<1> HIDE DEF m
<1>2. /\ f \in 0..m
      /\ f = m \/ upper_bounds[f] >= bound
      /\ \A q \in 0..(f - 1) : upper_bounds[q] < bound
  <2>1. bound \in Int
    OBVIOUS
  <2> QED
    BY <1>1, <2>1, FirstAtLeastFound
<1>3. \/ ub \in 0..partitions /\ upper_bounds[ub] = bound
      \/ ub = f
  BY <1>1 DEF UpperBoundFrom, Landing, ValueIn, m
<1> HIDE DEF ub, f
<1>4. ub \in 0..(partitions + 1)
  BY <1>1, <1>2, <1>3 DEF m
<1>5. ASSUME ub = 0 PROVE bound <= seq[0]
  <2>1. upper_bounds[ub] >= bound
    BY <1>1, <1>2, <1>3, <1>5 DEF m
  <2> QED
    BY <1>1, <1>5, <2>1, StoredUpperBounds DEF m
<1>6. ASSUME ub = partitions + 1 PROVE bound > Last(partitions - 1)
  <2>1. partitions \in 0..(f - 1) /\ partitions - 1 \in 0..(partitions - 1)
    BY <1>1, <1>3, <1>6
  <2>2. upper_bounds[partitions] < bound
    BY <1>2, <2>1
  <2>3. upper_bounds[(partitions - 1) + 1] = Last(partitions - 1)
    BY <2>1, StoredUpperBounds
  <2>4. Last(partitions - 1) \in Int /\ (partitions - 1) + 1 = partitions
    BY <1>1, <2>1, PartitionBounds
  <2> QED
    BY <2>2, <2>3, <2>4
<1>7. ASSUME ub \in 1..partitions PROVE bound \in Base(ub - 1)..Last(ub - 1)
  <2> DEFINE p == ub - 1
  <2>1. p \in 0..(partitions - 1) /\ p + 1 = ub
    BY <1>1, <1>7
  <2> HIDE DEF p
  <2>2. /\ Base(p) \in Int /\ Last(p) \in Int
        /\ upper_bounds[ub] = Last(p)
        /\ Base(p) = upper_bounds[p] + (IF p = 0 THEN 0 ELSE 1)
        /\ upper_bounds[p] \in Int
    <3>1. upper_bounds[p + 1] = Last(p) /\ p \in 0..partitions
      BY <1>1, <2>1, StoredUpperBounds
    <3>2. upper_bounds[p] \in 0..(universe - 1)
      BY <3>1, StoredUpperBounds
    <3>3. Base(p) = upper_bounds[p] + (IF p = 0 THEN 0 ELSE 1)
      BY <2>1, StoredUpperBounds
    <3>4. Base(p) \in Int /\ Last(p) \in Int
      BY <2>1, PartitionBounds
    <3> QED
      BY <2>1, <3>1, <3>2, <3>3, <3>4
  <2>3. Base(p) <= Last(p)
    <3>1. Begin(p) \in Begin(p)..(partition[p] - 1)
      BY <2>1, PartitionBounds
    <3>2. Base(p) <= seq[Begin(p)] /\ seq[Begin(p)] <= Last(p)
          /\ Begin(p) \in 0..(n - 1)
      BY <2>1, <3>1, PartitionBounds
    <3>3. seq[Begin(p)] \in Int
      BY <3>2 DEF DataOK, SequenceOK
    <3> QED
      BY <2>2, <3>2, <3>3
  <2>4. CASE upper_bounds[ub] = bound
    BY <2>2, <2>3, <2>4 DEF p
  <2>5. CASE ub = f
    <3>1. f # m /\ p \in 0..(f - 1)
      BY <1>1, <1>7, <2>1, <2>5 DEF m
    <3>2. upper_bounds[p] < bound /\ upper_bounds[ub] >= bound
      BY <1>2, <2>5, <3>1
    <3>3. Base(p) <= bound /\ bound <= Last(p)
      BY <2>2, <3>2
    <3> QED
      BY <2>2, <3>3 DEF p
  <2> QED
    BY <1>3, <2>4, <2>5
<1> QED
  BY <1>4, <1>5, <1>6, <1>7 DEF ub

\* next_geq within the partition that holds the bound is next_geq of the whole.
LEMMA GeqInHolds ==
  ASSUME DataOK, NEW p \in 0..(partitions - 1),
         NEW k \in 0..(partition[p] - Begin(p)),
         NEW bound \in Base(p)..Last(p)
  PROVE  LET x == Begin(p) + GeqIn(Exact(p), k, bound)
         IN /\ x \in Begin(p)..(partition[p] - 1)
            /\ x = FirstAtLeast(seq, bound)
<1> DEFINE s == Values(p)
           m == partition[p] - Begin(p)
           b == bound - Base(p)
           u == Last(p) - Base(p) + 1
           f == FirstAtLeast(s, b)
<1>1. /\ Begin(p) \in Nat /\ partition[p] \in Nat /\ Begin(p) < partition[p]
      /\ partition[p] <= n /\ n \in Nat
      /\ Base(p) \in Int /\ Last(p) \in Int /\ bound \in Int
      /\ Base(p) <= bound /\ bound <= Last(p)
  BY PartitionBounds DEF DataOK, SequenceOK
<1>2. /\ m \in Nat \ {0} /\ b \in Int /\ u \in Int /\ k \in 0..m
      /\ DOMAIN s = 0..(m - 1)
  <2>1. DOMAIN s = 0..(m - 1)
    BY PartitionValues
  <2>2. m \in Nat \ {0}
    BY <1>1
  <2>3. b \in Int /\ u \in Int
    BY <1>1
  <2>4. k \in 0..m
    OBVIOUS
  <2> HIDE DEF s, m, b, u
  <2> QED
    BY <2>1, <2>2, <2>3, <2>4
<1>3. ASSUME NEW i \in 0..(m - 1)
      PROVE  /\ Begin(p) + i \in Begin(p)..(partition[p] - 1)
             /\ Begin(p) + i \in 0..(n - 1)
             /\ s[i] = seq[Begin(p) + i] - Base(p)
             /\ seq[Begin(p) + i] \in Int /\ s[i] \in Int /\ s[i] < u
  <2>1. Begin(p) + i \in Begin(p)..(partition[p] - 1)
    BY <1>1
  <2>2. Begin(p) + i \in 0..(n - 1) /\ seq[Begin(p) + i] <= Last(p)
    BY <2>1, PartitionBounds
  <2>3. s[i] = seq[Begin(p) + i] - Base(p)
    BY PartitionValues
  <2>4. seq[Begin(p) + i] \in Int
    BY <2>2 DEF DataOK, SequenceOK
  <2> HIDE DEF s
  <2> QED
    BY <1>1, <2>1, <2>2, <2>3, <2>4
<1>4. ASSUME NEW i \in 0..(m - 1), NEW j \in 0..(m - 1), i < j
      PROVE  s[i] < s[j]
  <2>1. seq[Begin(p) + i] < seq[Begin(p) + j]
    <3>1. Begin(p) + i < Begin(p) + j
      BY <1>1, <1>4
    <3> QED
      BY <1>3, <3>1 DEF DataOK, SequenceOK, Ascending
  <2> HIDE DEF s, m
  <2> QED
    BY <1>1, <1>3, <2>1
<1> HIDE DEF s, m, b, u
<1>5. Landing(s, u, k, b) = f
  BY <1>2, <1>3, <1>4, LandingIsFirst
<1>6. /\ f \in 0..m
      /\ f = m \/ s[f] >= b
      /\ \A q \in 0..(f - 1) : s[q] < b
  BY <1>2, <1>3, FirstAtLeastFound
<1>7. GeqIn(Exact(p), k, bound) = f
  BY <1>5 DEF GeqIn, Exact, s, u, b, f
<1> HIDE DEF f
<1>8. f # m
  <2>1. SUFFICES ASSUME f = m PROVE FALSE
    OBVIOUS
  <2>2. m - 1 \in 0..(f - 1) /\ m - 1 \in 0..(m - 1)
    BY <1>2, <2>1
  <2>3. s[m - 1] < b
    BY <1>6, <2>2
  <2>4. Begin(p) + (m - 1) = partition[p] - 1
    BY <1>1 DEF m
  <2>5. s[m - 1] = Last(p) - Base(p)
    BY <1>3, <2>2, <2>4 DEF Last
  <2> QED
    BY <1>1, <2>3, <2>5 DEF b
<1> DEFINE x == Begin(p) + f
<1>9. f \in 0..(m - 1) /\ x \in Begin(p)..(partition[p] - 1) /\ x \in 0..n
  <2>1. f \in 0..(m - 1)
    BY <1>2, <1>6, <1>8
  <2> QED
    BY <1>1, <1>3, <2>1
<1>10. seq[x] >= bound
  <2>1. s[f] >= b /\ s[f] = seq[x] - Base(p) /\ seq[x] \in Int
    BY <1>3, <1>6, <1>8, <1>9
  <2> HIDE DEF x
  <2> QED
    BY <1>1, <2>1 DEF b
<1>11. ASSUME NEW q \in 0..(x - 1) PROVE seq[q] < bound
  <2>1. CASE q < Begin(p)
    <3>1. q \in 0..(Begin(p) - 1) /\ q \in 0..(n - 1)
      BY <1>1, <1>9, <2>1
    <3>2. seq[q] < Base(p)
      BY <3>1, PartitionBounds
    <3>3. seq[q] \in Int
      BY <3>1 DEF DataOK, SequenceOK
    <3> QED
      BY <1>1, <3>2, <3>3
  <2>2. CASE q >= Begin(p)
    <3> DEFINE i == q - Begin(p)
    <3>1. i \in 0..(f - 1) /\ i \in 0..(m - 1) /\ Begin(p) + i = q
      <4>1. q \in Nat /\ q < Begin(p) + f /\ f \in 0..(m - 1) /\ m \in Nat
        BY <1>1, <1>2, <1>9
      <4> QED
        BY <1>1, <2>2, <4>1
    <3> HIDE DEF i
    <3>2. s[i] < b /\ s[i] = seq[q] - Base(p) /\ seq[q] \in Int
      BY <1>3, <1>6, <3>1
    <3> QED
      BY <1>1, <3>2 DEF b
  <2>3. q \in Int
    OBVIOUS
  <2> QED
    BY <1>1, <2>1, <2>2, <2>3
<1>12. FirstAtLeast(seq, bound) = x
  <2>1. /\ DOMAIN seq = 0..(n - 1)
        /\ \A i \in 0..(n - 1) : seq[i] \in Int
    BY DEF DataOK, SequenceOK
  <2> HIDE DEF x
  <2> QED
    BY <1>1, <1>9, <1>10, <1>11, <2>1, FirstAtLeastIs
<1> QED
  BY <1>7, <1>9, <1>12

\* A bound up to the first value, and one above the last.
LEMMA FirstAtLeastEnds ==
  ASSUME DataOK, NEW bound \in Nat
  PROVE  /\ bound <= seq[0] => FirstAtLeast(seq, bound) = 0
         /\ bound > Last(partitions - 1) => FirstAtLeast(seq, bound) = n
<1>1. /\ n \in Nat \ {0} /\ DOMAIN seq = 0..(n - 1)
      /\ \A i \in 0..(n - 1) : seq[i] \in Int
      /\ bound \in Int
  BY DEF DataOK, SequenceOK
<1>2. ASSUME bound <= seq[0] PROVE FirstAtLeast(seq, bound) = 0
  <2>1. /\ 0 \in 0..n /\ 0 \in 0..(n - 1)
        /\ \A q \in 0..(0 - 1) : seq[q] < bound
    BY <1>1
  <2>2. seq[0] >= bound
    BY <1>1, <1>2, <2>1
  <2> QED
    BY <1>1, <2>1, <2>2, FirstAtLeastIs
<1>3. ASSUME bound > Last(partitions - 1) PROVE FirstAtLeast(seq, bound) = n
  <2>1. Last(partitions - 1) = seq[n - 1] /\ n - 1 \in 0..(n - 1)
    BY <1>1 DEF Last, DataOK, PartitionOK
  <2>2. ASSUME NEW q \in 0..(n - 1) PROVE seq[q] < bound
    <3>1. q = n - 1 \/ seq[q] < seq[n - 1]
      BY <1>1, <2>1 DEF DataOK, SequenceOK, Ascending
    <3> QED
      BY <1>1, <1>3, <2>1, <3>1
  <2>3. n \in 0..n
    BY <1>1
  <2> QED
    BY <1>1, <2>2, <2>3, FirstAtLeastIs
<1> QED
  BY <1>2, <1>3

-----------------------------------------------------------------------------
(* The steps *)

\* The cursor is at position x, in partition p, after the step.
LEMMA Settled ==
  ASSUME IInv, UNCHANGED written,
         NEW p \in 0..(partitions - 1),
         NEW x \in Begin(p)..partition[p],
         x < partition[p] \/ p = partitions - 1,
         cur' = Exact(p),
         m_position' = x,
         m_partition_enum' = Open(Exact(p), x - Begin(p)),
         m_sizes' \in 0..(partitions - 1),
         m_upper_bounds' \in 0..partitions,
         value' = ValueIn(seq, universe, x)
  PROVE  IInv'
<1>1. DataOK'
  BY DEF IInv, DataOK, SequenceOK, PartitionOK, UniformOK, UniformEnds, Ascending,
         Begin, n, partitions, SizeOf, written
<1>2. /\ n' = n /\ partitions' = partitions
      /\ seq' = seq /\ universe' = universe /\ partition' = partition
  BY DEF n, partitions, SizeOf, written
<1>3. /\ cur'.partition = p /\ cur'.begin = Begin(p) /\ cur'.end = partition[p]
  BY DEF Exact
<1>4. (Exact(cur.partition))' = Exact(p)
  BY <1>2, <1>3 DEF Exact, Begin, Base, Last
<1>5. /\ Begin(p) \in Nat /\ partition[p] \in Nat /\ partition[p] <= n
      /\ n \in Nat /\ partition[partitions - 1] = n
  BY PartitionBounds, SMTT(30) DEF IInv, DataOK, SequenceOK, PartitionOK
<1>6. x \in 0..n /\ x >= Begin(p) /\ (x < partition[p] \/ x = n)
  BY <1>5
<1>7. CursorOK'
  <2>1. cur'.partition \in 0..(partitions' - 1)
    BY <1>2, <1>3
  <2>2. cur' = (Exact(cur.partition))'
    BY <1>4
  <2>3. /\ m_position' \in 0..n'
        /\ m_position' >= cur'.begin
        /\ \/ m_position' < cur'.end
           \/ m_position' = n' /\ cur'.partition = partitions' - 1
    BY <1>2, <1>3, <1>5, <1>6
  <2>4. m_partition_enum' = Open(cur', m_position' - cur'.begin)
    BY <1>3
  <2>5. /\ m_sizes' \in 0..(partitions' - 1)
        /\ m_upper_bounds' \in 0..partitions'
        /\ value' = ValueIn(seq', universe', m_position')
    BY <1>2
  <2> QED
    BY <2>1, <2>2, <2>3, <2>4, <2>5 DEF CursorOK
<1> QED
  BY <1>1, <1>7 DEF IInv

\* What a step returns is the element at its position.
LEMMA ElementReturned ==
  ASSUME DataOK, NEW p \in 0..(partitions - 1),
         NEW x \in Begin(p)..(partition[p] - 1),
         cur' = Exact(p),
         m_partition_enum' = Open(Exact(p), x - Begin(p)),
         ReturnElement
  PROVE  value' = ValueIn(seq, universe, x)
<1>1. value' = Base(p) + Relative(Open(Exact(p), x - Begin(p)))
  BY DEF ReturnElement, Exact
<1>2. value' = seq[x]
  BY <1>1, ElementRead
<1>3. x # SizeOf(seq)
  <2>1. x \in 0..(n - 1) /\ n \in Nat
    BY PartitionBounds DEF DataOK, SequenceOK
  <2> QED
    BY <2>1 DEF n
<1> QED
  BY <1>2, <1>3 DEF ValueIn

\* The partition the cursor is in, and its enumerator.
LEMMA CurrentPartition ==
  ASSUME IInv
  PROVE  LET p == cur.partition
         IN /\ p \in 0..(partitions - 1)
            /\ cur = Exact(p)
            /\ cur.begin = Begin(p) /\ cur.end = partition[p]
            /\ cur.base = Base(p) /\ cur.upper_bound = Last(p)
            /\ m_partition_enum.size = partition[p] - Begin(p)
            /\ m_partition_enum.position = m_position - Begin(p)
            /\ \A k : [m_partition_enum EXCEPT !.position = k] = Open(Exact(p), k)
            /\ m_position \in Begin(p)..partition[p]
            /\ m_position - Begin(p) \in 0..(partition[p] - Begin(p))
<1> DEFINE p == cur.partition
<1>1. p \in 0..(partitions - 1) /\ cur = Exact(p)
  BY DEF IInv, CursorOK
<1>2. m_partition_enum = Open(Exact(p), m_position - Begin(p))
  BY <1>1 DEF IInv, CursorOK, Exact
<1>3. /\ cur.begin = Begin(p) /\ cur.end = partition[p]
      /\ cur.base = Base(p) /\ cur.upper_bound = Last(p)
  BY <1>1 DEF Exact
<1>4. /\ m_position \in Nat /\ m_position >= Begin(p)
      /\ m_position <= partition[p]
      /\ Begin(p) \in Nat /\ partition[p] \in Nat
  <2>1. Begin(p) \in Nat /\ partition[p] \in Nat
    BY <1>1, PartitionBounds DEF IInv
  <2>2. /\ m_position \in 0..n /\ m_position >= Begin(p)
        /\ m_position < partition[p] \/ (m_position = n /\ p = partitions - 1)
    BY <1>3 DEF IInv, CursorOK
  <2>3. n \in Nat /\ partition[partitions - 1] = n
    BY DEF IInv, DataOK, PartitionOK, SequenceOK
  <2> QED
    BY <2>1, <2>2, <2>3
<1>5. /\ m_position \in Begin(p)..partition[p]
      /\ m_position - Begin(p) \in 0..(partition[p] - Begin(p))
  BY <1>4
<1>6. /\ m_partition_enum.size = partition[p] - Begin(p)
      /\ m_partition_enum.position = m_position - Begin(p)
  BY <1>2 DEF Open, Exact
<1>7. \A k : [m_partition_enum EXCEPT !.position = k] = Open(Exact(p), k)
  BY <1>2 DEF Open
<1> QED
  BY <1>1, <1>3, <1>5, <1>6, <1>7

LEMMA MoveToLands ==
  ASSUME IInv, UNCHANGED written,
         NEW x \in 0..n, NEW ub,
         ub \in 0..partitions \/ (partitions > 1 /\ x = n),
         MoveTo(x, ub)
  PROVE  IInv' /\ m_position' = x /\ value' = ValueIn(seq, universe, x)
<1> DEFINE p == cur.partition
           last == partitions - 1
<1>0. /\ DataOK /\ partitions \in Nat \ {0} /\ n \in Nat \ {0}
      /\ partition[last] = n /\ m_sizes \in 0..last /\ last \in 0..last
  BY SMTT(30) DEF IInv, DataOK, PartitionOK, SequenceOK, CursorOK
<1>1. CASE x = n /\ MoveToEnd(ub)
  <2>1. value' = ValueIn(seq, universe, n) /\ m_position' = n
    BY <1>1 DEF MoveToEnd, ValueIn, n
  <2>2. n \in Begin(last)..partition[last]
    BY <1>0, PartitionBounds
  <2>3. /\ cur' = Exact(last)
        /\ m_partition_enum' = Open(Exact(last), n - Begin(last))
        /\ m_sizes' \in 0..last /\ m_upper_bounds' \in 0..partitions
    <3>1. CASE partitions = 1
      <4>1. /\ StayInPartition(m_partition_enum.size) /\ m_upper_bounds' = ub
            /\ ub \in 0..partitions
        BY <1>1, <3>1 DEF MoveToEnd
      <4>2. p = last
        BY <3>1, CurrentPartition
      <4>3. m_partition_enum.size = n - Begin(last)
        BY <1>0, <4>2, CurrentPartition
      <4>4. m_partition_enum' = Open(Exact(last), n - Begin(last))
        BY <4>1, <4>2, <4>3, CurrentPartition DEF StayInPartition
      <4>5. cur' = Exact(last) /\ m_sizes' = m_sizes
        BY <4>1, <4>2, CurrentPartition DEF StayInPartition
      <4> QED
        BY <1>0, <4>1, <4>4, <4>5
    <3>2. CASE partitions # 1
      <4>1. partitions > 1 /\ last + 1 = partitions /\ partitions \in 0..partitions
        BY <1>0, <3>2
      <4>2. Partition(last) = Exact(last)
        BY <1>0, <4>1, PartitionIsExact
      <4>3. switch_partition(last, Exact(last).end - Exact(last).begin)
        BY <1>1, <3>2, <4>2 DEF MoveToEnd
      <4>4. Exact(last).end = n /\ Exact(last).begin = Begin(last)
        BY <1>0 DEF Exact
      <4> QED
        BY <1>0, <4>1, <4>2, <4>3, <4>4 DEF switch_partition
    <3> QED
      BY <3>1, <3>2
  <2> HIDE DEF last
  <2>4. IInv'
    BY <1>0, <2>1, <2>2, <2>3, Settled DEF last
  <2> QED
    BY <1>1, <2>1, <2>4
<1>2. CASE /\ x \in cur.begin..(cur.end - 1)
           /\ m_position' = x
           /\ StayInPartition(x - cur.begin)
           /\ m_upper_bounds' = ub
           /\ ReturnElement
  <2>1. /\ p \in 0..(partitions - 1) /\ x \in Begin(p)..(partition[p] - 1)
        /\ x \in Begin(p)..partition[p] /\ x < partition[p]
        /\ Begin(p) \in Nat /\ partition[p] \in Nat /\ partition[p] <= n
    <3>1. p \in 0..(partitions - 1) /\ x \in Begin(p)..(partition[p] - 1)
      BY <1>2, CurrentPartition
    <3>2. Begin(p) \in Nat /\ partition[p] \in Nat /\ partition[p] <= n
      BY <1>0, <3>1, PartitionBounds
    <3> QED
      BY <3>1, <3>2
  <2>2. /\ cur' = Exact(p) /\ m_sizes' = m_sizes
        /\ m_partition_enum' = Open(Exact(p), x - Begin(p))
    BY <1>2, CurrentPartition DEF StayInPartition
  <2>3. value' = ValueIn(seq, universe, x)
    BY <1>0, <1>2, <2>1, <2>2, ElementReturned
  <2>4. m_upper_bounds' \in 0..partitions
    <3>1. x # n
      BY <1>0, <2>1
    <3> QED
      BY <1>2, <3>1
  <2> HIDE DEF p
  <2>5. IInv'
    BY <1>0, <1>2, <2>1, <2>2, <2>3, <2>4, Settled
  <2> QED
    BY <1>2, <2>3, <2>5
<1>3. CASE /\ x < n /\ x \notin cur.begin..(cur.end - 1)
           /\ MoveToPartition(x)
  <2>1. partitions > 1
    <3>1. SUFFICES ASSUME partitions = 1 PROVE FALSE
      BY <1>0
    <3>2. p = 0 /\ cur.begin = 0 /\ cur.end = n
      BY <1>0, <3>1, CurrentPartition, PartitionsAdjoin
    <3> QED
      BY <1>0, <1>3, <3>2
  <2> DEFINE q == PartitionOf(x)
  <2>2. /\ q \in 0..(partitions - 1) /\ x \in Begin(q)..(partition[q] - 1)
    <3>1. x \in 0..(n - 1)
      BY <1>0, <1>3
    <3> QED
      BY <1>0, <2>1, <3>1, PartitionOfHolds
  <2>3. /\ m_position' = x
        /\ switch_partition(q, x - Partition(q).begin)
        /\ ReturnElement
    BY <1>3 DEF MoveToPartition
  <2> HIDE DEF q
  <2>4. Partition(q) = Exact(q) /\ Partition(q).begin = Begin(q)
    BY <1>0, <2>1, <2>2, PartitionIsExact DEF Exact
  <2>5. /\ cur' = Exact(q)
        /\ m_partition_enum' = Open(Exact(q), x - Begin(q))
        /\ m_sizes' \in 0..(partitions - 1)
        /\ m_upper_bounds' = q + 1
    BY <1>0, <2>2, <2>3, <2>4 DEF switch_partition
  <2>6. value' = ValueIn(seq, universe, x)
    BY <1>0, <2>2, <2>3, <2>5, ElementReturned
  <2>7. /\ x \in Begin(q)..partition[q] /\ x < partition[q]
        /\ m_upper_bounds' \in 0..partitions
    <3>1. Begin(q) \in Nat /\ partition[q] \in Nat
      BY <1>0, <2>2, PartitionBounds
    <3> QED
      BY <1>0, <2>2, <2>5, <3>1
  <2>8. IInv'
    BY <1>0, <2>2, <2>3, <2>5, <2>6, <2>7, Settled
  <2> QED
    BY <2>3, <2>6, <2>8
<1> QED
  BY <1>1, <1>2, <1>3 DEF MoveTo

LEMMA NextGeqLands ==
  ASSUME IInv, UNCHANGED written,
         NEW bound \in Nat,
         NextGeq(bound)
  PROVE  LET x == FirstAtLeast(seq, bound)
         IN IInv' /\ m_position' = x /\ value' = ValueIn(seq, universe, x)
<1> DEFINE x == FirstAtLeast(seq, bound)
           p == cur.partition
<1>0. /\ DataOK /\ partitions \in Nat \ {0} /\ n \in Nat \ {0}
      /\ m_sizes \in 0..(partitions - 1) /\ m_upper_bounds \in 0..partitions
      /\ p \in 0..(partitions - 1)
      /\ partition[partitions - 1] = n
  BY DEF IInv, DataOK, PartitionOK, SequenceOK, CursorOK
<1>1. ASSUME NEW q \in 0..(partitions - 1),
             NEW k \in 0..(partition[q] - Begin(q)),
             bound \in Base(q)..Last(q),
             cur' = Exact(q),
             m_partition_enum' = Open(Exact(q), GeqIn(Exact(q), k, bound)),
             m_position' = Begin(q) + GeqIn(Exact(q), k, bound),
             m_sizes' \in 0..(partitions - 1),
             m_upper_bounds' \in 0..partitions,
             ReturnElement
      PROVE  IInv' /\ m_position' = x /\ value' = ValueIn(seq, universe, x)
  <2> DEFINE g == GeqIn(Exact(q), k, bound)
  <2>1. x = Begin(q) + g /\ x \in Begin(q)..(partition[q] - 1)
    BY <1>0, <1>1, GeqInHolds
  <2>2. Begin(q) \in Nat /\ partition[q] \in Nat
    BY <1>0, PartitionBounds
  <2>3. g \in Int
    <3>1. /\ SizeOf(Values(q)) = partition[q] - Begin(q)
          /\ DOMAIN Values(q) = 0..(partition[q] - Begin(q) - 1)
      BY <1>0, PartitionValues
    <3>2. \A i \in 0..(partition[q] - Begin(q) - 1) : Values(q)[i] \in Int
      <4>1. SUFFICES ASSUME NEW i \in 0..(partition[q] - Begin(q) - 1)
                     PROVE  seq[Begin(q) + i] - Base(q) \in Int
        BY <1>0, PartitionValues
      <4>2. Begin(q) + i \in Begin(q)..(partition[q] - 1)
        BY <2>2
      <4>3. Begin(q) + i \in 0..(n - 1) /\ Base(q) \in Int
        BY <1>0, <4>2, PartitionBounds
      <4>4. seq[Begin(q) + i] \in Int
        BY <1>0, <4>3 DEF DataOK, SequenceOK
      <4> QED
        BY <4>3, <4>4
    <3>3. partition[q] - Begin(q) \in Nat /\ bound - Base(q) \in Int
      <4>1. Base(q) \in Int /\ Begin(q) < partition[q]
        BY <1>0, PartitionBounds
      <4> QED
        BY <2>2, <4>1
    <3>4. FirstAtLeast(Values(q), bound - Base(q)) \in 0..(partition[q] - Begin(q))
      BY <3>1, <3>2, <3>3, FirstAtLeastFound
    <3>5. g \in {k, FirstAtLeast(Values(q), bound - Base(q))}
      BY DEF GeqIn, Landing, Exact
    <3> QED
      BY <3>4, <3>5
  <2> HIDE DEF x, g
  <2>4. g = x - Begin(q) /\ x \in Begin(q)..partition[q] /\ x < partition[q]
    BY <2>1, <2>2, <2>3
  <2>5. m_partition_enum' = Open(Exact(q), x - Begin(q)) /\ m_position' = x
    BY <1>1, <2>1, <2>4 DEF g
  <2>6. value' = ValueIn(seq, universe, x)
    BY <1>0, <1>1, <2>1, <2>5, ElementReturned
  <2>7. IInv'
    BY <1>0, <1>1, <2>4, <2>5, <2>6, Settled
  <2> QED
    BY <2>5, <2>6, <2>7
<1>2. CASE GeqInPartition(bound)
  <2> DEFINE k == m_partition_enum.position
  <2>1. PICK g \in {GeqIn(cur, k, bound)} :
          StayInPartition(g) /\ m_position' = cur.begin + g
    BY <1>2 DEF GeqInPartition
  <2>2. /\ cur = Exact(p) /\ cur.begin = Begin(p)
        /\ k \in 0..(partition[p] - Begin(p))
        /\ [m_partition_enum EXCEPT !.position = g] = Open(Exact(p), g)
    BY CurrentPartition
  <2>3. bound \in Base(p)..Last(p)
    BY <1>2, CurrentPartition DEF GeqInPartition, InPartition
  <2>4. g = GeqIn(Exact(p), k, bound)
    BY <2>1, <2>2
  <2>5. /\ cur' = Exact(p) /\ m_sizes' = m_sizes
        /\ m_partition_enum' = Open(Exact(p), g)
    BY <2>1, <2>2 DEF StayInPartition
  <2>6. m_upper_bounds' = m_upper_bounds /\ ReturnElement
    BY <1>2 DEF GeqInPartition
  <2>7. m_position' = Begin(p) + g
    BY <2>1, <2>2
  <2> HIDE DEF x, p, k
  <2> QED
    BY <1>0, <1>1, <2>2, <2>3, <2>4, <2>5, <2>6, <2>7 DEF x
<1>3. bound <= seq[0] => x = 0
  BY <1>0, FirstAtLeastEnds
<1>4. bound > Last(partitions - 1) => x = n
  BY <1>0, FirstAtLeastEnds
<1>5. 0 \in 0..n /\ n \in 0..n
  BY <1>0
<1>6. CASE GeqOutside(bound)
  <2>1. /\ partitions = 1 /\ ~(bound \in cur.base..cur.upper_bound)
        /\ MoveTo(IF bound < cur.base THEN 0 ELSE n, m_upper_bounds)
    BY <1>6 DEF GeqOutside, InPartition
  <2>2. /\ p = 0 /\ cur.base = seq[0] /\ cur.upper_bound = Last(0)
        /\ seq[0] \in Int /\ Last(0) \in Int
    <3>1. p = 0 /\ cur.base = Base(0) /\ cur.upper_bound = Last(0)
      BY <1>0, <2>1, CurrentPartition
    <3>2. Base(0) \in Int /\ Last(0) \in Int
      BY <1>0, <2>1, PartitionBounds
    <3> QED
      BY <1>0, <3>1, <3>2, PartitionsAdjoin
  <2>3. CASE bound < cur.base
    <3>1. x = 0
      BY <1>3, <2>2, <2>3
    <3>2. MoveTo(0, m_upper_bounds)
      BY <2>1, <2>3
    <3> HIDE DEF x
    <3> QED
      BY <1>0, <1>5, <3>1, <3>2, MoveToLands DEF x
  <2>4. CASE ~(bound < cur.base)
    <3>1. x = n
      BY <1>4, <2>1, <2>2, <2>4
    <3>2. MoveTo(n, m_upper_bounds)
      BY <2>1, <2>4
    <3> HIDE DEF x
    <3> QED
      BY <1>0, <1>5, <3>1, <3>2, MoveToLands DEF x
  <2> QED
    BY <2>3, <2>4
<1>7. CASE GeqElsewhere(bound)
  <2> DEFINE ub == UpperBoundFrom(bound)
  <2>1. /\ partitions > 1
        /\ \/ ub = 0 /\ MoveTo(0, ub)
           \/ ub = partitions + 1 /\ MoveTo(n, ub)
           \/ /\ ub \in 1..partitions
              /\ \E c \in {Partition(ub - 1)} :
                 \E k \in {GeqIn(c, c.end - c.begin, bound)} :
                   /\ switch_partition(ub - 1, k)
                   /\ m_position' = c.begin + k
              /\ ReturnElement
    BY <1>7 DEF GeqElsewhere
  <2>2. /\ ub = 0 => bound <= seq[0]
        /\ ub = partitions + 1 => bound > Last(partitions - 1)
        /\ ub \in 1..partitions => bound \in Base(ub - 1)..Last(ub - 1)
    BY <1>0, UpperBoundHolds
  <2> HIDE DEF ub
  <2>3. CASE ub = 0 /\ MoveTo(0, ub)
    <3>1. x = 0 /\ ub \in 0..partitions
      BY <1>0, <1>3, <2>2, <2>3
    <3> HIDE DEF x
    <3> QED
      BY <1>5, <2>3, <3>1, MoveToLands DEF x
  <2>4. CASE ub = partitions + 1 /\ MoveTo(n, ub)
    <3>1. x = n
      BY <1>4, <2>2, <2>4
    <3> HIDE DEF x
    <3> QED
      BY <1>5, <2>1, <2>4, <3>1, MoveToLands DEF x
  <2>5. CASE /\ ub \in 1..partitions
             /\ \E c \in {Partition(ub - 1)} :
                \E k \in {GeqIn(c, c.end - c.begin, bound)} :
                  /\ switch_partition(ub - 1, k)
                  /\ m_position' = c.begin + k
             /\ ReturnElement
    <3> DEFINE q == ub - 1
    <3>1. q \in 0..(partitions - 1) /\ q + 1 = ub
      BY <1>0, <2>5
    <3> HIDE DEF q
    <3>2. bound \in Base(q)..Last(q)
      BY <2>2, <2>5 DEF q
    <3>3. Partition(q) = Exact(q)
      BY <1>0, <2>1, <3>1, PartitionIsExact
    <3> DEFINE k == partition[q] - Begin(q)
               g == GeqIn(Exact(q), k, bound)
    <3>4. Exact(q).end - Exact(q).begin = k /\ Exact(q).begin = Begin(q)
      BY DEF Exact
    <3>5. switch_partition(q, g) /\ m_position' = Begin(q) + g
      BY <2>5, <3>3, <3>4 DEF q
    <3>6. k \in 0..k
      BY <1>0, <3>1, PartitionBounds
    <3> HIDE DEF g
    <3>7. /\ cur' = Exact(q)
          /\ m_partition_enum' = Open(Exact(q), g)
          /\ m_sizes' \in 0..(partitions - 1)
          /\ m_upper_bounds' = q + 1
      BY <1>0, <3>1, <3>3, <3>5 DEF switch_partition
    <3>8. m_upper_bounds' \in 0..partitions
      BY <1>0, <2>5, <3>1, <3>7
    <3> HIDE DEF x
    <3> QED
      BY <1>1, <2>5, <3>1, <3>2, <3>5, <3>6, <3>7, <3>8 DEF g, x
  <2> QED
    BY <2>1, <2>3, <2>4, <2>5
<1> QED
  BY <1>2, <1>6, <1>7 DEF NextGeq

LEMMA NextLands ==
  ASSUME IInv, UNCHANGED written, Next
  PROVE  LET x == m_position + 1
         IN IInv' /\ m_position' = x /\ value' = ValueIn(seq, universe, x)
<1> DEFINE x == m_position + 1
           p == cur.partition
<1>0. /\ DataOK /\ partitions \in Nat \ {0} /\ n \in Nat \ {0}
      /\ m_sizes \in 0..(partitions - 1) /\ m_upper_bounds \in 0..partitions
      /\ p \in 0..(partitions - 1)
      /\ partition[partitions - 1] = n
      /\ m_position \in 0..n /\ m_position < n
  BY DEF IInv, DataOK, PartitionOK, SequenceOK, CursorOK, Next
<1>1. /\ m_position' = x
      /\ NextInPartition \/ NextAtEnd \/ NextPartition
  BY DEF Next
<1>2. /\ Begin(p) \in Nat /\ partition[p] \in Nat /\ partition[p] <= n
      /\ cur.end = partition[p] /\ cur.begin = Begin(p)
      /\ Begin(p) <= m_position /\ m_position < partition[p]
  <2>1. Begin(p) \in Nat /\ partition[p] \in Nat /\ partition[p] <= n
    BY <1>0, PartitionBounds
  <2>2. cur.end = partition[p] /\ cur.begin = Begin(p)
    BY CurrentPartition
  <2>3. Begin(p) <= m_position /\ m_position < partition[p]
    BY <1>0, <2>2 DEF IInv, CursorOK
  <2> QED
    BY <2>1, <2>2, <2>3
<1>3. ASSUME StayInPartition(m_partition_enum.position + 1)
      PROVE  /\ cur' = Exact(p) /\ m_sizes' \in 0..(partitions - 1)
             /\ m_partition_enum' = Open(Exact(p), x - Begin(p))
  <2>1. m_partition_enum.position + 1 = x - Begin(p)
    <3>1. m_partition_enum.position = m_position - Begin(p)
      BY CurrentPartition
    <3> QED
      BY <1>0, <1>2, <3>1
  <2>2. m_partition_enum' = Open(Exact(p), m_partition_enum.position + 1)
    BY <1>3, CurrentPartition DEF StayInPartition
  <2>3. cur' = Exact(p) /\ m_sizes' = m_sizes
    BY <1>3, CurrentPartition DEF StayInPartition
  <2> HIDE DEF x
  <2> QED
    BY <1>0, <2>1, <2>2, <2>3
<1>4. CASE NextInPartition
  <2>1. /\ x < cur.end /\ StayInPartition(m_partition_enum.position + 1)
        /\ m_upper_bounds' = m_upper_bounds /\ ReturnElement
    BY <1>4 DEF NextInPartition
  <2>2. /\ x \in Begin(p)..(partition[p] - 1) /\ x \in Begin(p)..partition[p]
        /\ x < partition[p]
    BY <1>0, <1>2, <2>1
  <2> HIDE DEF x, p
  <2>3. value' = ValueIn(seq, universe, x)
    BY <1>0, <1>3, <2>1, <2>2, ElementReturned
  <2>4. IInv'
    BY <1>0, <1>1, <1>3, <2>1, <2>2, <2>3, Settled
  <2> QED
    BY <1>1, <2>3, <2>4 DEF x
<1>5. CASE NextAtEnd
  <2>1. /\ x >= cur.end /\ x = n /\ StayInPartition(m_partition_enum.position + 1)
        /\ m_upper_bounds' = m_upper_bounds /\ value' = universe
    BY <1>5 DEF NextAtEnd
  <2>2. x = partition[p] /\ x \in Begin(p)..partition[p]
    BY <1>0, <1>2, <2>1
  <2>3. p = partitions - 1
    <3>1. SUFFICES ASSUME p # partitions - 1 PROVE FALSE
      OBVIOUS
    <3>2. partition[p] < partition[partitions - 1]
      BY <1>0, <3>1 DEF DataOK, PartitionOK, Ascending
    <3> QED
      BY <1>0, <1>2, <2>1, <2>2, <3>2
  <2>4. value' = ValueIn(seq, universe, x)
    BY <2>1 DEF ValueIn, n
  <2> HIDE DEF x, p
  <2>5. IInv'
    BY <1>0, <1>1, <1>3, <2>1, <2>2, <2>3, <2>4, Settled
  <2> QED
    BY <1>1, <2>4, <2>5 DEF x
<1>6. CASE NextPartition
  <2>1. /\ x >= cur.end /\ x # n
        /\ switch_partition(p + 1, 0)
        /\ ReturnElement
    BY <1>6 DEF NextPartition
  <2>2. x = partition[p]
    BY <1>0, <1>2, <2>1
  <2> DEFINE q == p + 1
  <2>3. p # partitions - 1
    BY <1>0, <2>1, <2>2
  <2>4. q \in 0..(partitions - 1) /\ partitions > 1 /\ q + 1 \in 0..partitions
    BY <1>0, <2>3
  <2>5. Begin(q) = x
    BY <1>0, <2>2, <2>3, PartitionsAdjoin
  <2> HIDE DEF q
  <2>6. Partition(q) = Exact(q)
    BY <1>0, <2>4, PartitionIsExact
  <2>7. /\ x \in Begin(q)..(partition[q] - 1) /\ x \in Begin(q)..partition[q]
        /\ x < partition[q] /\ x - Begin(q) = 0
    <3>1. Begin(q) \in Nat /\ partition[q] \in Nat /\ Begin(q) < partition[q]
      BY <1>0, <2>4, PartitionBounds
    <3> HIDE DEF x
    <3> QED
      BY <2>5, <3>1
  <2>8. /\ cur' = Exact(q)
        /\ m_partition_enum' = Open(Exact(q), x - Begin(q))
        /\ m_sizes' \in 0..(partitions - 1)
        /\ m_upper_bounds' \in 0..partitions
    BY <1>0, <2>1, <2>4, <2>6, <2>7 DEF switch_partition, q
  <2> HIDE DEF x
  <2>9. value' = ValueIn(seq, universe, x)
    BY <1>0, <2>1, <2>4, <2>7, <2>8, ElementReturned
  <2>10. IInv'
    BY <1>1, <2>4, <2>7, <2>8, <2>9, Settled
  <2> QED
    BY <1>1, <2>9, <2>10 DEF x
<1> QED
  BY <1>1, <1>4, <1>5, <1>6

-----------------------------------------------------------------------------
(* The initial states *)

\* The uniform layout cuts the sequence into partitions, and the number of the
\* partition of a position is its quotient.
LEMMA UniformCutIsCut ==
  ASSUME NEW len \in Nat \ {0}, NEW size \in Nat \ {0}
  PROVE  LET cut == UniformCut(len, size)
             k == (len + size - 1) \div size
         IN /\ k \in Nat \ {0}
            /\ cut \in [0..(k - 1) -> 1..len]
            /\ cut[k - 1] = len
            /\ Ascending(cut, k)
            /\ \A p \in 0..(k - 1) :
                 /\ cut[p] = Smaller(len, (p + 1) * size)
                 /\ p # 0 => cut[p - 1] = p * size
            /\ \A x \in 0..(len - 1) : x \div size \in 0..(k - 1)
<1> DEFINE cut == UniformCut(len, size)
           k == (len + size - 1) \div size
<1>1. /\ k \in Nat /\ k * size <= len + size - 1
      /\ len + size - 1 < (k + 1) * size
  OBVIOUS
<1>2. cut = [p \in 0..(k - 1) |-> Smaller(len, (p + 1) * size)]
  BY DEF UniformCut
<1> HIDE DEF k, cut
<1>3. (k + 1) * size = k * size + size /\ k * size \in Nat
  BY <1>1
<1>4. k * size >= len
  BY <1>1, <1>3
<1>5. k # 0
  BY <1>4
<1>6. (k - 1) * size = k * size - size
  BY <1>1
<1>7. k \in Nat \ {0} /\ k - 1 \in Nat /\ (k - 1) * size < len
  BY <1>1, <1>3, <1>5, <1>6
<1>8. ASSUME NEW p \in 0..(k - 1)
      PROVE  p * size \in Nat /\ p * size < len
  <2>1. p \in Nat /\ p <= k - 1
    BY <1>7
  <2>2. p * size <= (k - 1) * size
    BY <1>7, <2>1, TimesMonotone
  <2>3. p * size \in Nat /\ (k - 1) * size \in Nat
    BY <1>7, <2>1
  <2> QED
    BY <1>7, <2>2, <2>3
<1>9. ASSUME NEW p \in 0..(k - 1)
      PROVE  /\ cut[p] = Smaller(len, (p + 1) * size)
             /\ cut[p] \in 1..len
             /\ p # 0 => cut[p - 1] = p * size
  <2>1. cut[p] = Smaller(len, (p + 1) * size)
    BY <1>2
  <2>2. (p + 1) * size = p * size + size /\ p * size \in Nat
    BY <1>7, <1>8
  <2>3. cut[p] \in 1..len
    <3> DEFINE next == (p + 1) * size
    <3>1. next \in Nat \ {0} /\ cut[p] = Smaller(len, next)
      BY <2>1, <2>2
    <3> HIDE DEF next
    <3> QED
      BY <3>1 DEF Smaller
  <2>4. ASSUME p # 0 PROVE cut[p - 1] = p * size
    <3>1. p - 1 \in 0..(k - 1) /\ (p - 1) + 1 = p
      BY <1>7, <2>4
    <3>2. cut[p - 1] = Smaller(len, p * size)
      BY <1>2, <3>1
    <3> QED
      BY <1>8, <3>2 DEF Smaller
  <2> QED
    BY <2>1, <2>3, <2>4
<1>10. cut[k - 1] = len
  <2>1. k - 1 \in 0..(k - 1) /\ (k - 1) + 1 = k
    BY <1>7
  <2>2. cut[k - 1] = Smaller(len, k * size)
    BY <1>9, <2>1
  <2> QED
    BY <1>3, <1>4, <2>2 DEF Smaller
<1>11. ASSUME NEW i \in 0..(k - 1), NEW j \in 0..(k - 1), i < j
       PROVE  cut[i] < cut[j]
  <2>1. j # 0 /\ i + 1 \in 0..(k - 1) /\ i + 1 <= j
    BY <1>7, <1>11
  <2>2. cut[i] = (i + 1) * size
    <3>1. i + 1 # 0 /\ (i + 1) - 1 = i
      BY <1>7
    <3> QED
      BY <1>9, <2>1, <3>1
  <2>3. (i + 1) * size <= j * size
    BY <1>7, <2>1, TimesMonotone
  <2>4. (j + 1) * size = j * size + size /\ j * size \in Nat /\ j * size < len
    BY <1>7, <1>8
  <2>5. j * size < Smaller(len, (j + 1) * size)
    BY <2>4 DEF Smaller
  <2>6. cut[j] = Smaller(len, (j + 1) * size) /\ cut[j] \in Nat /\ cut[i] \in Nat
    BY <1>9
  <2> QED
    BY <2>2, <2>3, <2>4, <2>5, <2>6
<1>12. ASSUME NEW x \in 0..(len - 1) PROVE x \div size \in 0..(k - 1)
  <2> DEFINE q == x \div size
  <2>1. q \in Nat /\ q * size <= x
    OBVIOUS
  <2> HIDE DEF q
  <2>2. ~(k <= q)
    <3>1. SUFFICES ASSUME k <= q PROVE FALSE
      OBVIOUS
    <3>2. k * size <= q * size
      BY <1>7, <2>1, <3>1, TimesMonotone
    <3>3. q * size \in Nat
      BY <2>1
    <3> QED
      BY <1>3, <1>4, <2>1, <3>2, <3>3
  <2>3. q \in 0..(k - 1)
    BY <1>7, <2>1, <2>2
  <2> QED
    BY <2>3 DEF q
<1>13. cut \in [0..(k - 1) -> 1..len]
  BY <1>2, <1>9
<1> QED
  BY <1>7, <1>9, <1>10, <1>11, <1>12, <1>13 DEF Ascending, k, cut

LEMMA InitEstablishes ==
  ASSUME IntsSuffice, Init
  PROVE  IInv
<1>1. PICK u \in Universes, len \in Lengths :
        /\ universe = u
        /\ seq \in [0..(len - 1) -> 0..(u - 1)] /\ Ascending(seq, len)
        /\ \/ uniform = 0 /\ partition \in Cuts(len)
           \/ uniform \in PartitionSizes /\ partition = UniformCut(len, uniform)
  BY DEF Init
<1>2. len \in Nat \ {0} /\ u \in Nat /\ u <= IntLimit
  BY SizesAssumption DEF SizesAssumption, IntsSuffice
<1>3. n = len
  BY <1>1, <1>2, SizeOfSequence DEF n
<1>4. SequenceOK
  BY <1>1, <1>2, <1>3 DEF SequenceOK
<1>5. PartitionOK /\ UniformOK
  <2>1. CASE uniform = 0 /\ partition \in Cuts(len)
    <3>1. PICK k \in 1..len :
            /\ partition \in [0..(k - 1) -> 1..len]
            /\ partition[k - 1] = len /\ Ascending(partition, k)
      BY <2>1, Zenon DEF Cuts
    <3>2. k \in Nat \ {0}
      BY <1>2
    <3>3. partitions = k
      BY <3>1, <3>2, SizeOfSequence DEF partitions
    <3> QED
      BY <1>3, <2>1, <3>1, <3>2, <3>3 DEF PartitionOK, UniformOK
  <2>2. CASE uniform \in PartitionSizes /\ partition = UniformCut(len, uniform)
    <3> DEFINE k == (len + uniform - 1) \div uniform
    <3>1. uniform \in Nat \ {0}
      BY <2>2, SizesAssumption DEF SizesAssumption
    <3> DEFINE c == UniformCut(len, uniform)
    <3>8. /\ k \in Nat \ {0}
          /\ c \in [0..(k - 1) -> 1..len]
          /\ c[k - 1] = len
          /\ Ascending(c, k)
          /\ \A p \in 0..(k - 1) :
               /\ c[p] = Smaller(len, (p + 1) * uniform)
               /\ p # 0 => c[p - 1] = p * uniform
          /\ \A x \in 0..(len - 1) : x \div uniform \in 0..(k - 1)
      BY <1>2, <3>1, UniformCutIsCut, Zenon
    <3> HIDE DEF k, c
    <3>2. /\ k \in Nat \ {0}
          /\ partition \in [0..(k - 1) -> 1..len]
          /\ partition[k - 1] = len
          /\ Ascending(partition, k)
          /\ \A p \in 0..(k - 1) :
               /\ partition[p] = Smaller(len, (p + 1) * uniform)
               /\ p # 0 => partition[p - 1] = p * uniform
          /\ \A x \in 0..(len - 1) : x \div uniform \in 0..(k - 1)
      BY <2>2, <3>8 DEF c
    <3> HIDE DEF k
    <3>3. partitions = k
      BY <3>2, SizeOfSequence DEF partitions
    <3>4. ASSUME NEW p \in 0..(k - 1)
          PROVE  UniformEnds(p) = [begin |-> Begin(p), end |-> partition[p]]
      <4>1. Begin(p) = p * uniform
        <5>1. CASE p = 0
          BY <3>1, <5>1 DEF Begin, ValueBefore
        <5>2. CASE p # 0
          BY <3>2, <5>2 DEF Begin, ValueBefore
        <5> QED
          BY <5>1, <5>2
      <4>2. partition[p] = Smaller(n, (p + 1) * uniform)
        BY <1>3, <3>2
      <4> QED
        BY <4>1, <4>2 DEF UniformEnds
    <3> QED
      BY <1>3, <3>1, <3>2, <3>3, <3>4 DEF PartitionOK, UniformOK
  <2> QED
    BY <1>1, <2>1, <2>2
<1>6. DataOK
  BY <1>4, <1>5 DEF DataOK
<1> DEFINE last == partitions - 1
<1>7. /\ partitions \in Nat \ {0} /\ n \in Nat \ {0} /\ partition[last] = n
      /\ last \in 0..last /\ partitions \in 0..partitions
  BY <1>4, <1>5 DEF PartitionOK, SequenceOK
<1>8. /\ cur = Exact(last) /\ m_position = n /\ m_sizes = last
      /\ m_upper_bounds = partitions /\ value = universe
      /\ m_partition_enum = Open(cur, cur.end - cur.begin)
  BY <1>6, AtEndIsExact DEF Init
<1>9. cur.partition = last /\ cur.end = n /\ cur.begin = Begin(last)
  BY <1>7, <1>8 DEF Exact
<1>10. Begin(last) \in 0..(n - 1)
  BY <1>6, <1>7, PartitionBounds
<1>11. value = ValueIn(seq, universe, m_position)
  BY <1>8 DEF ValueIn, n
<1> HIDE DEF last
<1>12. n \in 0..n /\ n >= Begin(last)
  BY <1>7, <1>10
<1>13. CursorOK
  BY <1>7, <1>8, <1>9, <1>11, <1>12 DEF CursorOK, last
<1> QED
  BY <1>6, <1>13 DEF IInv

-----------------------------------------------------------------------------
(* The theorems *)

LEMMA StepPreserves ==
  ASSUME IInv, [Step]_vars
  PROVE  IInv'
<1>1. ASSUME NEW x \in 0..n, Move(x) PROVE IInv'
  <2>1. UNCHANGED written /\ MoveTo(x, m_upper_bounds)
    BY <1>1 DEF Move
  <2>2. m_upper_bounds \in 0..partitions
    BY DEF IInv, CursorOK
  <2> QED
    BY <2>1, <2>2, MoveToLands
<1>2. ASSUME NEW bound \in 0..(universe + Beyond), NextGeq(bound) PROVE IInv'
  <2>1. UNCHANGED written /\ bound \in Nat
    BY <1>2 DEF NextGeq
  <2> QED
    BY <1>2, <2>1, NextGeqLands
<1>3. CASE Next
  <2>1. UNCHANGED written
    BY <1>3 DEF Next
  <2> QED
    BY <1>3, <2>1, NextLands
<1>4. CASE UNCHANGED vars
  BY <1>4 DEF vars, IInv, DataOK, SequenceOK, PartitionOK, UniformOK, UniformEnds,
              CursorOK, Exact, Ascending, Begin, Base, Last, n, partitions, SizeOf
<1> QED
  BY <1>1, <1>2, <1>3, <1>4 DEF Step

\* After any sequence of calls the cursor is in a partition as it was written,
\* its position lies in it, and the inner enumerators are where it needs them.
THEOREM Invariance ==
  ASSUME IntsSuffice
  PROVE  Spec => []IInv
<1>1. Init => IInv
  BY InitEstablishes
<1>2. IInv /\ [Step]_vars => IInv'
  BY StepPreserves
<1> QED
  BY <1>1, <1>2, PTL DEF Spec

\* partitioned_sequence::enumerator and uniform_partitioned_sequence::enumerator
\* do what an enumerator of the index promises: every call leads where it
\* leads on the sequence itself, whatever its partitions.
THEOREM Refinement ==
  ASSUME IntsSuffice
  PROVE  Spec => RefinesSequenceEnumerator
<1>0. /\ \A s : Abstract!SizeOf(s) = SizeOf(s)
      /\ \A s, u, p : Abstract!ValueIn(s, u, p) = ValueIn(s, u, p)
      /\ \A s, u, p, b : Abstract!Landing(s, u, p, b) = Landing(s, u, p, b)
  <2>1. \A s : Abstract!SizeOf(s) = SizeOf(s)
    BY DEF Abstract!SizeOf, SizeOf, Abstract!Cardinality, Cardinality
  <2>2. \A s, u, p : Abstract!ValueIn(s, u, p) = ValueIn(s, u, p)
    BY <2>1 DEF Abstract!ValueIn, ValueIn
  <2>3. \A s, b : Abstract!FirstAtLeast(s, b) = FirstAtLeast(s, b)
    BY DEF Abstract!FirstAtLeast, FirstAtLeast, Abstract!SizeOf, SizeOf,
           Abstract!Cardinality, Cardinality
  <2> QED
    BY <2>1, <2>2, <2>3 DEF Abstract!Landing, Landing
<1>1. Init => Abstract!Init
  <2>1. SUFFICES ASSUME Init PROVE Abstract!Init
    OBVIOUS
  <2>2. m_position = SizeOf(seq) /\ value = universe /\ call = <<"new", 0>>
    BY <2>1 DEF Init, n
  <2> QED
    BY <1>0, <2>2 DEF Abstract!Init, Abstract!size, ValueIn
<1>2. IInv /\ [Step]_vars => [Abstract!Step]_(Abstract!vars)
  <2>1. SUFFICES ASSUME IInv, [Step]_vars
                 PROVE  Abstract!Step \/ UNCHANGED Abstract!vars
    BY Zenon
  <2>2. ASSUME NEW x \in 0..n, Move(x) PROVE Abstract!Step
    <3>1. /\ UNCHANGED written /\ MoveTo(x, m_upper_bounds)
          /\ call' = <<"move", x>>
      BY <2>2 DEF Move
    <3>2. m_upper_bounds \in 0..partitions
      BY <2>1 DEF IInv, CursorOK
    <3>3. m_position' = x /\ value' = ValueIn(seq, universe, x)
      BY <2>1, <3>1, <3>2, MoveToLands
    <3>4. Abstract!Move(x)
      BY <1>0, <3>1, <3>3 DEF Abstract!Move, Abstract!LandAt, written
    <3> QED
      BY <1>0, <3>4 DEF Abstract!Step, Abstract!size, n
  <2>3. ASSUME NEW bound \in 0..(universe + Beyond), NextGeq(bound)
        PROVE  Abstract!Step
    <3>1. UNCHANGED written /\ call' = <<"next_geq", bound>> /\ bound \in Nat
      BY <2>3 DEF NextGeq
    <3>2. /\ m_position' = FirstAtLeast(seq, bound)
          /\ value' = ValueIn(seq, universe, FirstAtLeast(seq, bound))
      BY <2>1, <2>3, <3>1, NextGeqLands
    <3>3. Landing(seq, universe, m_position, bound) = FirstAtLeast(seq, bound)
      <4>1. /\ n \in Nat /\ DOMAIN seq = 0..(n - 1) /\ universe \in Int
            /\ \A i \in 0..(n - 1) : seq[i] \in Int /\ seq[i] < universe
            /\ \A i, j \in 0..(n - 1) : i < j => seq[i] < seq[j]
            /\ m_position \in 0..n /\ bound \in Int
        BY <2>1, <3>1 DEF IInv, DataOK, SequenceOK, CursorOK, Ascending
      <4> QED
        BY <4>1, LandingIsFirst
    <3>4. Abstract!NextGeq(bound)
      BY <1>0, <3>1, <3>2, <3>3 DEF Abstract!NextGeq, Abstract!LandAt, written
    <3> QED
      BY <3>4 DEF Abstract!Step
  <2>4. CASE Next
    <3>1. UNCHANGED written /\ m_position < n /\ call' = <<"next", 0>>
      BY <2>4 DEF Next
    <3>2. /\ m_position' = m_position + 1
          /\ value' = ValueIn(seq, universe, m_position + 1)
      BY <2>1, <2>4, <3>1, NextLands
    <3>3. Abstract!Next
      BY <1>0, <3>1, <3>2 DEF Abstract!Next, Abstract!LandAt, Abstract!size, n, written
    <3> QED
      BY <3>3 DEF Abstract!Step
  <2>5. CASE UNCHANGED vars
    BY <2>5 DEF vars, Abstract!vars
  <2> QED
    BY <2>1, <2>2, <2>3, <2>4, <2>5 DEF Step
<1> QED
  BY <1>1, <1>2, Invariance, PTL DEF Spec, RefinesSequenceEnumerator, Abstract!Spec

LEMMA IInvImplies ==
  ASSUME IInv
  PROVE  /\ TypeOK /\ OpenedAsWritten /\ EnumeratorsInStep
         /\ PrevValueIsPredecessor /\ UpperBoundsOnElement /\ NextGeqSettles
<1> DEFINE p == cur.partition
           k == m_position - Begin(p)
<1>0. /\ DataOK /\ partitions \in Nat \ {0} /\ n \in Nat \ {0}
      /\ p \in 0..(partitions - 1) /\ m_position \in 0..n
      /\ m_sizes \in 0..(partitions - 1) /\ m_upper_bounds \in 0..partitions
      /\ DOMAIN seq = 0..(n - 1) /\ DOMAIN partition = 0..(partitions - 1)
  BY DEF IInv, DataOK, PartitionOK, SequenceOK, CursorOK
<1>1. /\ m_partition_enum = Open(cur, k)
      /\ cur = Exact(p)
      /\ cur.begin = Begin(p) /\ cur.end = partition[p]
      /\ cur.base = Base(p) /\ cur.upper_bound = Last(p)
      /\ m_partition_enum.size = partition[p] - Begin(p)
      /\ m_partition_enum.position = k
      /\ m_position \in Begin(p)..partition[p]
      /\ k \in 0..(partition[p] - Begin(p))
  <2>1. m_partition_enum = Open(cur, m_position - cur.begin)
    BY DEF IInv, CursorOK
  <2> QED
    BY <2>1, CurrentPartition
<1>2. /\ Begin(p) \in Nat /\ partition[p] \in Nat /\ partition[p] <= n
      /\ Base(p) \in Int /\ Begin(p) < partition[p]
  BY <1>0, PartitionBounds, SMTT(30)
<1>3. m_position < n => m_position < partition[p]
  BY <1>1 DEF IInv, CursorOK
<1>4. m_partition_enum.partition = p
  BY <1>1 DEF Open, Exact
<1>5. TypeOK
  <2>1. value \in 0..universe
    <3>1. value = ValueIn(seq, universe, m_position) /\ universe \in Nat
          /\ seq \in [0..(n - 1) -> 0..(universe - 1)]
      BY DEF IInv, CursorOK, DataOK, SequenceOK
    <3>2. CASE m_position = n
      BY <3>1, <3>2 DEF ValueIn, n
    <3>3. CASE m_position # n
      <4>1. m_position \in 0..(n - 1) /\ value = seq[m_position]
        BY <1>0, <3>1, <3>3 DEF ValueIn, n
      <4> QED
        BY <3>1, <4>1
    <3> QED
      BY <3>2, <3>3
  <2>2. m_partition_enum.position \in 0..m_partition_enum.size
    BY <1>1
  <2> QED
    BY <1>0, <2>1, <2>2 DEF TypeOK
<1>6. OpenedAsWritten
  <2>1. m_partition_enum.universe = Last(p) - Base(p) + 1
    BY <1>1 DEF Open
  <2> QED
    BY <1>1, <1>4, <2>1 DEF OpenedAsWritten, Universe
<1>7. EnumeratorsInStep
  <2>1. m_position = Begin(p) + k
    BY <1>0, <1>2
  <2> QED
    BY <1>1, <1>3, <1>4, <2>1 DEF EnumeratorsInStep
<1>8. PrevValueIsPredecessor
  <2>1. CASE m_position = Begin(p)
    <3>1. CASE p = 0
      <4>1. m_position = 0
        BY <1>0, <2>1, <3>1, PartitionsAdjoin
      <4> QED
        BY <1>1, <2>1, <3>1, <4>1 DEF PrevValueIsPredecessor, prev_value, ValueBefore
    <3>2. CASE p # 0
      <4>1. /\ Base(p) = seq[Begin(p) - 1] + 1
            /\ Begin(p) = partition[p - 1] /\ p - 1 \in 0..(partitions - 1)
        BY <1>0, <3>2 DEF Base, Last, Begin, ValueBefore
      <4>2. m_position # 0
        BY <1>0, <2>1, <4>1, PartitionBounds
      <4>3. seq[m_position - 1] \in Int
        <5>1. m_position - 1 \in 0..(n - 1)
          BY <1>0, <4>2
        <5> QED
          BY <1>0, <5>1 DEF DataOK, SequenceOK
      <4>4. Base(p) - 1 = seq[m_position - 1]
        BY <2>1, <4>1, <4>3
      <4> QED
        BY <1>1, <2>1, <3>2, <4>2, <4>4
           DEF PrevValueIsPredecessor, prev_value, ValueBefore
    <3> QED
      BY <3>1, <3>2
  <2>2. CASE m_position # Begin(p)
    <3>1. /\ k # 0 /\ k - 1 \in 0..(partition[p] - Begin(p) - 1)
          /\ Begin(p) + (k - 1) = m_position - 1 /\ m_position # 0
          /\ m_position - 1 \in 0..(n - 1)
      <4>1. /\ m_position \in Nat /\ m_position > Begin(p)
            /\ m_position <= partition[p]
        BY <1>1, <1>2, <2>2
      <4>2. m_position # 0 /\ m_position - 1 \in 0..(n - 1)
        BY <1>0, <1>2, <4>1
      <4>3. k # 0 /\ k - 1 \in 0..(partition[p] - Begin(p) - 1)
        BY <1>2, <4>1
      <4>4. Begin(p) + (k - 1) = m_position - 1
        BY <1>2, <4>1
      <4> QED
        BY <4>2, <4>3, <4>4
    <3>2. seq[m_position - 1] \in Int
      BY <1>0, <3>1 DEF DataOK, SequenceOK
    <3> HIDE DEF k
    <3>3. Values(p)[k - 1] = seq[m_position - 1] - Base(p)
      BY <1>0, <3>1, PartitionValues
    <3>4. Base(p) + Values(p)[k - 1] = seq[m_position - 1]
      <4> DEFINE v == seq[m_position - 1]
      <4>1. v \in Int /\ Values(p)[k - 1] = v - Base(p)
        BY <3>2, <3>3
      <4> HIDE DEF v
      <4>2. Base(p) + Values(p)[k - 1] = v
        BY <1>2, <4>1
      <4> QED
        BY <4>2 DEF v
    <3>5. prev_value = Base(p) + Values(p)[k - 1]
      BY <1>1, <2>2, <3>1 DEF prev_value, ValueBefore
    <3> QED
      BY <3>1, <3>4, <3>5 DEF PrevValueIsPredecessor, ValueBefore
  <2> QED
    BY <2>1, <2>2
<1>9. UpperBoundsOnElement
  BY <1>0 DEF UpperBoundsOnElement
<1>10. NextGeqSettles
  <2>1. SUFFICES ASSUME partitions > 1,
                        NEW bound \in 0..(universe + Beyond),
                        UpperBoundFrom(bound) \in 1..partitions
                 PROVE  InPartition(Partition(UpperBoundFrom(bound) - 1), bound)
    BY DEF NextGeqSettles
  <2> DEFINE q == UpperBoundFrom(bound) - 1
  <2>2. bound \in Base(q)..Last(q)
    BY <1>0, <2>1, UpperBoundHolds
  <2>3. q \in 0..(partitions - 1)
    BY <1>0, <2>1
  <2> HIDE DEF q
  <2>4. Partition(q) = Exact(q)
    BY <1>0, <2>1, <2>3, PartitionIsExact
  <2>5. InPartition(Partition(q), bound)
    BY <2>2, <2>4 DEF InPartition, Exact
  <2> QED
    BY <2>5 DEF q
<1> QED
  BY <1>5, <1>6, <1>7, <1>8, <1>9, <1>10

\* The members keep their types.
THEOREM TypeCorrect ==
  ASSUME IntsSuffice
  PROVE  Spec => []TypeOK
BY Invariance, IInvImplies, PTL

\* Every partition is opened with the universe and the length it was written
\* with, in both layouts.
THEOREM Opened ==
  ASSUME IntsSuffice
  PROVE  Spec => []OpenedAsWritten
BY Invariance, IInvImplies, PTL

\* The position of the whole and of the partition's enumerator agree.
THEOREM InStep ==
  ASSUME IntsSuffice
  PROVE  Spec => []EnumeratorsInStep
BY Invariance, IInvImplies, PTL

\* prev_value() is the value before the cursor.
THEOREM Predecessor ==
  ASSUME IntsSuffice
  PROVE  Spec => []PrevValueIsPredecessor
BY Invariance, IInvImplies, PTL

\* The enumerator of the upper bounds never stays at its end.
THEOREM OnElement ==
  ASSUME IntsSuffice
  PROVE  Spec => []UpperBoundsOnElement
BY Invariance, IInvImplies, PTL

\* The recursion of next_geq and slow_next_geq ends after one switch.
THEOREM Settles ==
  ASSUME IntsSuffice
  PROVE  Spec => []NextGeqSettles
BY Invariance, IInvImplies, PTL

-----------------------------------------------------------------------------
(* The cut that optimal_partition chooses *)

\* A fold over the elements of D, from base on: pick says which element of a set
\* is taken last, step where a value and an element lead.
Folding(D, Goods, base, pick, step) ==
  /\ IsFiniteSet(D) /\ base \in Goods
  /\ \A S \in SUBSET D : S # {} => pick[S] \in S
  /\ \A a \in Goods, x \in D : step[a][x] \in Goods

TableOf(fold, D, base, pick, step) ==
  /\ fold[{}] = base
  /\ \A S \in SUBSET D : S # {} =>
       fold[S] = step[fold[S \ {pick[S]}]][pick[S]]

\* It has a table of its values, set by set, as long as every step from a good
\* value leads to a good one.
LEMMA FoldExists ==
  ASSUME NEW D, NEW Goods, NEW base, NEW pick, NEW step,
         Folding(D, Goods, base, pick, step)
  PROVE  \E fold \in [SUBSET D -> Goods] : TableOf(fold, D, base, pick, step)
<1>0. /\ IsFiniteSet(D) /\ base \in Goods
      /\ \A S \in SUBSET D : S # {} => pick[S] \in S
      /\ \A a \in Goods, x \in D : step[a][x] \in Goods
  BY DEF Folding
<1> DEFINE Small(k) == {S \in SUBSET D : Cardinality(S) <= k}
           Partial(k, fold) ==
             /\ fold[{}] = base
             /\ \A S \in Small(k) : S # {} =>
                  fold[S] = step[fold[S \ {pick[S]}]][pick[S]]
           Some(k) == \E fold \in [SUBSET D -> Goods] : Partial(k, fold)
           Bad == {k \in Nat : ~Some(k)}
<1>1. \A S \in SUBSET D : IsFiniteSet(S) /\ Cardinality(S) \in Nat
                          /\ Cardinality(S) <= Cardinality(D)
  BY <1>0, FS_Subset, FS_CardinalityType
<1>2. \A S \in SUBSET D : S # {} =>
        /\ pick[S] \in D /\ S \ {pick[S]} \in SUBSET D
        /\ Cardinality(S \ {pick[S]}) = Cardinality(S) - 1
  BY <1>0, <1>1, FS_RemoveElement
<1>3. Some(0)
  <2> DEFINE none == [S \in SUBSET D |-> base]
  <2>1. \A S \in Small(0) : S = {}
    BY <1>1, FS_EmptySet
  <2>2. Partial(0, none) /\ none \in [SUBSET D -> Goods]
    BY <1>0, <2>1
  <2> HIDE DEF Partial, none
  <2> QED
    BY <2>2
<1>4. ASSUME NEW k \in Nat, Some(k) PROVE Some(k + 1)
  <2>1. PICK fold \in [SUBSET D -> Goods] : Partial(k, fold)
    BY <1>4
  <2> DEFINE more == [S \in SUBSET D |->
               IF S = {} THEN base ELSE step[fold[S \ {pick[S]}]][pick[S]]]
  <2>2. /\ more[{}] = base
        /\ \A S \in SUBSET D : S # {} =>
             more[S] = step[fold[S \ {pick[S]}]][pick[S]]
    OBVIOUS
  <2> HIDE DEF more
  <2>3. \A S \in Small(k) : more[S] = fold[S]
    BY <2>1, <2>2
  <2>4. Partial(k + 1, more)
    <3> SUFFICES ASSUME NEW S \in Small(k + 1), S # {}
                 PROVE  more[S] = step[more[S \ {pick[S]}]][pick[S]]
      BY <2>2
    <3>1. S \ {pick[S]} \in Small(k)
      BY <1>1, <1>2
    <3>2. more[S \ {pick[S]}] = fold[S \ {pick[S]}]
      BY <2>3, <3>1
    <3> QED
      BY <2>2, <3>2
  <2>5. more \in [SUBSET D -> Goods]
    <3>0. more = [S \in SUBSET D |-> more[S]]
      BY DEF more
    <3> SUFFICES ASSUME NEW S \in SUBSET D PROVE more[S] \in Goods
      BY <3>0
    <3>1. CASE S = {}
      BY <1>0, <2>2, <3>1
    <3>2. CASE S # {}
      <4>1. pick[S] \in D /\ fold[S \ {pick[S]}] \in Goods
        BY <1>2, <2>1, <3>2
      <4>2. step[fold[S \ {pick[S]}]][pick[S]] \in Goods
        BY <1>0, <4>1
      <4> QED
        BY <2>2, <3>2, <4>2
    <3> QED
      BY <3>1, <3>2
  <2> HIDE DEF Partial
  <2> QED
    BY <2>4, <2>5
<1>5. Bad = {}
  <2> SUFFICES ASSUME Bad # {} PROVE FALSE
    OBVIOUS
  <2> HIDE DEF Some
  <2>1. PICK k \in Bad : \A m \in Bad : k <= m
    BY LeastElement
  <2>2. k # 0 /\ k - 1 \in Nat /\ ~(k - 1 \in Bad)
    BY <1>3, <2>1
  <2>3. Some(k - 1) /\ (k - 1) + 1 = k
    BY <2>1, <2>2
  <2>4. Some((k - 1) + 1)
    BY <1>4, <2>2, <2>3
  <2> QED
    BY <2>1, <2>3, <2>4
<1>6. PICK fold \in [SUBSET D -> Goods] : Partial(Cardinality(D), fold)
  <2>1. Cardinality(D) \in Nat
    BY <1>0, FS_CardinalityType
  <2> HIDE DEF Partial
  <2> QED
    BY <1>5, <2>1
<1> QED
  BY <1>1, <1>6 DEF TableOf

\* Any table of it has good values.
LEMMA FoldStays ==
  ASSUME NEW D, IsFiniteSet(D), NEW Goods, NEW fold, fold[{}] \in Goods,
         NEW pick, \A S \in SUBSET D : S # {} => pick[S] \in S,
         \A S \in SUBSET D : S # {} /\ fold[S \ {pick[S]}] \in Goods => fold[S] \in Goods
  PROVE  fold[D] \in Goods
<1> DEFINE Bad == {S \in SUBSET D : fold[S] \notin Goods}
<1>1. Bad = {}
  <2> SUFFICES ASSUME Bad # {} PROVE FALSE
    OBVIOUS
  <2>1. Bad \in SUBSET (SUBSET D)
    OBVIOUS
  <2>2. PICK S \in Bad : \A x \in S : S \ {x} \notin Bad
    <3> HIDE DEF Bad
    <3> QED
      BY <2>1, MinimalSet
  <2>3. S \in SUBSET D /\ S # {} /\ pick[S] \in S
    BY <2>2
  <2>4. S \ {pick[S]} \notin Bad /\ S \ {pick[S]} \in SUBSET D
    BY <2>2, <2>3
  <2> QED
    BY <2>2, <2>3, <2>4
<1> QED
  BY <1>1

\* The elements of a sequence are folded from the last place on.
LEMMA LastPlace ==
  ASSUME NEW m \in Nat, NEW S \in SUBSET (1..m), S # {}
  PROVE  Seqs!Max(S) \in S
<1>1. S \in SUBSET (0..m)
  OBVIOUS
<1>2. PICK g \in S : \A e \in S : g >= e
  BY <1>1, GreatestElement
<1> QED
  BY <1>2 DEF Seqs!Max

LEMMA TimesIsNat ==
  ASSUME NEW x \in Nat, NEW y \in Nat
  PROVE  x * y \in Nat
OBVIOUS

\* A shift divides by a power of two.
LEMMA ShrIsNat ==
  ASSUME NEW x \in Nat, NEW k \in Nat
  PROVE  Partitions!RB!Shr(x, k) \in Nat
<1>1. 2^k \in Nat \ {0}
  BY PowerOfTwo
<1>2. ASSUME NEW d \in Nat \ {0} PROVE x \div d \in Nat
  BY Division
<1> QED
  BY <1>1, <1>2 DEF Partitions!RB!Shr

\* The highest bit of a number.
LEMMA HighestBit ==
  ASSUME NEW x \in Nat \ {0}
  PROVE  Partitions!RB!msb(x) \in 0..30
<1> DEFINE S == {k \in 0..30 : 2^k <= x}
<1>1. 0 \in S
  <2>1. 2^0 = 1
    BY SMT
  <2> QED
    BY <2>1
<1>2. \A k \in 0..30 : k \notin S => ~(2^k <= x)
  OBVIOUS
<1>3. S \in SUBSET (0..30)
  OBVIOUS
<1>4. Partitions!RB!msb(x) = Partitions!RB!Max(S)
  BY DEF Partitions!RB!msb
<1> HIDE DEF S
<1>5. PICK g \in S : \A e \in S : g >= e
  BY <1>1, <1>3, GreatestElement
<1>6. \A m \in S : (\A e \in S : m >= e) <=> m = g
  BY <1>3, <1>5
<1>7. Partitions!RB!msb(x) = g
  BY <1>4, <1>5, <1>6 DEF Partitions!RB!Max
<1> QED
  BY <1>3, <1>5, <1>7

\* The bits that the numbers below one take.
LEMMA CeilLogIsNat ==
  ASSUME NEW x \in Nat
  PROVE  Partitions!RB!ceil_log2(x) \in Nat
<1>1. CASE x > 1
  <2>1. x - 1 \in Nat \ {0}
    BY <1>1
  <2>2. Partitions!RB!msb(x - 1) \in 0..30
    BY <2>1, HighestBit
  <2> QED
    BY <1>1, <2>2 DEF Partitions!RB!ceil_log2
<1>2. CASE ~(x > 1)
  BY <1>2 DEF Partitions!RB!ceil_log2
<1> QED
  BY <1>1, <1>2

\* What compact_ranked_bitvector::offsets comes to is a number of bits.
LEMMA RankedSize ==
  ASSUME NEW u \in Nat, NEW len \in Nat, NEW r \in Nat, NEW s1 \in Nat
  PROVE  Partitions!RB!bitsize(u, len, r, s1) \in Nat
<1>1. /\ Partitions!RB!rank1_samples(u, r) \in Nat /\ Partitions!RB!pointers1(len, s1) \in Nat
      /\ Partitions!RB!ceil_log2(len + 1) \in Nat /\ Partitions!RB!ceil_log2(u) \in Nat
  <2>1. Partitions!RB!Shr(u, r) \in Nat /\ Partitions!RB!Shr(len, s1) \in Nat
    BY ShrIsNat
  <2>2. len + 1 \in Nat
    OBVIOUS
  <2>3. Partitions!RB!ceil_log2(len + 1) \in Nat
    BY <2>2, CeilLogIsNat
  <2>4. Partitions!RB!ceil_log2(u) \in Nat
    BY CeilLogIsNat
  <2> QED
    BY <2>1, <2>3, <2>4 DEF Partitions!RB!rank1_samples, Partitions!RB!pointers1
<1>2. /\ Partitions!RB!rank1_samples(u, r) * Partitions!RB!ceil_log2(len + 1) \in Nat
      /\ Partitions!RB!pointers1(len, s1) * Partitions!RB!ceil_log2(u) \in Nat
  BY <1>1, TimesIsNat
<1> QED
  BY <1>2 DEF Partitions!RB!bitsize

\* So is what compact_elias_fano::offsets comes to.
LEMMA EliasFanoSize ==
  ASSUME NEW u \in Nat, NEW len \in Nat \ {0}, NEW p, p.s0 \in Nat, p.s1 \in Nat
  PROVE  Partitions!ef_bitsize(u, len, p) \in Nat
<1> DEFINE lower_bits == IF u > len THEN Partitions!RB!msb(u \div len) ELSE 0
           high == Partitions!RB!Shr(u, lower_bits)
           higher_bits_length == len + high + 2
           pointers == Partitions!RB!Shr(higher_bits_length - len, p.s0) + Partitions!RB!Shr(len, p.s1)
           width == Partitions!RB!ceil_log2(higher_bits_length)
<1>1. lower_bits \in Nat
  <2>1. CASE u > len
    <3>1. u \div len \in Nat /\ u \div len >= 1
      <4> DEFINE d == u \div len
                 z == d * len
      <4>1. d \in Nat /\ z \in Nat /\ u = z + (u % len) /\ u % len \in 0..(len - 1)
        BY Division
      <4>2. d # 0
        <5> SUFFICES ASSUME d = 0 PROVE FALSE
          OBVIOUS
        <5>1. z = 0
          BY <4>1
        <5> HIDE DEF d, z
        <5> QED
          BY <2>1, <4>1, <5>1
      <4> QED
        BY <4>1, <4>2
    <3>2. Partitions!RB!msb(u \div len) \in 0..30
      <4>1. ASSUME NEW d \in Nat, d >= 1 PROVE Partitions!RB!msb(d) \in 0..30
        BY <4>1, HighestBit
      <4> QED
        BY <3>1, <4>1
    <3> QED
      BY <2>1, <3>2
  <2>2. CASE ~(u > len)
    BY <2>2
  <2> QED
    BY <2>1, <2>2
<1> HIDE DEF lower_bits
<1>2. high \in Nat
  BY <1>1, ShrIsNat
<1> HIDE DEF high
<1>3. higher_bits_length \in Nat /\ higher_bits_length - len \in Nat
  BY <1>2
<1> HIDE DEF higher_bits_length
<1>4. pointers \in Nat
  <2>1. Partitions!RB!Shr(higher_bits_length - len, p.s0) \in Nat
    BY <1>3, ShrIsNat
  <2>2. Partitions!RB!Shr(len, p.s1) \in Nat
    BY ShrIsNat
  <2> QED
    BY <2>1, <2>2
<1>5. width \in Nat
  BY <1>3, CeilLogIsNat
<1>6. Partitions!ef_bitsize(u, len, p)
        = pointers * width + higher_bits_length + len * lower_bits
  BY DEF Partitions!ef_bitsize, higher_bits_length, lower_bits, high
<1> HIDE DEF pointers, width
<1>7. pointers * width \in Nat /\ len * lower_bits \in Nat
  BY <1>1, <1>4, <1>5, TimesIsNat
<1> QED
  BY <1>3, <1>6, <1>7

\* A partition takes a number of bits, whatever form it is written in.
LEMMA CostIsNat ==
  ASSUME NEW u \in Nat, NEW len \in Nat \ {0}
  PROVE  cost_fun(u, len) \in Nat
<1>1. /\ params.s0 \in Nat /\ params.s1 \in Nat /\ params.r \in Nat /\ params.rb_s1 \in Nat
      /\ fix_cost \in Nat
  BY CostAssumption DEF CostAssumption
<1>2. Partitions!rb_cost(FALSE, u, len) \in Nat
  <2>1. Partitions!RB!bitsize(u, len, params.r, params.rb_s1) \in Nat
    BY <1>1, RankedSize
  <2> QED
    BY <2>1 DEF Partitions!rb_cost
<1>3. Partitions!ef_cost(FALSE, u, len) \in Nat
  <2>1. Partitions!ef_bitsize(u, len, params) \in Nat
    BY <1>1, EliasFanoSize
  <2> QED
    BY <2>1 DEF Partitions!ef_cost, Partitions!EFUniverse
<1>4. Partitions!bitsize(FALSE, u, len)
        \in {0, Partitions!rb_cost(FALSE, u, len), Partitions!ef_cost(FALSE, u, len)}
  BY DEF Partitions!bitsize
<1>5. cost_fun(u, len) = Partitions!bitsize(FALSE, u, len) + fix_cost
  BY DEF cost_fun
<1> DEFINE b == Partitions!bitsize(FALSE, u, len)
           r == Partitions!rb_cost(FALSE, u, len)
           e == Partitions!ef_cost(FALSE, u, len)
<1>6. b \in {0, r, e} /\ r \in Nat /\ e \in Nat /\ cost_fun(u, len) = b + fix_cost
  BY <1>2, <1>3, <1>4, <1>5
<1> HIDE DEF b, r, e
<1>7. b \in Nat
  BY <1>6
<1> QED
  BY <1>1, <1>6, <1>7

\* So does every edge of the sequence, and the whole as one partition.
LEMMA EdgeCosts ==
  ASSUME SequenceOK
  PROVE  /\ single_block_cost \in Nat
         /\ \A start \in 0..(n - 1), end \in 1..n : start < end => Cost(start, end) \in Nat
<1>1. /\ n \in Nat \ {0} /\ universe \in Nat
      /\ \A i \in 0..(n - 1) : seq[i] \in Nat
      /\ \A i, j \in 0..(n - 1) : i < j => seq[i] < seq[j]
  BY DEF SequenceOK, Ascending
<1>2. single_block_cost \in Nat
  BY <1>1, CostIsNat DEF single_block_cost
<1>3. ASSUME NEW start \in 0..(n - 1), NEW end \in 1..n, start < end
      PROVE  Cost(start, end) \in Nat
  <2> DEFINE u == seq[end - 1] - (IF start = 0 THEN seq[0] ELSE seq[start - 1] + 1) + 1
             len == end - start
  <2>1. len \in Nat \ {0} /\ end - 1 \in 0..(n - 1)
    BY <1>1, <1>3
  <2>2. u \in Nat
    <3>1. CASE start = 0
      <4>1. seq[0] \in Nat /\ seq[end - 1] \in Nat /\ seq[0] <= seq[end - 1]
        <5>1. 0 \in 0..(n - 1)
          BY <1>1
        <5>2. CASE end - 1 = 0
          BY <1>1, <5>1, <5>2
        <5>3. CASE end - 1 # 0
          <6>1. 0 < end - 1
            BY <2>1, <5>3
          <6> QED
            BY <1>1, <2>1, <5>1, <6>1
        <5> QED
          BY <5>2, <5>3
      <4> QED
        BY <3>1, <4>1
    <3>2. CASE start # 0
      <4>1. start - 1 \in 0..(n - 1) /\ start - 1 < end - 1
        BY <1>1, <1>3, <3>2
      <4>2. seq[start - 1] \in Nat /\ seq[end - 1] \in Nat /\ seq[start - 1] < seq[end - 1]
        BY <1>1, <2>1, <4>1
      <4> QED
        BY <3>2, <4>2
    <3> QED
      BY <3>1, <3>2
  <2>3. Cost(start, end) = cost_fun(u, len)
    BY DEF Cost
  <2> HIDE DEF u, len
  <2> QED
    BY <2>1, <2>2, <2>3, CostIsNat
<1> QED
  BY <1>2, <1>3


\* A turn of the loop that adds the windows.
Grown(bounds) ==
  LET bound == (Seqs!Last(bounds) * (100 + eps2)) \div 100
  IN IF \/ Seqs!Last(bounds) >= single_block_cost
        \/ eps1 * bound >= 100 * cost_fun(1, 1)
     THEN bounds
     ELSE Append(bounds, bound)

\* One window follows another: their bounds are a sequence of numbers.
LEMMA BoundsAre ==
  ASSUME SequenceOK
  PROVE  CostBounds \in Seq(Nat)
<1> DEFINE base == <<cost_fun(1, 1)>>
           D == 1..single_block_cost
           Goods == Seq(Nat) \ {<<>>}
           pick == [S \in SUBSET D |-> Seqs!Max(S)]
           IsTable(h) ==
             h = [S \in SUBSET D |->
                    IF S = {} THEN base
                    ELSE Grown(h[S \ {Seqs!Max(S)}])]
           table == CHOOSE h : IsTable(h)
<1>1. single_block_cost \in Nat /\ cost_fun(1, 1) \in Nat /\ eps2 \in Nat
  BY EdgeCosts, CostIsNat, CostAssumption DEF CostAssumption
<1>2. CostBounds = table[D]
  BY DEF CostBounds, Grown, Seqs!FoldLeft, Seqs!MapThenFoldSet
<1>3. ASSUME NEW b \in Goods PROVE Grown(b) \in Goods
  <2> DEFINE x == Seqs!Last(b) * (100 + eps2)
             bound == x \div 100
  <2>1. Seqs!Last(b) \in Nat
    <3>1. Len(b) \in 1..Len(b)
      BY EmptySeq
    <3> QED
      BY <3>1 DEF Seqs!Last
  <2>2. x \in Nat
    BY <1>1, <2>1
  <2> HIDE DEF x
  <2>3. bound \in Nat
    BY <2>2
  <2> HIDE DEF bound
  <2>4. Append(b, bound) \in Goods
    BY <2>3, AppendProperties
  <2>5. Grown(b) \in {b, Append(b, bound)}
    BY DEF Grown, bound, x
  <2> QED
    BY <2>4, <2>5
<1>4. base \in Goods
  BY <1>1
<1>5. IsFiniteSet(D)
  BY <1>1, FS_Interval
<1>6. \A S \in SUBSET D : S # {} => pick[S] \in S
  BY <1>1, LastPlace
<1>7. \A b \in Goods : Grown(b) \in Goods
  BY <1>3
<1> HIDE DEF Goods, D, base
<1>8. \E h : IsTable(h)
  <2> DEFINE step == [a \in Goods |-> [x \in D |-> Grown(a)]]
  <2>1. \A a \in Goods, x \in D : step[a][x] = Grown(a)
    OBVIOUS
  <2> HIDE DEF step, pick
  <2>2. \A a \in Goods, x \in D : step[a][x] \in Goods
    BY <1>7, <2>1
  <2>3. PICK h \in [SUBSET D -> Goods] :
           TableOf(h, D, base, pick, step)
    <3>1. Folding(D, Goods, base, pick, step)
      BY <1>4, <1>5, <1>6, <2>2 DEF Folding
    <3> QED
      BY <3>1, FoldExists
  <2>4. \A S \in SUBSET D :
           h[S] = IF S = {} THEN base
                  ELSE Grown(h[S \ {Seqs!Max(S)}])
    <3> SUFFICES ASSUME NEW S \in SUBSET D
                 PROVE  h[S] = IF S = {} THEN base
                               ELSE Grown(h[S \ {Seqs!Max(S)}])
      OBVIOUS
    <3>1. CASE S = {}
      BY <2>3, <3>1 DEF TableOf
    <3>2. CASE S # {}
      <4>1. pick[S] = Seqs!Max(S) /\ pick[S] \in D /\ S \ {pick[S]} \in SUBSET D
        BY <1>6, <3>2 DEF pick
      <4>2. h[S \ {pick[S]}] \in Goods
        BY <2>3, <4>1
      <4>3. step[h[S \ {pick[S]}]][pick[S]] = Grown(h[S \ {pick[S]}])
        BY <2>1, <4>1, <4>2
      <4> QED
        BY <2>3, <3>2, <4>1, <4>3 DEF TableOf
    <3> QED
      BY <3>1, <3>2
  <2>5. h = [S \in SUBSET D |-> h[S]]
    BY <2>3
  <2> QED
    BY <2>4, <2>5
<1>9. IsTable(table)
  BY <1>8
<1> HIDE DEF table
<1>10. /\ table[{}] = base
      /\ \A S \in SUBSET D : S # {} =>
           table[S] = Grown(table[S \ {pick[S]}])
  BY <1>9
<1>11. table[D] \in Goods
  <2>1. \A S \in SUBSET D : S # {} /\ table[S \ {pick[S]}] \in Goods => table[S] \in Goods
    BY <1>7, <1>10
  <2> HIDE DEF pick
  <2> QED
    BY <1>4, <1>5, <1>6, <1>10, <2>1, FoldStays
<1> QED
  BY <1>2, <1>11 DEF Goods

\* What the loops over the windows keep: the ends are positions of the sequence,
\* the last one not before first, and the way to a position comes from before it.
Ways(first, m) ==
  {way \in [min_cost : [0..n -> Nat], path : [0..n -> 0..n],
            last_end : first..n, ends : [1..m -> 0..n]] :
     \A e \in 1..n : way.path[e] < e}

\* A window at start improves the ways to positions behind start alone.
LEMMA SlideKeeps ==
  ASSUME SequenceOK, NEW m \in Nat, NEW start \in 0..(n - 1),
         NEW way \in Ways(start + 1, m), NEW w \in 1..m, NEW bound \in Nat
  PROVE  Slide(way, start, w, bound) \in Ways(start + 1, m)
<1> DEFINE first == IF way.ends[w] < way.last_end THEN way.last_end ELSE way.ends[w]
           Stops(e) == /\ e = n \/ Cost(start, e) >= bound
                       /\ \A d \in first..(e - 1) : Cost(start, d) < bound
           last == CHOOSE e \in first..n : Stops(e)
           Through(e) == way.min_cost[start] + Cost(start, e)
           better == {e \in first..last : Through(e) < way.min_cost[e]}
           costs == [e \in 0..n |-> IF e \in better THEN Through(e) ELSE way.min_cost[e]]
           steps == [e \in 0..n |-> IF e \in better THEN start ELSE way.path[e]]
<1>1. /\ n \in Nat \ {0}
      /\ way.min_cost \in [0..n -> Nat] /\ way.path \in [0..n -> 0..n]
      /\ way.last_end \in (start + 1)..n /\ way.ends \in [1..m -> 0..n]
      /\ \A e \in 1..n : way.path[e] < e
      /\ way = [min_cost |-> way.min_cost, path |-> way.path,
                last_end |-> way.last_end, ends |-> way.ends]
  BY DEF Ways, SequenceOK
<1>2. first \in (start + 1)..n
  <2>1. way.ends[w] \in 0..n
    BY <1>1
  <2> QED
    BY <1>1, <2>1
<1> HIDE DEF first
<1>3. \A e \in first..n : Cost(start, e) \in Nat
  BY <1>1, <1>2, EdgeCosts
<1>4. last \in first..n
  <2> DEFINE T == {e \in first..n : e = n \/ Cost(start, e) >= bound}
  <2>1. T \in SUBSET Nat /\ n \in T
    BY <1>1, <1>2
  <2>2. PICK e \in T : \A d \in T : e <= d
    BY <2>1, LeastElement
  <2>3. \A d \in first..(e - 1) : Cost(start, d) < bound
    <3> SUFFICES ASSUME NEW d \in first..(e - 1) PROVE Cost(start, d) < bound
      OBVIOUS
    <3>1. d \in first..n /\ d < e /\ d \notin T
      BY <1>1, <1>2, <2>1, <2>2
    <3>2. Cost(start, d) \in Nat /\ ~(Cost(start, d) >= bound)
      BY <1>3, <3>1
    <3> QED
      BY <3>2
  <2>4. e \in first..n /\ Stops(e)
    BY <2>2, <2>3
  <2> HIDE DEF Stops
  <2> QED
    BY <2>4
<1> HIDE DEF last
<1>5. better \in SUBSET ((start + 1)..n)
  BY <1>1, <1>2, <1>4
<1>6. costs \in [0..n -> Nat]
  <2>1. \A e \in better : Through(e) \in Nat
    <3> SUFFICES ASSUME NEW e \in better PROVE Through(e) \in Nat
      OBVIOUS
    <3>1. e \in first..n
      BY <1>1, <1>2, <1>4
    <3>2. Cost(start, e) \in Nat /\ way.min_cost[start] \in Nat
      BY <1>1, <1>3, <3>1
    <3> QED
      BY <3>2
  <2> HIDE DEF better, Through
  <2> QED
    BY <1>1, <2>1
<1>7. Slide(way, start, w, bound)
        = [min_cost |-> costs, path |-> steps, last_end |-> last,
           ends |-> [way.ends EXCEPT ![w] = last]]
  <2>1. Slide(way, start, w, bound)
          = [way EXCEPT !.ends[w] = last, !.last_end = last,
                        !.min_cost = [e \in 0..n |-> IF e \in better THEN Through(e) ELSE @[e]],
                        !.path = [e \in 0..n |-> IF e \in better THEN start ELSE @[e]]]
    BY DEF Slide, first, last
  <2> HIDE DEF better, Through
  <2> QED
    BY <1>1, <2>1
<1> HIDE DEF better, costs
<1>8. steps \in [0..n -> 0..n] /\ \A e \in 1..n : steps[e] < e
  <2> HIDE DEF better
  <2>1. \A e \in 0..n : steps[e] = IF e \in better THEN start ELSE way.path[e]
    OBVIOUS
  <2>2. steps \in [0..n -> 0..n]
    BY <1>1
  <2>3. ASSUME NEW e \in 1..n PROVE steps[e] < e
    <3>1. CASE e \in better
      BY <1>1, <1>5, <2>1, <3>1
    <3>2. CASE e \notin better
      BY <1>1, <2>1, <3>2
    <3> QED
      BY <3>1, <3>2
  <2> QED
    BY <2>2, <2>3
<1> HIDE DEF steps
<1>9. [way.ends EXCEPT ![w] = last] \in [1..m -> 0..n] /\ last \in (start + 1)..n
  BY <1>1, <1>2, <1>4
<1> DEFINE slid == [min_cost |-> costs, path |-> steps, last_end |-> last,
                    ends |-> [way.ends EXCEPT ![w] = last]]
<1>10. slid \in [min_cost : [0..n -> Nat], path : [0..n -> 0..n],
                  last_end : (start + 1)..n, ends : [1..m -> 0..n]]
  BY <1>6, <1>8, <1>9
<1>11. slid.path = steps /\ Slide(way, start, w, bound) = slid
  BY <1>7
<1> HIDE DEF slid
<1> QED
  BY <1>8, <1>10, <1>11 DEF Ways

\* A turn of the loop over the positions.
WindowsFrom(way, start, bounds) ==
  Seqs!FoldLeft(LAMBDA a, w : Slide(a, start, w, bounds[w]),
                [way EXCEPT !.last_end = start + 1],
                [w \in DOMAIN bounds |-> w])

\* It slides every window.
LEMMA FromKeeps ==
  ASSUME SequenceOK, NEW bounds \in Seq(Nat), NEW start \in 0..(n - 1),
         NEW way \in Ways(0, Len(bounds))
  PROVE  WindowsFrom(way, start, bounds) \in Ways(0, Len(bounds))
<1> DEFINE m == Len(bounds)
           D == 1..m
           turns == [w \in DOMAIN bounds |-> w]
           base == [way EXCEPT !.last_end = start + 1]
           Goods == Ways(start + 1, m)
           pick == [S \in SUBSET D |-> Seqs!Max(S)]
           IsTable(h) ==
             h = [S \in SUBSET DOMAIN turns |->
                    IF S = {} THEN base
                    ELSE Slide(h[S \ {Seqs!Max(S)}], start, turns[Seqs!Max(S)],
                               bounds[turns[Seqs!Max(S)]])]
           table == CHOOSE h : IsTable(h)
<1>1. WindowsFrom(way, start, bounds) = table[DOMAIN turns]
  BY DEF WindowsFrom, Seqs!FoldLeft, Seqs!MapThenFoldSet
<1>2. m \in Nat /\ DOMAIN bounds = D /\ \A w \in D : bounds[w] \in Nat
  BY LenProperties
<1> HIDE DEF m
<1>3. DOMAIN turns = D /\ \A w \in D : turns[w] = w
  BY <1>2
<1>4. base \in Goods
  <2>1. start + 1 \in (start + 1)..n
    BY DEF SequenceOK
  <2>2. way \in [min_cost : [0..n -> Nat], path : [0..n -> 0..n],
                 last_end : 0..n, ends : [1..m -> 0..n]]
        /\ \A e \in 1..n : way.path[e] < e
    BY DEF Ways, m
  <2>3. base.path = way.path
    BY <2>2
  <2>4. base \in [min_cost : [0..n -> Nat], path : [0..n -> 0..n],
                  last_end : (start + 1)..n, ends : [1..m -> 0..n]]
    BY <2>1, <2>2
  <2> HIDE DEF base
  <2> QED
    BY <2>2, <2>3, <2>4 DEF Ways
<1>5. IsFiniteSet(D) /\ \A S \in SUBSET D : S # {} => pick[S] \in S
  <2>1. IsFiniteSet(D)
    BY <1>2, FS_Interval
  <2>2. \A S \in SUBSET D : S # {} => pick[S] \in S
    BY <1>2, LastPlace
  <2> QED
    BY <2>1, <2>2
<1>6. \A a \in Goods, w \in D : Slide(a, start, w, bounds[w]) \in Goods
  BY <1>2, SlideKeeps
<1> HIDE DEF turns, base, D, Goods
<1>7. \E h : IsTable(h)
  <2> DEFINE step == [a \in Goods |-> [w \in D |-> Slide(a, start, w, bounds[w])]]
  <2>1. \A a \in Goods, w \in D : step[a][w] = Slide(a, start, w, bounds[w])
    OBVIOUS
  <2> HIDE DEF step, pick
  <2>2. \A a \in Goods, w \in D : step[a][w] \in Goods
    BY <1>6, <2>1
  <2>3. Folding(D, Goods, base, pick, step)
    BY <1>4, <1>5, <2>2 DEF Folding
  <2>4. PICK h \in [SUBSET D -> Goods] : TableOf(h, D, base, pick, step)
    BY <2>3, FoldExists
  <2>5. \A S \in SUBSET D :
          h[S] = IF S = {} THEN base
                 ELSE Slide(h[S \ {Seqs!Max(S)}], start, turns[Seqs!Max(S)],
                            bounds[turns[Seqs!Max(S)]])
    <3> SUFFICES ASSUME NEW S \in SUBSET D, S # {}
                 PROVE  h[S] = Slide(h[S \ {Seqs!Max(S)}], start, turns[Seqs!Max(S)],
                                     bounds[turns[Seqs!Max(S)]])
      BY <2>4 DEF TableOf
    <3>1. pick[S] = Seqs!Max(S) /\ pick[S] \in D /\ S \ {pick[S]} \in SUBSET D
      BY <1>5 DEF pick
    <3>2. h[S \ {pick[S]}] \in Goods /\ turns[pick[S]] = pick[S]
      BY <1>3, <3>1
    <3>3. h[S] = step[h[S \ {pick[S]}]][pick[S]]
      BY <2>4 DEF TableOf
    <3> QED
      BY <2>1, <3>1, <3>2, <3>3
  <2>6. h = [S \in SUBSET DOMAIN turns |-> h[S]]
    BY <1>3
  <2>7. \A S \in SUBSET DOMAIN turns :
          h[S] = IF S = {} THEN base
                 ELSE Slide(h[S \ {Seqs!Max(S)}], start, turns[Seqs!Max(S)],
                            bounds[turns[Seqs!Max(S)]])
    BY <1>3, <2>5
  <2> QED
    BY <2>6, <2>7
<1>8. IsTable(table)
  BY <1>7
<1> HIDE DEF table
<1>9. /\ table[{}] = base
      /\ \A S \in SUBSET D : S # {} =>
           table[S] = Slide(table[S \ {Seqs!Max(S)}], start, turns[Seqs!Max(S)],
                            bounds[turns[Seqs!Max(S)]])
  BY <1>3, <1>8
<1>10. table[D] \in Goods
  <2>1. ASSUME NEW S \in SUBSET D, S # {}, table[S \ {pick[S]}] \in Goods
        PROVE  table[S] \in Goods
    <3>1. pick[S] = Seqs!Max(S) /\ pick[S] \in D /\ turns[pick[S]] = pick[S]
      BY <1>3, <1>5, <2>1 DEF pick
    <3>2. Slide(table[S \ {pick[S]}], start, pick[S], bounds[pick[S]]) \in Goods
      BY <1>6, <2>1, <3>1
    <3> QED
      BY <1>9, <2>1, <3>1, <3>2
  <2> HIDE DEF pick
  <2> QED
    BY <1>4, <1>5, <1>9, <2>1, FoldStays
<1>11. Goods \in SUBSET Ways(0, m)
  BY DEF Goods, Ways
<1> QED
  BY <1>1, <1>3, <1>10, <1>11 DEF m

\* The loops over the positions and the windows keep what Ways says.
LEMMA ShortestPathIs ==
  ASSUME SequenceOK
  PROVE  /\ ShortestPath.path \in [0..n -> 0..n]
         /\ \A e \in 1..n : ShortestPath.path[e] < e
<1> DEFINE bounds == CostBounds
           m == Len(bounds)
           D == 1..n
           turns == [i \in D |-> i - 1]
           base == [min_cost |-> [e \in 0..n |-> IF e = 0 THEN 0 ELSE single_block_cost],
                    path |-> [e \in 0..n |-> 0],
                    last_end |-> 0,
                    ends |-> [w \in DOMAIN bounds |-> 0]]
           Goods == Ways(0, m)
           pick == [S \in SUBSET D |-> Seqs!Max(S)]
           IsTable(h) ==
             h = [S \in SUBSET DOMAIN turns |->
                    IF S = {} THEN base
                    ELSE WindowsFrom(h[S \ {Seqs!Max(S)}], turns[Seqs!Max(S)], bounds)]
           table == CHOOSE h : IsTable(h)
<1>1. ShortestPath = table[DOMAIN turns]
  BY DEF ShortestPath, WindowsFrom, Seqs!FoldLeft, Seqs!MapThenFoldSet
<1>2. /\ n \in Nat \ {0} /\ bounds \in Seq(Nat) /\ m \in Nat /\ DOMAIN bounds = 1..m
      /\ single_block_cost \in Nat
  BY BoundsAre, EdgeCosts, LenProperties DEF SequenceOK
<1>3. DOMAIN turns = D /\ \A i \in D : turns[i] = i - 1 /\ turns[i] \in 0..(n - 1)
  BY <1>2
<1>4. base \in Goods
  <2>1. /\ [e \in 0..n |-> IF e = 0 THEN 0 ELSE single_block_cost] \in [0..n -> Nat]
        /\ [e \in 0..n |-> 0] \in [0..n -> 0..n]
        /\ [w \in DOMAIN bounds |-> 0] \in [1..m -> 0..n]
        /\ 0 \in 0..n
    BY <1>2
  <2>2. base.path = [e \in 0..n |-> 0]
    OBVIOUS
  <2>3. base \in [min_cost : [0..n -> Nat], path : [0..n -> 0..n],
                  last_end : 0..n, ends : [1..m -> 0..n]]
    BY <2>1
  <2>4. \A e \in 1..n : base.path[e] < e
    BY <1>2, <2>2
  <2> HIDE DEF base
  <2> QED
    BY <2>3, <2>4 DEF Ways
<1>5. IsFiniteSet(D) /\ \A S \in SUBSET D : S # {} => pick[S] \in S
  <2>1. IsFiniteSet(D)
    BY <1>2, FS_Interval
  <2>2. \A S \in SUBSET D : S # {} => pick[S] \in S
    BY <1>2, LastPlace
  <2> QED
    BY <2>1, <2>2
<1> HIDE DEF bounds
<1>6. \A a \in Goods, i \in D : WindowsFrom(a, turns[i], bounds) \in Goods
  BY <1>2, <1>3, FromKeeps
<1> HIDE DEF turns, base, D, Goods
<1>7. \E h : IsTable(h)
  <2> DEFINE step == [a \in Goods |-> [i \in D |-> WindowsFrom(a, turns[i], bounds)]]
  <2>1. \A a \in Goods, i \in D : step[a][i] = WindowsFrom(a, turns[i], bounds)
    OBVIOUS
  <2> HIDE DEF step, pick
  <2>2. \A a \in Goods, i \in D : step[a][i] \in Goods
    BY <1>6, <2>1
  <2>3. Folding(D, Goods, base, pick, step)
    BY <1>4, <1>5, <2>2 DEF Folding
  <2>4. PICK h \in [SUBSET D -> Goods] : TableOf(h, D, base, pick, step)
    BY <2>3, FoldExists
  <2>5. \A S \in SUBSET D :
          h[S] = IF S = {} THEN base
                 ELSE WindowsFrom(h[S \ {Seqs!Max(S)}], turns[Seqs!Max(S)], bounds)
    <3> SUFFICES ASSUME NEW S \in SUBSET D, S # {}
                 PROVE  h[S] = WindowsFrom(h[S \ {Seqs!Max(S)}], turns[Seqs!Max(S)], bounds)
      BY <2>4 DEF TableOf
    <3>1. pick[S] = Seqs!Max(S) /\ pick[S] \in D /\ S \ {pick[S]} \in SUBSET D
      BY <1>5 DEF pick
    <3>2. h[S \ {pick[S]}] \in Goods
      BY <3>1
    <3>3. h[S] = step[h[S \ {pick[S]}]][pick[S]]
      BY <2>4 DEF TableOf
    <3> QED
      BY <2>1, <3>1, <3>2, <3>3
  <2>6. h = [S \in SUBSET DOMAIN turns |-> h[S]]
    BY <1>3
  <2>7. \A S \in SUBSET DOMAIN turns :
          h[S] = IF S = {} THEN base
                 ELSE WindowsFrom(h[S \ {Seqs!Max(S)}], turns[Seqs!Max(S)], bounds)
    BY <1>3, <2>5
  <2> QED
    BY <2>6, <2>7
<1>8. IsTable(table)
  BY <1>7
<1> HIDE DEF table
<1>9. /\ table[{}] = base
      /\ \A S \in SUBSET D : S # {} =>
           table[S] = WindowsFrom(table[S \ {Seqs!Max(S)}], turns[Seqs!Max(S)], bounds)
  BY <1>3, <1>8
<1>10. table[D] \in Goods
  <2>1. ASSUME NEW S \in SUBSET D, S # {}, table[S \ {pick[S]}] \in Goods
        PROVE  table[S] \in Goods
    <3>1. pick[S] = Seqs!Max(S) /\ pick[S] \in D
      BY <1>5, <2>1 DEF pick
    <3>2. WindowsFrom(table[S \ {pick[S]}], turns[pick[S]], bounds) \in Goods
      BY <1>6, <2>1, <3>1
    <3> QED
      BY <1>9, <2>1, <3>1, <3>2
  <2> HIDE DEF pick
  <2> QED
    BY <1>4, <1>5, <1>9, <2>1, FoldStays
<1> QED
  BY <1>1, <1>3, <1>10 DEF Goods, Ways

\* The ends of the partitions on the way to position e, which come before it.
WayTo(ends, e) ==
  /\ ends \in Seq(1..n) /\ Len(ends) <= e
  /\ e > 0 => Len(ends) > 0 /\ ends[Len(ends)] = e
  /\ \A i \in 1..Len(ends) : ends[i] <= e
  /\ \A i, j \in 1..Len(ends) : i < j => ends[i] < ends[j]

\* A way that comes from before is extended.
LEMMA WayExtends ==
  ASSUME n \in Nat, NEW e \in 1..n, NEW d \in 0..n, d < e,
         NEW before, WayTo(before, d)
  PROVE  WayTo(Append(before, e), e)
<1> DEFINE k == Len(before)
           s == Append(before, e)
<1>1. /\ before \in Seq(1..n) /\ k \in Nat /\ k <= d
      /\ \A i \in 1..k : before[i] \in 1..n /\ before[i] <= d
      /\ \A i, j \in 1..k : i < j => before[i] < before[j]
  BY LenProperties DEF WayTo
<1>2. /\ s \in Seq(1..n) /\ Len(s) = k + 1 /\ s[k + 1] = e
      /\ \A i \in 1..k : s[i] = before[i]
  BY <1>1, AppendProperties
<1> HIDE DEF s, k
<1>3. Len(s) <= e /\ Len(s) > 0 /\ s[Len(s)] = e
  BY <1>1, <1>2
<1>4. ASSUME NEW i \in 1..Len(s) PROVE s[i] <= e
  <2>1. CASE i = k + 1
    BY <1>2, <2>1
  <2>2. CASE i # k + 1
    <3>1. i \in 1..k
      BY <1>1, <1>2, <2>2
    <3> QED
      BY <1>1, <1>2, <3>1
  <2> QED
    BY <2>1, <2>2
<1>5. ASSUME NEW i \in 1..Len(s), NEW j \in 1..Len(s), i < j PROVE s[i] < s[j]
  <2>1. i \in 1..k /\ s[i] = before[i] /\ before[i] \in 1..n /\ before[i] <= d
    BY <1>1, <1>2, <1>5
  <2>2. CASE j = k + 1
    BY <1>2, <2>1, <2>2
  <2>3. CASE j # k + 1
    <3>1. j \in 1..k
      BY <1>1, <1>2, <2>3
    <3> QED
      BY <1>1, <1>2, <1>5, <2>1, <3>1
  <2> QED
    BY <2>2, <2>3
<1> QED
  BY <1>2, <1>3, <1>4, <1>5 DEF WayTo, s

\* The ways back from all positions, by the least one without.
LEMMA WaysBack ==
  ASSUME n \in Nat, NEW path \in [0..n -> 0..n], \A e \in 1..n : path[e] < e
  PROVE  \E ends : ends = [e \in 0..n |->
                            IF e = 0 THEN <<>> ELSE Append(ends[path[e]], e)]
<1> DEFINE Partial(k, ends) ==
             /\ ends[0] = <<>>
             /\ \A e \in 1..n : e <= k => ends[e] = Append(ends[path[e]], e)
           Some(k) == \E ends \in [0..n -> Seq(Nat)] : Partial(k, ends)
           Bad == {k \in 0..n : ~Some(k)}
<1>1. Some(0)
  <2> DEFINE none == [e \in 0..n |-> <<>>]
  <2>1. none \in [0..n -> Seq(Nat)] /\ Partial(0, none)
    BY EmptySeq
  <2> HIDE DEF none
  <2> QED
    BY <2>1
<1>2. ASSUME NEW k \in 0..n, k + 1 \in 0..n, Some(k) PROVE Some(k + 1)
  <2>1. PICK ends \in [0..n -> Seq(Nat)] : Partial(k, ends)
    BY <1>2
  <2> DEFINE more == [ends EXCEPT ![k + 1] = Append(ends[path[k + 1]], k + 1)]
  <2>2. path[k + 1] \in 0..n /\ path[k + 1] < k + 1 /\ k + 1 \in 1..n
    <3>1. k + 1 \in 1..n /\ k + 1 \in 0..n
      BY <1>2
    <3> QED
      BY <3>1
  <2>3. Append(ends[path[k + 1]], k + 1) \in Seq(Nat)
    BY <2>2, AppendProperties
  <2>4. /\ more \in [0..n -> Seq(Nat)]
        /\ more[k + 1] = Append(ends[path[k + 1]], k + 1)
        /\ \A e \in 0..n : e # k + 1 => more[e] = ends[e]
    BY <1>2, <2>3
  <2> HIDE DEF more
  <2>5. Partial(k + 1, more)
    <3>1. more[0] = <<>>
      BY <2>1, <2>2, <2>4
    <3>2. ASSUME NEW e \in 1..n, e <= k + 1 PROVE more[e] = Append(more[path[e]], e)
      <4>1. path[e] \in 0..n /\ path[e] < e
        OBVIOUS
      <4>2. more[path[e]] = ends[path[e]]
        BY <2>4, <3>2, <4>1
      <4>3. CASE e = k + 1
        BY <2>4, <4>2, <4>3
      <4>4. CASE e # k + 1
        <5>1. e \in 0..n /\ e <= k
          BY <1>2, <3>2, <4>4
        <5>2. ends[e] = Append(ends[path[e]], e)
          BY <2>1, <5>1
        <5>3. more[e] = ends[e]
          BY <2>4, <4>4, <5>1
        <5> QED
          BY <4>2, <5>2, <5>3
      <4> QED
        BY <4>3, <4>4
    <3> QED
      BY <3>1, <3>2
  <2> HIDE DEF Partial
  <2> QED
    BY <2>4, <2>5
<1> HIDE DEF Some
<1>3. Bad = {}
  <2> SUFFICES ASSUME Bad # {} PROVE FALSE
    OBVIOUS
  <2>1. PICK k \in Bad : \A d \in Bad : k <= d
    <3>1. Bad \in SUBSET Nat
      OBVIOUS
    <3> HIDE DEF Bad
    <3> QED
      BY <3>1, LeastElement
  <2>2. k # 0 /\ k - 1 \in 0..n /\ k - 1 \notin Bad /\ (k - 1) + 1 = k
    BY <1>1, <2>1
  <2>3. Some((k - 1) + 1)
    BY <1>2, <2>1, <2>2
  <2> QED
    BY <2>1, <2>2, <2>3
<1>4. PICK ends \in [0..n -> Seq(Nat)] : Partial(n, ends)
  <2>1. Some(n)
    BY <1>3
  <2> QED
    BY <2>1 DEF Some
<1>5. \A e \in 0..n : ends[e] = IF e = 0 THEN <<>> ELSE Append(ends[path[e]], e)
  <2>1. ends[0] = <<>>
    BY <1>4
  <2>2. ASSUME NEW e \in 1..n PROVE ends[e] = Append(ends[path[e]], e)
    <3>1. e <= n
      OBVIOUS
    <3> QED
      BY <1>4, <3>1
  <2>3. \A e \in 0..n : e = 0 \/ e \in 1..n
    OBVIOUS
  <2> QED
    BY <2>1, <2>2, <2>3
<1>6. ends = [e \in 0..n |-> ends[e]]
  OBVIOUS
<1> QED
  BY <1>5, <1>6

\* The way back from n gives a cut.
LEMMA ChosenCutIs ==
  ASSUME SequenceOK
  PROVE  ChosenCut \in Cuts(n)
<1> DEFINE path == ShortestPath.path
           IsEnds(t) == t = [e \in 0..n |->
                               IF e = 0 THEN <<>> ELSE Append(t[path[e]], e)]
           ends == CHOOSE t : IsEnds(t)
           cut == ends[n]
           k == Len(cut)
<1>1. ChosenCut = [p \in 0..(k - 1) |-> cut[p + 1]]
  BY DEF ChosenCut
<1>2. n \in Nat \ {0} /\ path \in [0..n -> 0..n] /\ \A e \in 1..n : path[e] < e
  BY ShortestPathIs DEF SequenceOK
<1> HIDE DEF path
<1>3. IsEnds(ends)
  <2>1. \E t : IsEnds(t)
    BY <1>2, WaysBack
  <2> HIDE DEF IsEnds
  <2> QED
    BY <2>1
<1> HIDE DEF ends
<1>4. ends[0] = <<>> /\ \A e \in 1..n : ends[e] = Append(ends[path[e]], e)
  <2>1. \A e \in 0..n : ends[e] = IF e = 0 THEN <<>> ELSE Append(ends[path[e]], e)
    BY <1>3
  <2>2. 0 \in 0..n /\ \A e \in 1..n : e \in 0..n /\ e # 0
    BY <1>2
  <2> QED
    BY <2>1, <2>2
<1> HIDE DEF IsEnds
<1> DEFINE Bad == {e \in 0..n : ~WayTo(ends[e], e)}
<1>5. Bad = {}
  <2> SUFFICES ASSUME Bad # {} PROVE FALSE
    OBVIOUS
  <2>1. PICK e \in Bad : \A d \in Bad : e <= d
    <3>1. Bad \in SUBSET Nat
      OBVIOUS
    <3> HIDE DEF Bad
    <3> QED
      BY <3>1, LeastElement
  <2>2. e # 0
    <3>1. WayTo(ends[0], 0)
      <4>1. ends[0] \in Seq(1..n) /\ Len(ends[0]) = 0
        BY <1>4, EmptySeq
      <4> QED
        BY <4>1 DEF WayTo
    <3> QED
      BY <2>1, <3>1
  <2>3. e \in 1..n /\ path[e] \in 0..n /\ path[e] < e /\ path[e] \notin Bad
    BY <1>2, <2>1, <2>2
  <2>4. WayTo(ends[path[e]], path[e])
    BY <2>3
  <2>5. WayTo(ends[e], e)
    <3>1. ends[e] = Append(ends[path[e]], e)
      BY <1>4, <2>3
    <3>2. WayTo(Append(ends[path[e]], e), e)
      BY <1>2, <2>3, <2>4, WayExtends
    <3> QED
      BY <3>1, <3>2
  <2> QED
    BY <2>1, <2>5
<1>6. WayTo(cut, n)
  BY <1>2, <1>5
<1>7. /\ cut \in Seq(1..n) /\ k \in 1..n /\ cut[k] = n
      /\ \A i \in 1..k : cut[i] \in 1..n
      /\ \A i, j \in 1..k : i < j => cut[i] < cut[j]
  <2> HIDE DEF cut
  <2>1. /\ cut \in Seq(1..n) /\ k <= n /\ k > 0 /\ cut[k] = n
        /\ \A i, j \in 1..k : i < j => cut[i] < cut[j]
    BY <1>2, <1>6 DEF WayTo
  <2>2. k \in Nat /\ \A i \in 1..k : cut[i] \in 1..n
    BY <2>1, LenProperties
  <2> HIDE DEF k
  <2> QED
    BY <1>2, <2>1, <2>2
<1> HIDE DEF cut, k
<1> DEFINE c == [p \in 0..(k - 1) |-> cut[p + 1]]
<1>8. /\ c \in [0..(k - 1) -> 1..n] /\ c[k - 1] = n
      /\ \A p \in 0..(k - 1) : c[p] = cut[p + 1] /\ p + 1 \in 1..k
  <2>1. \A p \in 0..(k - 1) : p + 1 \in 1..k
    BY <1>7
  <2>2. k - 1 \in 0..(k - 1) /\ (k - 1) + 1 = k
    BY <1>7
  <2> QED
    BY <1>7, <2>1, <2>2
<1> HIDE DEF c
<1>9. Ascending(c, k)
  <2> SUFFICES ASSUME NEW i \in 0..(k - 1), NEW j \in 0..(k - 1), i < j
               PROVE  c[i] < c[j]
    BY DEF Ascending
  <2>1. i + 1 \in 1..k /\ j + 1 \in 1..k /\ i + 1 < j + 1
    BY <1>7, <1>8
  <2> QED
    BY <1>7, <1>8, <2>1
<1>10. c \in Cuts(n)
  <2>1. c \in {d \in [0..(k - 1) -> 1..n] : d[k - 1] = n /\ Ascending(d, k)}
    BY <1>8, <1>9
  <2> QED
    BY <1>7, <2>1 DEF Cuts
<1> QED
  BY <1>1, <1>10 DEF c

\* The cut that optimal_partition chooses is one that the sequence can be written
\* with, whatever the sampling rates and the parameters of the windows.
THEOREM CutChosen ==
  ASSUME IntsSuffice
  PROVE  Spec => []ChosenIsACut
<1>1. IInv => ChosenIsACut
  <2> SUFFICES ASSUME IInv PROVE ChosenCut \in Cuts(n)
    BY DEF ChosenIsACut
  <2>1. SequenceOK
    BY DEF IInv, DataOK
  <2> QED
    BY <2>1, ChosenCutIs
<1> QED
  BY <1>1, Invariance, PTL
=============================================================================
