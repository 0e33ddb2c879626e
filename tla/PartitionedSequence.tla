------------------------ MODULE PartitionedSequence ------------------------
(***************************************************************************)
(* partitioned_sequence and uniform_partitioned_sequence: a strictly       *)
(* ascending sequence cut into partitions, each written relative to the    *)
(* end of the one before it, and the enumerator over them.  It holds three *)
(* enumerators: over the ends of the partitions (m_sizes), over their      *)
(* largest values (m_upper_bounds), and over the current partition.        *)
(*                                                                         *)
(* The two headers share everything but where a partition begins and ends: *)
(* the first stores the ends, which the optimal partition chose, the       *)
(* second computes them from a power of two (params.log_partition_size).   *)
(* The lines are those of src/partitioned_sequence.hpp unless a definition *)
(* is named Uniform.                                                       *)
(*                                                                         *)
(* The inner enumerators do what SortedSequences says; CompactEliasFano is *)
(* one of them.  The bits of the partitions are not laid out: the endpoint *)
(* of a partition is its number.                                           *)
(***************************************************************************)
EXTENDS SortedSequences

CONSTANTS
  Lengths,         \* the values of n
  Universes,       \* the values of universe
  PartitionSizes,  \* of the uniform layout, powers of two in the code
  IntLimit,        \* 2^31: ints are below it
  WordLimit,       \* 2^64: the size of uint64_t
  Beyond           \* how far past the universe a lower bound may be

ASSUME SizesAssumption ==
  /\ Lengths \subseteq Nat \ {0}
  /\ Universes \subseteq Nat \ {0}
  /\ PartitionSizes \subseteq Nat \ {0}
  /\ IntLimit \in Nat \ {0}
  /\ WordLimit \in Nat \ {0}
  /\ Beyond \in Nat

VARIABLES
  seq,              \* the sequence that was written
  universe,
  partition,        \* the ends of the partitions, from number 0 on
  uniform,          \* the size of the partitions, 0 when the ends are stored
  m_position,
  cur,              \* m_cur_partition, m_cur_begin, m_cur_end, ...
  m_sizes,          \* the position of m_sizes
  m_upper_bounds,   \* the position of m_upper_bounds
  m_partition_enum, \* what it was opened with, and its position
  value,            \* the value the last call returned
  call              \* the last call and its argument

written == <<seq, universe, partition, uniform>>
vars == <<seq, universe, partition, uniform, m_position, cur, m_sizes,
          m_upper_bounds, m_partition_enum, value, call>>

n == SizeOf(seq)
partitions == SizeOf(partition)

-----------------------------------------------------------------------------
(* write *)

Smaller(a, b) == IF a <= b THEN a ELSE b

Ascending(s, len) == \A i, j \in 0..(len - 1) : i < j => s[i] < s[j]

\* What optimal_partition may choose: any cut into non-empty partitions.
Cuts(len) ==
  UNION {{c \in [0..(k - 1) -> 1..len] :
            c[k - 1] = len /\ Ascending(c, k)} : k \in 1..len}

\* Partitions of the given size, the last one with what is left.
UniformCut(len, size) ==
  [p \in 0..((len + size - 1) \div size - 1) |-> Smaller(len, (p + 1) * size)]

Begin(p) == ValueBefore(partition, p)
Last(p) == seq[partition[p] - 1]

\* The value that a partition is written relative to.
Base(p) == IF p = 0 THEN seq[0] ELSE Last(p - 1) + 1

Values(p) == [k \in 0..(partition[p] - Begin(p) - 1) |-> seq[Begin(p) + k] - Base(p)]
Universe(p) == Last(p) - Base(p) + 1

\* All ends but the last one, n.
sizes == [p \in 0..(partitions - 2) |-> partition[p]]

\* The first value of the sequence, then the last one of each partition.
upper_bounds == [k \in 0..partitions |-> IF k = 0 THEN seq[0] ELSE Last(k - 1)]

\* The universe of a single partition, which 0 stands for when it is tight.
UniverseDelta == IF Last(0) + 1 = universe THEN 0 ELSE Last(0) - seq[0]

-----------------------------------------------------------------------------
(* The enumerator of a partition *)

\* Opened on the bits of a partition, with the universe and the length that
\* the members of the enumerator give for it.
Open(c, position) ==
  [partition |-> c.partition,
   universe |-> c.upper_bound - c.base + 1,
   size |-> c.end - c.begin,
   position |-> position]

Relative(e) == ValueIn(Values(e.partition), e.universe, e.position)

\* Where next_geq of an enumerator of c leads, from position p.
GeqIn(c, p, bound) ==
  Landing(Values(c.partition), c.upper_bound - c.base + 1, p, bound - c.base)

-----------------------------------------------------------------------------
(* switch_partition and the constructor: the members m_cur_... *)

\* Faulty variant: the last partition is as long as the others.
UniformEndsUncut(p) == [begin |-> p * uniform, end |-> (p + 1) * uniform]

UniformEnds(p) ==
  [begin |-> p * uniform, end |-> Smaller(n, (p + 1) * uniform)]

StoredEnds(p) ==
  [begin |-> ValueBefore(sizes, p), end |-> ValueIn(sizes, n, p)]

\* Faulty variant: one past the bound of the partition before, always.
PartitionAfterFirst(p) ==
  LET ends == IF uniform > 0 THEN UniformEnds(p) ELSE StoredEnds(p)
  IN [partition |-> p,
      begin |-> ends.begin,
      end |-> ends.end,
      base |-> ValueBefore(upper_bounds, p + 1) + 1,
      upper_bound |-> ValueIn(upper_bounds, universe, p + 1)]

Partition(p) ==
  LET ends == IF uniform > 0 THEN UniformEnds(p) ELSE StoredEnds(p)
  IN [partition |-> p,
      begin |-> ends.begin,
      end |-> ends.end,
      base |-> ValueBefore(upper_bounds, p + 1) + (IF p = 0 THEN 0 ELSE 1),
      upper_bound |-> ValueIn(upper_bounds, universe, p + 1)]

\* What an int holds of a uint64_t, and a uint64_t of what may be negative.
AsInt(x) ==
  IF x < IntLimit THEN x ELSE ((x + IntLimit) % (2 * IntLimit)) - IntLimit
AsWord(x) == IF x < 0 THEN x + WordLimit ELSE x

\* Faulty variant: the delta is taken as it was written.
WholeUntight ==
  [partition |-> 0,
   begin |-> 0,
   end |-> n,
   base |-> seq[0],
   upper_bound |-> seq[0] + (IF n = 1 THEN 0 ELSE UniverseDelta)]

\* The members when there is one partition.  "auto ub = 0" is an int.
Whole ==
  LET ub == IF n = 1 THEN 0
            ELSE AsInt(IF UniverseDelta > 0 THEN UniverseDelta
                       ELSE universe - seq[0] - 1)
  IN [partition |-> 0,
      begin |-> 0,
      end |-> n,
      base |-> seq[0],
      upper_bound |-> AsWord(seq[0] + ub)]

AtEnd == IF partitions = 1 THEN Whole ELSE Partition(partitions - 1)

\* Any strictly ascending sequence, in any layout, after the constructor: it
\* has moved to the end.
Init ==
  /\ \E u \in Universes, len \in Lengths :
       /\ universe = u
       /\ seq \in {s \in [0..(len - 1) -> 0..(u - 1)] : Ascending(s, len)}
       /\ \/ uniform = 0 /\ partition \in Cuts(len)
          \/ /\ uniform \in PartitionSizes
             /\ partition = UniformCut(len, uniform)
  /\ m_position = n
  /\ cur = AtEnd
  /\ m_sizes = partitions - 1
  /\ m_upper_bounds = partitions
  /\ m_partition_enum = Open(cur, cur.end - cur.begin)
  /\ value = universe
  /\ call = <<"new", 0>>

\* Both enumerators are moved to the partition; its own one is opened and sent
\* to a position.
switch_partition(p, position) ==
  /\ cur' = Partition(p)
  /\ m_sizes' = IF uniform > 0 THEN m_sizes ELSE p
  /\ m_upper_bounds' = p + 1
  /\ m_partition_enum' = Open(Partition(p), position)

-----------------------------------------------------------------------------
(* move *)

StayInPartition(position) ==
  /\ m_partition_enum' = [m_partition_enum EXCEPT !.position = position]
  /\ UNCHANGED <<cur, m_sizes>>

ReturnElement == value' = cur'.base + Relative(m_partition_enum')

\* Faulty variant: in the last partition already, nothing is to be switched.
MoveToEndStaying(ub) ==
  /\ m_position' = n
  /\ value' = universe
  /\ \/ /\ cur.partition = partitions - 1
        /\ StayInPartition(m_partition_enum.size)
        /\ m_upper_bounds' = ub
     \/ /\ cur.partition < partitions - 1
        /\ \E c \in {Partition(partitions - 1)} :
             switch_partition(partitions - 1, c.end - c.begin)

\* slow_move to size().
MoveToEnd(ub) ==
  /\ m_position' = n
  /\ value' = universe
  /\ \/ /\ partitions = 1
        /\ StayInPartition(m_partition_enum.size)
        /\ m_upper_bounds' = ub
     \/ /\ partitions > 1
        /\ \E c \in {Partition(partitions - 1)} :
             switch_partition(partitions - 1, c.end - c.begin)

UniformPartitionOf(position) == position \div uniform

\* Faulty variant: the first end that is not below the position.
PartitionEndingAt(position) ==
  IF uniform > 0 THEN UniformPartitionOf(position)
  ELSE Landing(sizes, n, m_sizes, position)

\* The partition whose end is the first above the position.
PartitionOf(position) ==
  IF uniform > 0 THEN UniformPartitionOf(position)
  ELSE Landing(sizes, n, m_sizes, position + 1)

\* slow_move to an element.
MoveToPartition(position) ==
  /\ m_position' = position
  /\ \E p \in {PartitionOf(position)} :
       switch_partition(p, position - Partition(p).begin)
  /\ ReturnElement

\* move, when next_geq has left m_upper_bounds at ub.
MoveTo(position, ub) ==
  \/ position = n /\ MoveToEnd(ub)
  \/ /\ position \in cur.begin..(cur.end - 1)
     /\ m_position' = position
     /\ StayInPartition(position - cur.begin)
     /\ m_upper_bounds' = ub
     /\ ReturnElement
  \/ /\ position < n /\ position \notin cur.begin..(cur.end - 1)
     /\ MoveToPartition(position)

Move(position) ==
  /\ MoveTo(position, m_upper_bounds)
  /\ call' = <<"move", position>>
  /\ UNCHANGED written

-----------------------------------------------------------------------------
(* next_geq *)

InPartition(c, bound) == bound \in c.base..c.upper_bound

GeqInPartition(bound) ==
  /\ InPartition(cur, bound)
  /\ \E k \in {GeqIn(cur, m_partition_enum.position, bound)} :
       /\ StayInPartition(k)
       /\ m_position' = cur.begin + k
  /\ UNCHANGED m_upper_bounds
  /\ ReturnElement

\* The only partition does not hold the bound.
GeqOutside(bound) ==
  /\ partitions = 1 /\ ~InPartition(cur, bound)
  /\ MoveTo(IF bound < cur.base THEN 0 ELSE n, m_upper_bounds)

UpperBoundFrom(bound) == Landing(upper_bounds, universe, m_upper_bounds, bound)

\* slow_next_geq, and the next_geq it ends with: the enumerator that was just
\* opened is at its end.
GeqElsewhere(bound) ==
  /\ partitions > 1 /\ ~InPartition(cur, bound)
  /\ \E ub \in {UpperBoundFrom(bound)} :
       \/ ub = 0 /\ MoveTo(0, ub)
       \/ ub = partitions + 1 /\ MoveTo(n, ub)
       \/ /\ ub \in 1..partitions
          /\ InPartition(Partition(ub - 1), bound)
          /\ \E c \in {Partition(ub - 1)} :
             \E k \in {GeqIn(c, c.end - c.begin, bound)} :
               /\ switch_partition(ub - 1, k)
               /\ m_position' = c.begin + k
          /\ ReturnElement

NextGeq(bound) ==
  /\ \/ GeqInPartition(bound)
     \/ GeqOutside(bound)
     \/ GeqElsewhere(bound)
  /\ call' = <<"next_geq", bound>>
  /\ UNCHANGED written

-----------------------------------------------------------------------------
(* next *)

NextInPartition ==
  /\ m_position + 1 < cur.end
  /\ StayInPartition(m_partition_enum.position + 1)
  /\ UNCHANGED m_upper_bounds
  /\ ReturnElement

NextAtEnd ==
  /\ m_position + 1 >= cur.end /\ m_position + 1 = n
  /\ StayInPartition(m_partition_enum.position + 1)
  /\ UNCHANGED m_upper_bounds
  /\ value' = universe

NextPartition ==
  /\ m_position + 1 >= cur.end /\ m_position + 1 # n
  /\ switch_partition(cur.partition + 1, 0)
  /\ ReturnElement

\* The caller does not go on past the end (the assertions of slow_next()).
Next ==
  /\ m_position < n
  /\ m_position' = m_position + 1
  /\ NextInPartition \/ NextAtEnd \/ NextPartition
  /\ call' = <<"next", 0>>
  /\ UNCHANGED written

Step ==
  \/ \E position \in 0..n : Move(position)
  \/ \E bound \in 0..(universe + Beyond) : NextGeq(bound)
  \/ Next

Spec == Init /\ [][Step]_vars

\* Faulty variant: the value before a partition is the one it begins with.
prev_valueBase ==
  IF m_position = cur.begin
  THEN IF cur.partition = 0 THEN 0 ELSE cur.base
  ELSE cur.base + ValueBefore(Values(cur.partition), m_partition_enum.position)

prev_value ==
  IF m_position = cur.begin
  THEN IF cur.partition = 0 THEN 0 ELSE cur.base - 1
  ELSE cur.base + ValueBefore(Values(cur.partition), m_partition_enum.position)

-----------------------------------------------------------------------------
(* Properties *)

TypeOK ==
  /\ DOMAIN seq = 0..(n - 1)
  /\ DOMAIN partition = 0..(partitions - 1)
  /\ m_position \in 0..n
  /\ value \in 0..universe
  /\ cur.partition \in 0..(partitions - 1)
  /\ m_sizes \in 0..(partitions - 1)
  /\ m_partition_enum.position \in 0..m_partition_enum.size

\* The enumerator of a partition is opened with the universe and the length
\* that the partition was written with, although neither is stored: they come
\* from two other sequences, or from the delta of a single partition.
OpenedAsWritten ==
  LET p == m_partition_enum.partition
  IN /\ m_partition_enum.universe = Universe(p)
     /\ m_partition_enum.size = partition[p] - Begin(p)

\* The position of the whole and that of the partition's enumerator agree,
\* with the switch of partitions between them after every path of every call.
EnumeratorsInStep ==
  /\ cur.partition = m_partition_enum.partition
  /\ m_position = cur.begin + m_partition_enum.position
  /\ m_position < n => m_position < cur.end

\* prev_value() is the value before the cursor after any sequence of calls,
\* also where the element before is in another partition.
PrevValueIsPredecessor == prev_value = ValueBefore(seq, m_position)

\* The enumerator of the upper bounds is left on one of them: at its end, a
\* call with a bound past the universe would lead it one position too far
\* (compact_elias_fano.hpp:191-205), and slow_next_geq makes such calls.
UpperBoundsOnElement == m_upper_bounds \in 0..partitions

\* slow_next_geq ends with next_geq itself: from every place, the partition
\* it switches to holds the bound, and the recursion ends there.
NextGeqSettles ==
  partitions > 1 =>
    \A bound \in 0..(universe + Beyond) :
      UpperBoundFrom(bound) \in 1..partitions
        => InPartition(Partition(UpperBoundFrom(bound) - 1), bound)

\* next_geq of a value of the sequence finds it, whatever the universe is
\* (test/test_generic_sequence.hpp requires seq[i] of next_geq(seq[i])).
NextGeqFindsValue ==
  \A i \in DOMAIN seq : call = <<"next_geq", seq[i]>> => value = seq[i]

\* Every call leads where the abstract enumerator says it leads, within a
\* partition, across partitions and past the universe.
Abstract == INSTANCE SequenceEnumerator WITH position <- m_position
RefinesSequenceEnumerator == Abstract!Spec
=============================================================================
