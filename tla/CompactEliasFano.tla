-------------------------- MODULE CompactEliasFano --------------------------
(***************************************************************************)
(* compact_elias_fano (src/compact_elias_fano.hpp): a sorted sequence with *)
(* its high halves in unary in a bit vector and its low halves beside it,  *)
(* sampled pointers to every 2^s0-th zero and every 2^s1-th one, and the   *)
(* enumerator that walks it.                                               *)
(*                                                                         *)
(* The high bits are the set of the positions of their ones, relative to   *)
(* higher_bits_offset.  The low halves and the samples are functions.      *)
(***************************************************************************)
EXTENDS UnaryEnumerator

CONSTANTS
  Lengths,               \* the values of n
  Universes,             \* the values of universe
  Samplings,             \* the values of ef_log_sampling0 and ef_log_sampling1
  linear_scan_threshold, \* 8 in the code
  Beyond                 \* how far past the universe a lower bound may be

ASSUME SizesAssumption ==
  /\ Lengths \subseteq Nat \ {0}
  /\ Universes \subseteq Nat \ {0}
  /\ Samplings \subseteq Nat
  /\ linear_scan_threshold \in Nat
  /\ Beyond \in Nat

VARIABLES
  seq,       \* the sequence that was written
  universe,
  s0,        \* log_sampling0
  s1,        \* log_sampling1
  position,  \* m_position
  value,     \* m_value
  he,        \* m_high_enumerator
  call       \* the last call and its argument

written == <<seq, universe, s0, s1>>
vars == <<seq, universe, s0, s1, position, value, he, call>>

CeilShr(x, k) == Shr(x + 2^k - 1, k)

-----------------------------------------------------------------------------
(* offsets: the layout *)

n == Cardinality(DOMAIN seq)
lower_bits == IF universe > n THEN msb(universe \div n) ELSE 0
higher_bits_length == n + Shr(universe, lower_bits) + 2
pointers0 == Shr(higher_bits_length - n, s0)
pointers1 == Shr(n, s1)

-----------------------------------------------------------------------------
(* write: the bits *)

Low(i) == seq[i] % 2^lower_bits
High(i) == Shr(seq[i], lower_bits) + i + 1
Ones == {High(i) : i \in DOMAIN seq}

\* Faulty variant: the run of zeros begins on the one before it.
FirstZeroOnOne(i) == IF i = 0 THEN 1 ELSE High(i - 1) - i

\* The zeros before the i-th one and after the one before it, numbered from 0
\* over the whole vector: set_ptr0s goes over them.  Bit 0 is a sentinel.
FirstZero(i) == IF i = 0 THEN 1 ELSE High(i - 1) + 1 - i
EndZero(i) == (IF i = n THEN higher_bits_length ELSE High(i)) - i

\* The samples, 0 where nothing is written: the vector is zeroed first.
Sample0 ==
  [k \in 1..pointers0 |->
     LET runs == {i \in 0..n : /\ CeilShr(FirstZero(i), s0) <= k
                               /\ k * 2^s0 < EndZero(i)}
     IN IF runs = {} THEN 0 ELSE k * 2^s0 + Max(runs)]
Sample1 ==
  [k \in 1..pointers1 |-> IF k * 2^s1 < n THEN High(k * 2^s1) ELSE 0]

pointer0(k) == IF k = 0 THEN 0 ELSE Sample0[k]
pointer1(k) == IF k = 0 THEN 0 ELSE Sample1[k]

-----------------------------------------------------------------------------
(* the zeros, for unary_enumerator's skip0 *)

ZerosFrom(h) ==
  {p \in h.pos..(higher_bits_length - 1) :
     p \notin Ones \/ (p = h.pos /\ h.used)}

skip0(h, k) == [pos |-> Nth(ZerosFrom(h), k), used |-> TRUE]

-----------------------------------------------------------------------------
(* the enumerator *)

\* Faulty variant: the sentinel zero is not taken off.
DecodeSentinel(pos, p) == (pos - p) * 2^lower_bits + Low(p)

\* The value whose high half ends at bit pos, as the p-th element.
Decode(pos, p) == (pos - p - 1) * 2^lower_bits + Low(p)

Init ==
  /\ \E u \in Universes, len \in Lengths :
       /\ universe = u
       /\ seq \in {s \in [0..(len - 1) -> 0..(u - 1)] :
                     \A i \in 1..(len - 1) : s[i - 1] <= s[i]}
  /\ s0 \in Samplings
  /\ s1 \in Samplings
  /\ position = n
  /\ value = universe
  /\ he = At(0)
  /\ call = <<"new", 0>>

\* Faulty variant: the loop goes on while the value is not above the bound.
StopsPast(h, p, k, bound) ==
  p + k = n \/ Decode(Advance(Ones, h, k + 1).pos, p + k) > bound

\* From the p-th element on, read from h: is the k-th the last to be read?
StopsAt(h, p, k, bound) ==
  p + k = n \/ Decode(Advance(Ones, h, k + 1).pos, p + k) >= bound

\* Read on from h, which is before the p-th element, up to the first value
\* that reaches the bound, or to the end: next_reader and the two loops.
ScanFrom(h, p, bound) ==
  LET steps == CHOOSE k \in 0..(n - p) :
                 /\ StopsAt(h, p, k, bound)
                 /\ \A j \in 0..(k - 1) : ~StopsAt(h, p, j, bound)
  IN IF p + steps = n
     THEN /\ position' = n
          /\ value' = universe
          /\ he' = Advance(Ones, h, steps)
     ELSE /\ position' = p + steps
          /\ he' = Advance(Ones, h, steps + 1)
          /\ value' = Decode(he'.pos, p + steps)

ToEnd ==
  /\ position' = n
  /\ value' = universe
  /\ UNCHANGED he

ReadAt(h, p) ==
  /\ position' = p
  /\ he' = Advance(Ones, h, 1)
  /\ value' = Decode(he'.pos, p)

\* Faulty variant: the skip is made on a copy of the unary enumerator, and the
\* copy is not stored back.
SmallMoveOnCopy(p) ==
  /\ p > position /\ p - position <= linear_scan_threshold
  /\ IF p = n
     THEN ToEnd
     ELSE /\ position' = p
          /\ value' = Decode(Advance(Ones, he, p - position).pos, p)
          /\ UNCHANGED he

SmallMove(p) ==
  /\ p > position /\ p - position <= linear_scan_threshold
  /\ IF p = n
     THEN ToEnd
     ELSE /\ position' = p
          /\ he' = Advance(Ones, he, p - position)
          /\ value' = Decode(he'.pos, p)

slow_move(p) ==
  IF p = n
  THEN ToEnd
  ELSE IF p > position /\ Shr(p - position, s1) = 0
  THEN ReadAt(skip(Ones, he, p - position - 1), p)
  ELSE LET ptr == Shr(p, s1)
       IN ReadAt(skip(Ones, At(pointer1(ptr)), p - ptr * 2^s1), p)

MoveTo(p) ==
  \/ p = position /\ UNCHANGED <<position, value, he>>
  \/ SmallMove(p)
  \/ /\ p < position \/ p - position > linear_scan_threshold
     /\ slow_move(p)

Move(p) ==
  /\ MoveTo(p)
  /\ call' = <<"move", p>>
  /\ UNCHANGED written

HighDiff(bound) == Shr(bound, lower_bits) - Shr(value, lower_bits)
IsSmallSkip(bound) ==
  bound > value /\ HighDiff(bound) <= linear_scan_threshold

\* Past the last element the loop stops at once, one position too far.
SmallNextGeq(bound) ==
  /\ IsSmallSkip(bound)
  /\ IF position >= n
     THEN /\ position' = position + 1
          /\ value' = universe
          /\ UNCHANGED he
     ELSE ScanFrom(he, position + 1, bound)

SlowNextGeq(bound) ==
  /\ bound # value /\ ~IsSmallSkip(bound)
  /\ IF bound >= universe
     THEN MoveTo(n)
     ELSE LET high == Shr(bound, lower_bits)
              ptr == Shr(high, s0)
              h == IF bound > value /\ Shr(HighDiff(bound), s0) = 0
                   THEN skip0(he, HighDiff(bound))
                   ELSE skip0(At(pointer0(ptr)), high - ptr * 2^s0)
          IN ScanFrom(h, h.pos - high, bound)

NextGeq(bound) ==
  /\ \/ bound = value /\ UNCHANGED <<position, value, he>>
     \/ SmallNextGeq(bound)
     \/ SlowNextGeq(bound)
  /\ call' = <<"next_geq", bound>>
  /\ UNCHANGED written

\* The caller does not go on past the end (the assertion of next()).
Next ==
  /\ position < n
  /\ IF position + 1 < n THEN ReadAt(he, position + 1) ELSE ToEnd
  /\ call' = <<"next", 0>>
  /\ UNCHANGED written

Step ==
  \/ \E p \in 0..n : Move(p)
  \/ \E bound \in 0..(universe + Beyond) : NextGeq(bound)
  \/ Next

Spec == Init /\ [][Step]_vars

\* Faulty variant: the search starts on the current element.
prev_valueFromCursor ==
  LET from == IF position < n THEN he.pos ELSE higher_bits_length - 1
  IN IF position = 0
     THEN 0
     ELSE Decode(Max({p \in Ones : p <= from}), position - 1)

prev_value ==
  LET from == IF position < n THEN he.pos - 1 ELSE higher_bits_length - 1
  IN IF position = 0
     THEN 0
     ELSE Decode(Max({p \in Ones : p <= from}), position - 1)

-----------------------------------------------------------------------------
(* Properties *)

TypeOK ==
  /\ DOMAIN seq = 0..(n - 1)
  /\ position \in 0..n
  /\ value \in 0..universe
  /\ he.pos \in 0..(higher_bits_length - 1) /\ he.used \in BOOLEAN

\* The unary enumerator, which every call updates on its own path and leaves
\* alone at the end, is on the one of the current element and has consumed
\* it: what next(), prev_value() and the two small skips start from.
EnumeratorInSync ==
  position < n => he = [pos |-> High(position), used |-> TRUE]

\* prev_value() is the value before the cursor after any sequence of calls.
PrevValueIsPredecessor ==
  prev_value = IF position = 0 THEN 0 ELSE seq[position - 1]

\* The sampled pointers a call can follow exist, were written, and lead to the
\* zero or the one they stand for ("XXX bounds checking!" in slow_next_geq).
SamplesLeadHome ==
  /\ \A k \in 1..Shr(Shr(universe - 1, lower_bits), s0) :
       /\ k <= pointers0
       /\ Sample0[k] = Nth(ZerosFrom(At(0)), k * 2^s0)
  /\ \A k \in 1..Shr(n - 1, s1) :
       /\ k <= pointers1
       /\ Sample1[k] = Nth(Ones, k * 2^s1)

\* Every call leads where the abstract enumerator says it leads, on the small
\* and on the slow paths, whatever path the calls before it took.
Abstract == INSTANCE SequenceEnumerator
RefinesSequenceEnumerator == Abstract!Spec
=============================================================================
