-------------------------- MODULE RankedBitvector --------------------------
(***************************************************************************)
(* compact_ranked_bitvector (src/compact_ranked_bitvector.hpp): a strictly *)
(* sorted sequence as the ones of a bit vector as long as the universe,    *)
(* with the number of ones before every 2^r-th bit and pointers to every   *)
(* 2^s1-th one.                                                            *)
(*                                                                         *)
(* What is stored is a record rb: values, universe, n and the sampling     *)
(* rates.  An enumerator is a record c: position, value and the unary      *)
(* enumerator he; each of its operations is an operator that returns the   *)
(* next c, for whoever holds it.                                           *)
(***************************************************************************)
EXTENDS UnaryEnumerator

CONSTANT linear_scan_threshold   \* 8 in the code

ceil_log2(x) == IF x > 1 THEN msb(x - 1) + 1 ELSE 0

-----------------------------------------------------------------------------
(* offsets, write *)

rank1_samples(universe, r) == Shr(universe, r)
pointers1(n, s1) == Shr(n, s1)

bitsize(universe, n, r, s1) ==
    rank1_samples(universe, r) * ceil_log2(n + 1)
  + pointers1(n, s1) * ceil_log2(universe)
  + universe

Ones(rb) == {rb.values[i] : i \in DOMAIN rb.values}

\* Faulty variant: the run of bits ends before the element.
EndBitBefore(rb, i) == IF i = rb.n THEN rb.universe ELSE rb.values[i]

\* The bits between the element before the i-th one and that one, for which
\* set_rank1_samples is told the rank i.
FirstBit(rb, i) == IF i = 0 THEN 1 ELSE rb.values[i - 1] + 1
EndBit(rb, i) == IF i = rb.n THEN rb.universe ELSE rb.values[i] + 1

\* The k-th samples, 0 where nothing is written: the vector is zeroed first.
Rank1(rb, k) ==
  LET ranks == {i \in 0..rb.n : /\ FirstBit(rb, i) <= k * 2^rb.r
                                /\ k * 2^rb.r < EndBit(rb, i)}
  IN IF ranks = {} THEN 0 ELSE Max(ranks)
Pointer1(rb, k) == IF k * 2^rb.s1 < rb.n THEN rb.values[k * 2^rb.s1] ELSE 0

rank1_sample(rb, k) == IF k = 0 THEN 0 ELSE Rank1(rb, k)
pointer1(rb, k) == IF k = 0 THEN 0 ELSE Pointer1(rb, k)

-----------------------------------------------------------------------------
(* the enumerator *)

\* As it is constructed, and at the end: nothing is read.
AtEnd(rb, p, h) == [position |-> p, value |-> rb.universe, he |-> h]

\* The next one from h on is read as the p-th element.
ReadAt(rb, p, h) ==
  LET read == Advance(Ones(rb), h, 1)
  IN [position |-> p, value |-> read.pos, he |-> read]

slow_move(rb, c, p) ==
  IF p > c.position /\ Shr(p - c.position, rb.s1) = 0
  THEN ReadAt(rb, p, skip(Ones(rb), c.he, p - c.position - 1))
  ELSE LET ptr == Shr(p, rb.s1)
       IN ReadAt(rb, p, skip(Ones(rb), At(pointer1(rb, ptr)), p - ptr * 2^rb.s1))

Move(rb, c, p) ==
  CASE p = c.position -> c
    [] p # c.position /\ p = rb.n -> AtEnd(rb, p, c.he)
    [] p > c.position /\ p < rb.n /\ p - c.position <= linear_scan_threshold ->
         ReadAt(rb, p, Advance(Ones(rb), c.he, p - c.position - 1))
    [] OTHER -> slow_move(rb, c, p)

Next(rb, c) ==
  IF c.position + 1 < rb.n
  THEN ReadAt(rb, c.position + 1, c.he)
  ELSE AtEnd(rb, c.position + 1, c.he)

\* The small skips of next_geq: k calls of next().
StopsAfter(rb, c, k, bound) ==
  \/ c.position + k >= rb.n
  \/ Advance(Ones(rb), c.he, k).pos >= bound
SmallNextGeq(rb, c, bound) ==
  LET k == CHOOSE i \in 1..(rb.n + 1) :
             /\ StopsAfter(rb, c, i, bound)
             /\ \A j \in 1..(i - 1) : ~StopsAfter(rb, c, j, bound)
      h == Advance(Ones(rb), c.he, k - 1)
  IN IF c.position + k >= rb.n
     THEN AtEnd(rb, c.position + k, h)
     ELSE ReadAt(rb, c.position + k, h)

\* The ones before the bound: those before the current value or before the
\* block of the bound, and those counted word by word from there on.
Rank(rb, c, bound) ==
  LET block == Shr(bound, rb.r)
      near == bound > c.value /\ Shr(bound - c.value, rb.r) = 0
      from == IF near THEN c.value ELSE block * 2^rb.r
  IN (IF near THEN c.position ELSE rank1_sample(rb, block))
     + Cardinality(Ones(rb) \cap (from..(bound - 1)))

SlowNextGeq(rb, c, bound) ==
  LET rank == Rank(rb, c, bound)
  IN CASE bound >= rb.universe -> Move(rb, c, rb.n)
       [] bound < rb.universe /\ rank < rb.n -> ReadAt(rb, rank, At(bound))
       [] OTHER -> AtEnd(rb, rank, At(bound))

NextGeq(rb, c, bound) ==
  CASE bound = c.value -> c
    [] bound > c.value /\ bound - c.value <= linear_scan_threshold ->
         SmallNextGeq(rb, c, bound)
    [] OTHER -> SlowNextGeq(rb, c, bound)

\* Faulty variant: the search starts on the current element.
prev_valueFromCursor(rb, c) ==
  LET from == IF c.position < rb.n THEN c.he.pos ELSE rb.universe - 1
  IN IF c.position = 0 THEN 0 ELSE Max({b \in Ones(rb) : b <= from})

\* predecessor1 of the bit vector: the last one not after a bit.
prev_value(rb, c) ==
  LET from == IF c.position < rb.n THEN c.he.pos - 1 ELSE rb.universe - 1
  IN IF c.position = 0 THEN 0 ELSE Max({b \in Ones(rb) : b <= from})
=============================================================================
