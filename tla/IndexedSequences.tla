-------------------------- MODULE IndexedSequences --------------------------
(***************************************************************************)
(* indexed_sequence and strict_sequence (src/indexed_sequence.hpp,         *)
(* src/strict_sequence.hpp): a sequence is written in the cheapest of      *)
(* three forms and one bit says in which, unless the universe and the      *)
(* length say it already.                                                  *)
(*                                                                         *)
(* A ranked bit vector is walked as RankedBitvector says.  An Elias-Fano   *)
(* cursor does what SortedSequences says, which CompactEliasFano is shown  *)
(* to do.  Every cursor is a record of position, value and he.             *)
(***************************************************************************)
EXTENDS SortedSequences, Sequences

CONSTANTS
  linear_scan_threshold,  \* 8 in the code
  params                  \* the sampling rates: s0, s1 and r, rb_s1

RB == INSTANCE RankedBitvector

\* 63 in the code: a rate no universe reaches.
Unsampled == 30
strict_params == [params EXCEPT !.s0 = Unsampled, !.r = Unsampled]

\* compact_elias_fano::offsets
ef_bitsize(universe, n, p) ==
  LET lower_bits == IF universe > n THEN RB!msb(universe \div n) ELSE 0
      higher_bits_length == n + RB!Shr(universe, lower_bits) + 2
      pointers == RB!Shr(higher_bits_length - n, p.s0) + RB!Shr(n, p.s1)
  IN pointers * RB!ceil_log2(higher_bits_length)
     + higher_bits_length + n * lower_bits

\* strict_elias_fano stores its values less their positions.
EFUniverse(strict, universe, n) ==
  IF strict THEN universe - n + 1 ELSE universe

EFValues(strict, values) ==
  [i \in DOMAIN values |-> IF strict THEN values[i] - i ELSE values[i]]

ef_cost(strict, universe, n) ==
  ef_bitsize(EFUniverse(strict, universe, n), n,
             IF strict THEN strict_params ELSE params) + 1

rb_cost(strict, universe, n) ==
  RB!bitsize(universe, n, IF strict THEN Unsampled ELSE params.r, params.rb_s1) + 1

Form(strict, universe, n) ==
  CASE universe = n -> "all_ones"
    [] universe # n /\ rb_cost(strict, universe, n) < ef_cost(strict, universe, n)
         -> "ranked_bitvector"
    [] OTHER -> "elias_fano"

bitsize(strict, universe, n) ==
  CASE Form(strict, universe, n) = "all_ones" -> 0
    [] Form(strict, universe, n) = "ranked_bitvector" -> rb_cost(strict, universe, n)
    [] OTHER -> ef_cost(strict, universe, n)

write(strict, values, universe) ==
  LET n == SizeOf(values)
      type == Form(strict, universe, n)
  IN [type |-> type,
      values |-> IF type = "elias_fano" THEN EFValues(strict, values) ELSE values,
      size |-> bitsize(strict, universe, n)]

\* enumerator(): the sequence as it is read with a universe and a length.
open(strict, w, universe, n) ==
  LET p == IF strict THEN strict_params ELSE params
      type == IF universe = n THEN "all_ones" ELSE w.type
  IN [type |-> type, values |-> w.values, n |-> n,
      universe |-> IF type = "elias_fano"
                   THEN EFUniverse(strict, universe, n) ELSE universe,
      shifted |-> strict /\ type = "elias_fano",
      r |-> p.r, s1 |-> p.rb_s1]

-----------------------------------------------------------------------------
(* the enumerators *)

Land(e, p) ==
  [position |-> p, he |-> RB!At(0),
   value |-> IF e.type = "all_ones" THEN p ELSE ValueIn(e.values, e.universe, p)]

\* As constructed: at the end.
Start(e) == [position |-> e.n, value |-> e.universe, he |-> RB!At(0)]

Move(e, c, p) ==
  IF e.type = "ranked_bitvector" THEN RB!Move(e, c, p) ELSE Land(e, p)

Next(e, c) ==
  IF e.type = "ranked_bitvector" THEN RB!Next(e, c) ELSE Land(e, c.position + 1)

NextGeq(e, c, bound) ==
  CASE e.type = "ranked_bitvector" -> RB!NextGeq(e, c, bound)
    [] e.type = "all_ones" -> Land(e, bound)
    [] e.type = "elias_fano" ->
         Land(e, Landing(e.values, e.universe, c.position, bound))

\* What the operations return: strict_elias_fano adds the position again.
ValueOf(e, c) == IF e.shifted THEN c.value + c.position ELSE c.value

prev_value(e, c) ==
  CASE e.type = "ranked_bitvector" -> RB!prev_value(e, c)
    [] e.type = "all_ones" -> IF c.position = 0 THEN 0 ELSE c.position - 1
    [] e.type = "elias_fano" /\ ~e.shifted -> ValueBefore(e.values, c.position)
    [] OTHER -> IF c.position = 0 THEN 0
                ELSE ValueBefore(e.values, c.position) + c.position - 1
=============================================================================
