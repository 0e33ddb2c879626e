-------------------------- MODULE UnaryEnumerator --------------------------
(***************************************************************************)
(* unary_enumerator of the external library succinct, as the enumerators   *)
(* of src/compact_elias_fano.hpp and src/compact_ranked_bitvector.hpp use  *)
(* it: a walk over the ones of a bit vector, which is the set of their     *)
(* positions.  The walk is a position and whether the bit there was        *)
(* already consumed.                                                       *)
(***************************************************************************)
EXTENDS Integers, FiniteSets, FiniteSetsExt

Shr(x, k) == x \div 2^k
msb(x) == Max({k \in 0..30 : 2^k <= x})   \* of a number below 2^31

\* The element of a set of numbers that k others are below.
Nth(S, k) == CHOOSE p \in S : Cardinality({q \in S : q < p}) = k

At(pos) == [pos |-> pos, used |-> FALSE]

OnesFrom(ones, h) == {p \in ones : p > h.pos \/ (p = h.pos /\ ~h.used)}

\* next(), k times in a row.
Advance(ones, h, k) ==
  IF k = 0 THEN h ELSE [pos |-> Nth(OnesFrom(ones, h), k - 1), used |-> TRUE]

skip(ones, h, k) == [pos |-> Nth(OnesFrom(ones, h), k), used |-> FALSE]
=============================================================================
