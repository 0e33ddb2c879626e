-------------------------- MODULE SortedSequences --------------------------
(***************************************************************************)
(* What a cursor over a sorted sequence answers, as operators on the       *)
(* sequence (a function on 0..length-1), its universe and a position.      *)
(* Components that hold such a cursor use them for the part they leave to  *)
(* it.                                                                     *)
(***************************************************************************)
EXTENDS Integers, FiniteSets

SizeOf(s) == Cardinality(DOMAIN s)

\* The value at a position; past the last element, the universe.
ValueIn(s, u, p) == IF p = SizeOf(s) THEN u ELSE s[p]

\* The value before a position; before the first element, 0.
ValueBefore(s, p) == IF p = 0 THEN 0 ELSE s[p - 1]

\* The first position whose value is at least the bound, or the end.
FirstAtLeast(s, bound) ==
  CHOOSE p \in 0..SizeOf(s) :
    /\ p = SizeOf(s) \/ s[p] >= bound
    /\ \A q \in 0..(p - 1) : s[q] < bound

\* Where next_geq leads.  A cursor that is on the bound already stays where it
\* is, even when it is not on the first of a run of equal values.
Landing(s, u, p, bound) ==
  IF bound = ValueIn(s, u, p) THEN p ELSE FirstAtLeast(s, bound)
=============================================================================
