------------------------- MODULE SequenceEnumerator -------------------------
(***************************************************************************)
(* What the enumerators of the index promise, whatever the representation  *)
(* below them: a cursor over a sorted sequence that is moved to a position *)
(* or to a lower bound.  Past the last element the position is the length  *)
(* of the sequence and the value is its universe.                          *)
(*                                                                         *)
(* The call is part of the state, so that an implementation has to land    *)
(* where THIS call leads, not only somewhere a call could lead.            *)
(***************************************************************************)
EXTENDS SortedSequences

CONSTANT Beyond   \* how far past the universe a lower bound may be

VARIABLES
  seq,       \* the sequence, a function on 0..size-1
  universe,  \* larger than every value
  position,  \* in 0..size
  value,     \* the value at the position
  call       \* the last call and its argument

vars == <<seq, universe, position, value, call>>

size == SizeOf(seq)

LandAt(p) ==
  /\ position' = p
  /\ value' = ValueIn(seq, universe, p)
  /\ UNCHANGED <<seq, universe>>

Init ==
  /\ position \in {0, size}
  /\ value = ValueIn(seq, universe, position)
  /\ call = <<"new", 0>>

Move(p) ==
  /\ LandAt(p)
  /\ call' = <<"move", p>>

NextGeq(bound) ==
  /\ LandAt(Landing(seq, universe, position, bound))
  /\ call' = <<"next_geq", bound>>

Next ==
  /\ position < size
  /\ LandAt(position + 1)
  /\ call' = <<"next", 0>>

Step ==
  \/ \E p \in 0..size : Move(p)
  \/ \E bound \in 0..(universe + Beyond) : NextGeq(bound)
  \/ Next

Spec == Init /\ [][Step]_vars
=============================================================================
