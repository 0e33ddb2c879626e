----------------------- MODULE MCPartitionedSequence -----------------------
(***************************************************************************)
(* PartitionedSequence on every strictly ascending sequence of the lengths *)
(* and universes of the .cfg, in every layout.                             *)
(***************************************************************************)
EXTENDS OptimalPartition

\* Everything is sampled, so that the bits of a partition are worth cutting.
MCparams == [s0 |-> 0, s1 |-> 0, r |-> 0, rb_s1 |-> 0]
=============================================================================
