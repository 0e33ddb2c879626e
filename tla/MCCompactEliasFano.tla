------------------------- MODULE MCCompactEliasFano -------------------------
(***************************************************************************)
(* CompactEliasFano on every sorted sequence of the lengths and universes  *)
(* of the .cfg, with every pair of sampling rates.                         *)
(***************************************************************************)
EXTENDS CompactEliasFano
=============================================================================
