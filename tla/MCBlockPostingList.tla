------------------------- MODULE MCBlockPostingList -------------------------
(***************************************************************************)
(* BlockPostingList on every list of the lengths of the .cfg, written in   *)
(* order and with its blocks in every other order.                         *)
(***************************************************************************)
EXTENDS BlockPostingList
=============================================================================
