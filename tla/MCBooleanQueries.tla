-------------------------- MODULE MCBooleanQueries --------------------------
(***************************************************************************)
(* BooleanQueries on every choice of lists over a few documents.           *)
(***************************************************************************)
EXTENDS BooleanQueries
=============================================================================
