--------------------------- MODULE OrderedCommit ---------------------------
(***************************************************************************)
(* What the index builders expect of the queue they hand their lists to:   *)
(* a list is submitted, its bits are prepared at some time after that and  *)
(* once only, and the prepared lists are appended to the collection        *)
(* strictly in the order of submission, because the position of a list in  *)
(* the collection IS its term identifier.                                  *)
(***************************************************************************)
EXTENDS Naturals

VARIABLES
  submitted,   \* number of lists submitted so far; list j is the j-th one
  prepared,    \* the lists whose bits have been written
  committed    \* number of lists appended to the collection: lists 1..committed

vars == <<submitted, prepared, committed>>

Init ==
  /\ submitted = 0
  /\ prepared = {}
  /\ committed = 0

Submit ==
  /\ submitted' = submitted + 1
  /\ UNCHANGED <<prepared, committed>>

Prepare(j) ==
  /\ j \notin prepared
  /\ prepared' = prepared \cup {j}
  /\ UNCHANGED <<submitted, committed>>

Commit ==
  /\ committed + 1 \in prepared
  /\ committed' = committed + 1
  /\ UNCHANGED <<submitted, prepared>>

Next ==
  \/ Submit
  \/ \E j \in 1..submitted : Prepare(j)
  \/ Commit

Spec == Init /\ [][Next]_vars
=============================================================================
