--------------------------- MODULE PostingCursors ---------------------------
(***************************************************************************)
(* The cursors of a query, one per posting list, as src/queries.hpp uses   *)
(* them: docid() is a document of the list, or num_docs past its end.      *)
(* What next() and next_geq() do here is what SequenceEnumerator promises. *)
(***************************************************************************)
EXTENDS Integers, FiniteSets

CONSTANT num_docs   \* index.num_docs()

ASSUME NumDocsAssumption == num_docs \in Nat \ {0}

Document == 0..(num_docs - 1)

\* The first document of a list that is not below a bound, or num_docs.
FirstFrom(list, bound) ==
  CHOOSE d \in list \cup {num_docs} :
    /\ d >= bound \/ d = num_docs
    /\ \A e \in list : e >= bound => d <= e

\* The least of a set of documents, num_docs when it is empty.
Least(docids) == FirstFrom(docids, 0)

\* next()
After(list, docid) == FirstFrom(list, docid + 1)
=============================================================================
