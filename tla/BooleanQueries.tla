--------------------------- MODULE BooleanQueries ---------------------------
(***************************************************************************)
(* and_query and or_query (src/queries.hpp): the number of documents that  *)
(* are in all, or in any, of the lists of a query.                         *)
(*                                                                         *)
(* and_query makes a step per next_geq: it probes the lists in turn for    *)
(* the candidate, and goes back to the first list with another candidate   *)
(* when one does not have it.  or_query makes a step per document.         *)
(*                                                                         *)
(* The lists are those of the distinct terms, numbered as and_query sorts  *)
(* them, by size; or_query does the same with them in any order.           *)
(***************************************************************************)
EXTENDS PostingCursors

CONSTANT ListCounts   \* the numbers of distinct terms of a query, 0 included

ASSUME ListCountsAssumption == ListCounts \subseteq Nat

VARIABLES
  query,      \* "and" or "or"
  count,      \* enums.size()
  lists,      \* the documents of each list
  docid,      \* docid() of each cursor
  candidate,  \* candidate of and_query, cur_doc of or_query
  i,          \* the list to probe next
  results,
  pc          \* "loop" or "done"

vars == <<query, count, lists, docid, candidate, i, results, pc>>

Init ==
  /\ query \in {"and", "or"}
  /\ count \in ListCounts
  /\ lists \in [1..count -> SUBSET Document \ {{}}]
  /\ \A k \in 2..count : Cardinality(lists[k - 1]) <= Cardinality(lists[k])
  /\ docid = [k \in 1..count |-> Least(lists[k])]
  /\ candidate = IF count = 0 THEN num_docs
                 ELSE IF query = "and" THEN docid[1]
                 ELSE Least({docid[k] : k \in 1..count})
  /\ i = 2
  /\ results = 0
  /\ pc = "loop"

-----------------------------------------------------------------------------
(* and_query *)

\* Faulty variant: the probe goes on with the next list after a mismatch.
AndProbeGoesOn ==
  /\ pc = "loop" /\ query = "and"
  /\ candidate < num_docs
  /\ i <= count
  /\ LET d == FirstFrom(lists[i], candidate)
     IN /\ docid' = [docid EXCEPT ![i] = d]
        /\ i' = i + 1
        /\ candidate' = d
  /\ UNCHANGED <<query, count, lists, results, pc>>

\* Faulty variant: the lists are probed again for the same candidate.
AndProbeAgain ==
  /\ pc = "loop" /\ query = "and"
  /\ candidate < num_docs
  /\ i <= count
  /\ LET d == FirstFrom(lists[i], candidate)
     IN /\ docid' = [docid EXCEPT ![i] = d]
        /\ i' = IF d = candidate THEN i + 1 ELSE 1
  /\ UNCHANGED <<query, count, lists, candidate, results, pc>>

\* A list without the candidate proposes its own next document, which all the
\* lists are then probed for, the first one included.
AndProbe ==
  /\ pc = "loop" /\ query = "and"
  /\ candidate < num_docs
  /\ i <= count
  /\ LET d == FirstFrom(lists[i], candidate)
     IN /\ docid' = [docid EXCEPT ![i] = d]
        /\ i' = IF d = candidate THEN i + 1 ELSE 1
        /\ candidate' = d
  /\ UNCHANGED <<query, count, lists, results, pc>>

AndMatch ==
  /\ pc = "loop" /\ query = "and"
  /\ candidate < num_docs
  /\ i = count + 1
  /\ results' = results + 1
  /\ docid' = [docid EXCEPT ![1] = After(lists[1], docid[1])]
  /\ candidate' = docid'[1]
  /\ i' = 2
  /\ UNCHANGED <<query, count, lists, pc>>

-----------------------------------------------------------------------------
(* or_query *)

\* Faulty variant: the next document is looked for before the lists move.
OrDocumentEarly ==
  /\ pc = "loop" /\ query = "or"
  /\ candidate < num_docs
  /\ results' = results + 1
  /\ docid' = [k \in 1..count |->
                 IF docid[k] = candidate THEN After(lists[k], docid[k])
                                         ELSE docid[k]]
  /\ candidate' = Least({docid[k] : k \in 1..count} \ {candidate})
  /\ UNCHANGED <<query, count, lists, i, pc>>

\* Faulty variant: a list moves to the next document number, not to its next
\* posting.
OrDocumentByNumber ==
  /\ pc = "loop" /\ query = "or"
  /\ candidate < num_docs
  /\ results' = results + 1
  /\ docid' = [k \in 1..count |->
                 IF docid[k] = candidate THEN docid[k] + 1 ELSE docid[k]]
  /\ candidate' = Least({docid'[k] : k \in 1..count})
  /\ UNCHANGED <<query, count, lists, i, pc>>

OrDocument ==
  /\ pc = "loop" /\ query = "or"
  /\ candidate < num_docs
  /\ results' = results + 1
  /\ docid' = [k \in 1..count |->
                 IF docid[k] = candidate THEN After(lists[k], docid[k])
                                         ELSE docid[k]]
  /\ candidate' = Least({docid'[k] : k \in 1..count})
  /\ UNCHANGED <<query, count, lists, i, pc>>

Finish ==
  /\ pc = "loop"
  /\ candidate >= num_docs
  /\ pc' = "done"
  /\ UNCHANGED <<query, count, lists, docid, candidate, i, results>>

Next == AndProbe \/ AndMatch \/ OrDocument \/ Finish

Spec == Init /\ [][Next]_vars
FairSpec == Spec /\ WF_vars(Next)

-----------------------------------------------------------------------------
(* Properties *)

TypeOK ==
  /\ query \in {"and", "or"}
  /\ count \in ListCounts
  /\ lists \in [1..count -> SUBSET Document]
  /\ docid \in [1..count -> 0..num_docs]
  /\ \A k \in 1..count : docid[k] \in lists[k] \cup {num_docs}
  /\ candidate \in 0..num_docs
  /\ i \in 1..(count + 1) \/ i = 2
  /\ results \in Nat
  /\ pc \in {"loop", "done"}

\* The documents the query asks for.
Answer ==
  IF query = "and"
  THEN {d \in Document : \A k \in 1..count : d \in lists[k]}
  ELSE {d \in Document : \E k \in 1..count : d \in lists[k]}

\* However the candidates jump, the documents of the answer before the
\* candidate have been counted, each of them once; at the end this is the
\* cardinality of the intersection or of the union.
CountedBeforeCandidate ==
  count # 0 => results = Cardinality({d \in Answer : d < candidate})

\* A list is only asked for a document at or after the one it is on, unless it
\* is still on its first posting, as the assertion of
\* block_posting_list::next_geq demands; and no list is behind the document
\* or_query is about to count.
CursorsKeepUp ==
  \A k \in 1..count :
    IF query = "and"
    THEN docid[k] <= candidate \/ docid[k] = Least(lists[k])
    ELSE candidate <= docid[k]

\* When a match is counted, and the frequencies are read, every list of an
\* intersection is on the candidate.
MatchIsOnAllLists ==
  query = "and" => \A k \in 1..(i - 1) : k <= count => docid[k] = candidate

\* The loops come to an end.
Terminates == <>(pc = "done")
=============================================================================
