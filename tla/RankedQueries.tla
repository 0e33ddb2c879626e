--------------------------- MODULE RankedQueries ---------------------------
(***************************************************************************)
(* ranked_or_query, ranked_and_query, wand_query, maxscore_query and       *)
(* maxscore_dyn_query (src/queries.hpp): the K best scores of the          *)
(* documents of a query.  wand and maxscore leave documents out by the     *)
(* upper bounds of wand_data, maxscore_dyn by bounds that depend on how    *)
(* far a list has gone; the others score every document of the union, or   *)
(* of the intersection.                                                    *)
(*                                                                         *)
(* Scores are numbers.  bm25::doc_term_weight grows with the frequency,    *)
(* shrinks with the length of the document and stays below the frequency:  *)
(* here it is the frequency in a short document and half of it in a long   *)
(* one.  The upper bound of a list is the largest frequency in it, as      *)
(* wand_data stores it.  A term that a query repeats weighs as many times. *)
(*                                                                         *)
(* ranked_or makes a step per document, ranked_and a step per next_geq,    *)
(* wand a step per pivot, both maxscores a step for the essential lists of *)
(* a document, one per completed list and one for the insertion.           *)
(***************************************************************************)
EXTENDS PostingCursors, Sequences, SequencesExt, FiniteSetsExt

CONSTANTS
  Queries,     \* "ranked_or", "ranked_and", "wand", "maxscore",
               \* "maxscore_dyn"
  index,       \* the list of each term: the frequency of each document in it
  long,        \* the long documents, by norm_len
  ListCounts,  \* the numbers of distinct terms of a query
  Repetitions, \* how many times a query of a kind may repeat a term
  Sizes,       \* the values of k, how many scores are wanted
  Cursors,     \* "block" of a block index, "sequence" of a frequency index
  max_weights_vectors  \* of maxscore_dyn, by the place of a list in the query

\* The vectors fall from place to place, as those in the code do.
ASSUME RankedAssumption ==
  /\ Queries \subseteq {"ranked_or", "ranked_and", "wand", "maxscore",
                  "maxscore_dyn"}
  /\ \A t \in 1..Len(index) :
       /\ DOMAIN index[t] \subseteq Document
       /\ \A d \in DOMAIN index[t] : index[t][d] \in Nat \ {0}
  /\ ListCounts \subseteq Nat \ {0}
  /\ Repetitions \in [Queries -> SUBSET (Nat \ {0})]
  /\ Sizes \subseteq Nat \ {0}
  /\ Cursors \subseteq {"block", "sequence"}
  /\ max_weights_vectors \in Seq(Seq(Nat))
  /\ \A k \in 1..Len(max_weights_vectors) :
       LET v == max_weights_vectors[k]
       IN \A m, n \in 1..Len(v) : m <= n => v[n] <= v[m]

VARIABLES
  query,
  K,        \* m_k
  cursor,   \* the kind of the cursors of the index
  terms,    \* the distinct terms of the query, increasing: one list each
  q_weight, \* how many times the query has each of them
  docid,    \* docid() of each cursor
  order,    \* the lists as they are sorted: ordered_enums
  cur_doc,  \* cur_doc, or candidate of ranked_and
  i,        \* the place in the order to look at next
  score,    \* of the document being scored
  next_doc, \* the document after it, of maxscore
  non_essential,  \* non_essential_lists
  upper_bound_cursor, \* of maxscore_dyn: the place of each list in its vector
  upper_bounds,   \* of maxscore_dyn: those computed before the loop
  left_behind,    \* of no variable of the code: whether maxscore_dyn has made
                  \* a list essential that is before the next document
  topk,     \* the scores in m_topk, best first
  pc        \* "loop", "complete", "insert" or "done"

input == <<query, K, cursor, terms, q_weight>>
dyn == <<upper_bound_cursor, upper_bounds, left_behind>>
vars == <<input, dyn, docid, order, cur_doc, i, score, next_doc, non_essential,
          topk, pc>>

count == Len(terms)
freq(k) == index[terms[k]]
Docs(k) == DOMAIN freq(k)


\* position() of a cursor on a document, size() at the end.
Before(k, d) == Cardinality({e \in Docs(k) : e < d})

-----------------------------------------------------------------------------
(* scores and bounds *)

Max0(S) == IF S = {} THEN 0 ELSE Max(S)

IsMaxscore == query \in {"maxscore", "maxscore_dyn"}

doc_term_weight(k, d) ==
  IF ~IsMaxscore /\ d \in long
  THEN (freq(k)[d] + 1) \div 2
  ELSE freq(k)[d]

\* wand_data: the largest frequency of the list.
max_term_weight(k) == Max0({freq(k)[d] : d \in Docs(k)})

\* maxscore_query takes the bound as it is, wand_query times the query weight.
max_weight(k) ==
  IF query = "maxscore" THEN max_term_weight(k)
                        ELSE q_weight[k] * max_term_weight(k)

ScoreOf(d, ks) ==
  MapThenSumSet(LAMBDA k : q_weight[k] * doc_term_weight(k, d), ks)

\* The sum of the bounds of the first p lists of the order.
UpperBound(p) ==
  MapThenSumSet(LAMBDA j : max_weight(order[j]), 1..p)

\* get_current_max_weight() of a list whose cursor is at a place of its vector.
current_max_weight(k, place) ==
  IF place < Len(max_weights_vectors[k]) THEN max_weights_vectors[k][place + 1]
                                         ELSE 0

\* The sums of the current bounds of the first lists of an order.
BoundsOf(o, places) ==
  [p \in 1..count |->
     MapThenSumSet(LAMBDA j : current_max_weight(o[j], places[o[j]]), 1..p)]

\* The vectors of maxscore_dyn are written into the code for the lists of one
\* index: they bound what is left of each list.
VectorsBound ==
  /\ count <= Len(max_weights_vectors)
  /\ \A k \in 1..count : \A d, e \in Docs(k) :
       e <= d => freq(k)[d] <= current_max_weight(k, Before(k, e))

-----------------------------------------------------------------------------
(* topk_queue *)

would_enter(q, s) == Len(q) >= K => s > q[Len(q)]

\* Put into a descending sequence.
Sorted(q, s) ==
  InsertAt(q, Cardinality({j \in 1..Len(q) : q[j] >= s}) + 1, s)

\* Faulty variant: a full queue takes the score in and drops none.
insertGrows(q, s) ==
  IF Len(q) < K \/ s > q[K] THEN Sorted(q, s) ELSE q

insert(q, s) ==
  IF Len(q) < K THEN Sorted(q, s)
  ELSE IF s > q[K] THEN Front(Sorted(q, s))
  ELSE q

-----------------------------------------------------------------------------

\* std::sort: by the key, equal elements in any order.
SortedBy(Key(_), ks) ==
  {o \in [1..Cardinality(ks) -> ks] :
     /\ \A p, q \in 1..Cardinality(ks) : o[p] = o[q] => p = q
     /\ \A p \in 2..Cardinality(ks) : Key(o[p - 1]) <= Key(o[p])}

LeastDocid == Least({docid[k] : k \in 1..count})

Init ==
  /\ query \in Queries
  /\ K \in Sizes
  /\ cursor \in Cursors
  /\ \E m \in ListCounts :
       terms \in {s \in [1..m -> 1..Len(index)] : \A j \in 2..m : s[j - 1] < s[j]}
  /\ \E k \in 1..count : \E r \in Repetitions[query] :
       q_weight = [j \in 1..count |-> IF j = k THEN r ELSE 1]
  /\ docid = [k \in 1..count |-> Least(Docs(k))]
  /\ query = "maxscore_dyn" => VectorsBound
  /\ upper_bound_cursor = [k \in 1..count |-> 0]
  /\ LET Size(k) == Cardinality(Docs(k))
         ByDocid(k) == docid[k]
         ByCurrent(k) == current_max_weight(k, 0)
     IN CASE query = "ranked_and" -> order \in SortedBy(Size, 1..count)
          [] query = "wand" -> order \in SortedBy(ByDocid, 1..count)
          [] query = "maxscore" -> order \in SortedBy(max_weight, 1..count)
          [] query = "maxscore_dyn" -> order \in SortedBy(ByCurrent, 1..count)
          [] OTHER -> order = [k \in 1..count |-> k]
  /\ upper_bounds = IF query = "maxscore_dyn"
                    THEN BoundsOf(order, upper_bound_cursor)
                    ELSE [p \in 1..count |-> 0]
  /\ left_behind = FALSE
  /\ cur_doc = IF query = "ranked_and" THEN docid[order[1]] ELSE LeastDocid
  /\ i = 2
  /\ score = 0
  /\ next_doc = num_docs
  /\ non_essential = 0
  /\ topk = <<>>
  /\ pc = "loop"

\* All the lists of a set move off a document.
MoveOff(ks) ==
  docid' = [k \in 1..count |->
              IF k \in ks THEN After(Docs(k), docid[k]) ELSE docid[k]]

Iterate(q) == pc = "loop" /\ query = q /\ cur_doc < num_docs

-----------------------------------------------------------------------------
(* ranked_or_query *)

OrDocument ==
  /\ Iterate("ranked_or")
  /\ LET on == {k \in 1..count : docid[k] = cur_doc}
     IN /\ topk' = insert(topk, ScoreOf(cur_doc, on))
        /\ MoveOff(on)
  /\ cur_doc' = Least({docid'[k] : k \in 1..count})
  /\ UNCHANGED <<input, dyn, order, i, score, next_doc, non_essential, pc>>

-----------------------------------------------------------------------------
(* ranked_and_query *)

AndProbe ==
  /\ Iterate("ranked_and")
  /\ i <= count
  /\ LET k == order[i]
         d == FirstFrom(Docs(k), cur_doc)
     IN /\ docid' = [docid EXCEPT ![k] = d]
        /\ i' = IF d = cur_doc THEN i + 1 ELSE 1
        /\ cur_doc' = d
  /\ UNCHANGED <<input, dyn, order, score, next_doc, non_essential, topk, pc>>

AndMatch ==
  /\ Iterate("ranked_and")
  /\ i = count + 1
  /\ topk' = insert(topk, ScoreOf(cur_doc, 1..count))
  /\ MoveOff({order[1]})
  /\ cur_doc' = docid'[order[1]]
  /\ i' = 2
  /\ UNCHANGED <<input, dyn, order, score, next_doc, non_essential, pc>>

-----------------------------------------------------------------------------
(* wand_query *)

\* The pivot is the first list up to which the bounds add up to a score that
\* would enter.
IsPivot(p) ==
  /\ \A q \in 1..p : docid[order[q]] # num_docs
  /\ would_enter(topk, UpperBound(p))
  /\ \A q \in 1..(p - 1) : ~would_enter(topk, UpperBound(q))

\* The lists on the pivot document are in front: score it.
WandMatch ==
  /\ pc = "loop" /\ query = "wand"
  /\ \E p \in 1..count :
       /\ IsPivot(p)
       /\ docid[order[p]] = docid[order[1]]
  /\ LET d == docid[order[1]]
         on == {order[q] : q \in {p \in 1..count :
                  \A r \in 1..p : docid[order[r]] = d}}
         ByDocid(k) == docid'[k]
     IN /\ topk' = insert(topk, ScoreOf(d, on))
        /\ MoveOff(on)
        /\ order' \in SortedBy(ByDocid, 1..count)
  /\ UNCHANGED <<input, dyn, cur_doc, i, score, next_doc, non_essential, pc>>

\* The place from goes down past the lists that are before document d.
BubbleDown(from, d) ==
  LET passed == Cardinality({p \in (from + 1)..count :
                  \A q \in (from + 1)..p : docid[order[q]] < d})
  IN [p \in 1..count |->
        IF p < from \/ p > from + passed THEN order[p]
        ELSE IF p < from + passed THEN order[p + 1]
        ELSE order[from]]

\* The last list before the pivot document is moved up to it.
CanAdvance(p, from) ==
  /\ IsPivot(p)
  /\ docid[order[from]] # docid[order[p]]
  /\ \A q \in (from + 1)..p : docid[order[q]] = docid[order[p]]

\* Faulty variant: the moved list stays where it was in the order.
WandAdvanceUnordered ==
  /\ pc = "loop" /\ query = "wand"
  /\ \E p \in 1..count : \E from \in 1..p :
       /\ CanAdvance(p, from)
       /\ docid[order[p]] # docid[order[1]]
       /\ docid' = [docid EXCEPT ![order[from]] =
                      FirstFrom(Docs(order[from]), docid[order[p]])]
  /\ UNCHANGED <<input, dyn, order, cur_doc, i, score, next_doc, non_essential,
                 topk, pc>>

\* Faulty variant: the list that is moved is on the pivot already.
WandAdvancePivot ==
  /\ pc = "loop" /\ query = "wand"
  /\ \E p \in 1..count :
       /\ IsPivot(p)
       /\ docid[order[p]] # docid[order[1]]
       /\ docid' = [docid EXCEPT ![order[p]] =
                      FirstFrom(Docs(order[p]), docid[order[p]])]
       /\ order' = BubbleDown(p, docid'[order[p]])
  /\ UNCHANGED <<input, dyn, cur_doc, i, score, next_doc, non_essential, topk, pc>>

WandAdvance ==
  /\ pc = "loop" /\ query = "wand"
  /\ \E p \in 1..count : \E from \in 1..p :
       /\ CanAdvance(p, from)
       /\ docid[order[p]] # docid[order[1]]
       /\ docid' = [docid EXCEPT ![order[from]] =
                      FirstFrom(Docs(order[from]), docid[order[p]])]
       /\ order' = BubbleDown(from, docid'[order[from]])
  /\ UNCHANGED <<input, dyn, cur_doc, i, score, next_doc, non_essential, topk, pc>>

WandFinish ==
  /\ pc = "loop" /\ query = "wand"
  /\ ~\E p \in 1..count : IsPivot(p)
  /\ pc' = "done"
  /\ UNCHANGED <<input, dyn, docid, order, cur_doc, i, score, next_doc,
                 non_essential, topk>>

-----------------------------------------------------------------------------
(* maxscore_query, maxscore_dyn_query *)

\* The lists that can bring a new score into the queue by themselves.
Essential == {order[p] : p \in (non_essential + 1)..count}

MaxscoreEssential ==
  /\ Iterate("maxscore") \/ Iterate("maxscore_dyn")
  /\ non_essential < count
  /\ LET on == {k \in Essential : docid[k] = cur_doc}
     IN /\ score' = ScoreOf(cur_doc, on)
        /\ MoveOff(on)
        /\ next_doc' = Least({docid'[k] : k \in Essential})
        /\ upper_bound_cursor' =
             [k \in 1..count |-> upper_bound_cursor[k]
                + IF query = "maxscore_dyn" /\ k \in on THEN 1 ELSE 0]
  /\ i' = non_essential
  /\ pc' = "complete"
  /\ UNCHANGED <<input, upper_bounds, left_behind, order, cur_doc,
                 non_essential, topk>>

\* The bound of the lists that are not completed yet: maxscore_dyn has it from
\* before the loop, whatever the order is by now.
RestBound(p) == IF query = "maxscore_dyn" THEN upper_bounds[p] ELSE UpperBound(p)

\* next_geq for a document that a cursor may have passed: a block cursor stays
\* (its assertion is not there in a release), a sequence looks from its front.
next_geq(k, d) ==
  IF cursor = "block" /\ docid[k] >= d THEN docid[k] ELSE FirstFrom(Docs(k), d)

\* position() after that: a block cursor that goes to the end leaves it alone.
PlaceAt(k, d) ==
  IF cursor = "block" /\ d = num_docs THEN upper_bound_cursor[k] ELSE Before(k, d)

\* Faulty variant: the other lists are left out when the score of the essential
\* lists alone would not enter.
MaxscoreCompleteGivesUp ==
  /\ pc = "complete"
  /\ IF i > 0 /\ would_enter(topk, score)
     THEN LET k == order[i]
          IN /\ docid' = [docid EXCEPT ![k] = next_geq(k, cur_doc)]
             /\ score' = IF docid'[k] = cur_doc
                         THEN score + q_weight[k] * doc_term_weight(k, cur_doc)
                         ELSE score
             /\ i' = i - 1
             /\ UNCHANGED pc
     ELSE /\ pc' = "insert"
          /\ UNCHANGED <<docid, score, i>>
  /\ UNCHANGED <<input, dyn, order, cur_doc, next_doc, non_essential, topk>>

\* A list may be past cur_doc already.
MaxscoreComplete ==
  /\ pc = "complete"
  /\ IF i > 0 /\ would_enter(topk, score + RestBound(i))
     THEN LET k == order[i]
          IN /\ docid' = [docid EXCEPT ![k] = next_geq(k, cur_doc)]
             /\ upper_bound_cursor' =
                  IF query = "maxscore_dyn"
                  THEN [upper_bound_cursor EXCEPT ![k] = PlaceAt(k, docid'[k])]
                  ELSE upper_bound_cursor
             /\ score' = IF docid'[k] = cur_doc
                         THEN score + q_weight[k] * doc_term_weight(k, cur_doc)
                         ELSE score
             /\ i' = i - 1
             /\ UNCHANGED pc
     ELSE /\ pc' = "insert"
          /\ UNCHANGED <<docid, upper_bound_cursor, score, i>>
  /\ UNCHANGED <<input, upper_bounds, left_behind, order, cur_doc, next_doc,
                 non_essential, topk>>

\* The lists whose bounds together cannot enter any more are not essential.
MaxscoreInsert ==
  /\ pc = "insert" /\ query = "maxscore"
  /\ topk' = insert(topk, score)
  /\ non_essential' =
       IF would_enter(topk, score)
       THEN Min({p \in non_essential..count :
                   p = count \/ would_enter(topk', UpperBound(p + 1))})
       ELSE non_essential
  /\ cur_doc' = next_doc
  /\ pc' = "loop"
  /\ UNCHANGED <<input, dyn, docid, order, i, score, next_doc>>

\* maxscore_dyn sorts the lists by what is left of them and starts again: a
\* list may become essential again, before the next document.
MaxscoreDynInsert ==
  /\ pc = "insert" /\ query = "maxscore_dyn"
  /\ topk' = insert(topk, score)
  /\ LET ByCurrent(k) == current_max_weight(k, upper_bound_cursor[k])
     IN order' \in SortedBy(ByCurrent, 1..count)
  /\ LET bounds == BoundsOf(order', upper_bound_cursor)
     IN non_essential' = Min({p \in 0..count :
                            p = count \/ would_enter(topk', bounds[p + 1])})
  /\ left_behind' = (left_behind \/ \E p \in (non_essential' + 1)..count :
                                     docid[order'[p]] < next_doc)
  /\ cur_doc' = next_doc
  /\ pc' = "loop"
  /\ UNCHANGED <<input, upper_bound_cursor, upper_bounds, docid, i, score,
                 next_doc>>

-----------------------------------------------------------------------------

Finish ==
  /\ pc = "loop" /\ query # "wand"
  /\ cur_doc >= num_docs \/ (IsMaxscore /\ non_essential = count)
  /\ pc' = "done"
  /\ UNCHANGED <<input, dyn, docid, order, cur_doc, i, score, next_doc,
                 non_essential, topk>>

Next ==
  \/ OrDocument
  \/ AndProbe \/ AndMatch
  \/ WandMatch \/ WandAdvance \/ WandFinish
  \/ MaxscoreEssential \/ MaxscoreComplete \/ MaxscoreInsert
  \/ MaxscoreDynInsert
  \/ Finish

Spec == Init /\ [][Next]_vars
FairSpec == Spec /\ WF_vars(Next)

-----------------------------------------------------------------------------
(* Properties *)

TypeOK ==
  /\ docid \in [1..count -> 0..num_docs]
  /\ order \in [1..count -> 1..count]
  /\ cur_doc \in 0..num_docs
  /\ i \in 0..(count + 1) \/ i = 2
  /\ score \in Nat
  /\ next_doc \in 0..num_docs
  /\ non_essential \in 0..count
  /\ topk \in Seq(Nat) /\ Len(topk) <= K
  /\ pc \in {"loop", "complete", "insert", "done"}

Candidates ==
  IF query = "ranked_and"
  THEN {d \in Document : \A k \in 1..count : d \in Docs(k)}
  ELSE {d \in Document : \E k \in 1..count : d \in Docs(k)}

FullScore(d) == ScoreOf(d, {k \in 1..count : d \in Docs(k)})

\* A queue holds the K best scores of a set of documents, best first: it
\* reaches every score as often as the documents do, up to K times.
IsBestOf(q, D) ==
  LET full == [d \in D |-> FullScore(d)]
  IN /\ \A j \in 2..Len(q) : q[j - 1] >= q[j]
     /\ Len(q) = Min({K, Cardinality(D)})
     /\ \A s \in Range(q) \cup Range(full) :
          Cardinality({j \in 1..Len(q) : q[j] >= s})
            = Min({K, Cardinality({d \in D : full[d] >= s})})

Frontier ==
  CASE pc = "done" -> num_docs
    [] pc # "done" /\ query = "wand" -> docid[order[1]]
    [] OTHER -> cur_doc

\* At every turn of the loop the queue holds the K best of all the scores of
\* the documents before the current one, those that were never scored among
\* them; at the end, the K best scores of the query (test_ranked_queries.cpp
\* compares them with ranked_or_query's).  maxscore_dyn keeps to it as long as
\* no list it had left behind becomes essential again.
TopkIsBestSoFar ==
  pc \in {"loop", "done"} /\ ~left_behind =>
    IsBestOf(topk, {d \in Candidates : d < Frontier})

\* Whatever list was moved, and bubbled down, the order is by document: the
\* bounds that choose a pivot are those of the lists before it.
OrderedByDocid ==
  query = "wand" =>
    /\ \A p \in 2..count : docid[order[p - 1]] <= docid[order[p]]
    /\ {order[p] : p \in 1..count} = 1..count

\* Every query comes to an end, if maxscore_dyn has left no list behind.
Terminates == <>(pc = "done" \/ left_behind)

\* maxscore_dyn comes to an end with the K best scores, whenever its vectors
\* bound the lists.  It does not: a list that was left behind becomes essential
\* again, cur_doc goes back to its document, and the next one is scored twice,
\* each time without some of the lists; sequences that are looked up from their
\* front make the loop go on for ever.
MaxscoreDynAnswers ==
  query = "maxscore_dyn" => <>(pc = "done" /\ IsBestOf(topk, Candidates))
=============================================================================
