------------------------ MODULE BooleanQueriesProofs ------------------------
(***************************************************************************)
(* and_query and or_query count every document of the intersection or of   *)
(* the union once, for every index and every query.                        *)
(*                                                                         *)
(* CountedBeforeCandidate is not inductive: the step to a new candidate    *)
(* leaves out no document because the cursor that proposes it is on its    *)
(* first document from the old candidate on.  OnNextDocument says so of    *)
(* or_query, whose cursors were moved in earlier steps; and_query moves    *)
(* the cursor in the step itself.                                          *)
(***************************************************************************)
EXTENDS BooleanQueries, FiniteSetTheorems, TLAPS

Numbers == INSTANCE SortedSequencesProofs

-----------------------------------------------------------------------------
(* Where the cursors land. *)

\* The documents are numbers below num_docs, which stands for the end.
LEMMA Documents ==
  /\ num_docs \in Nat /\ num_docs > 0
  /\ \A S \in SUBSET Document : \A d \in S : d \in Nat /\ d < num_docs
BY NumDocsAssumption DEF NumDocsAssumption, Document

\* What FirstFrom finds: num_docs when no document is left.
LEMMA FirstFromFinds ==
  ASSUME NEW S \in SUBSET (0..num_docs), NEW b \in Nat
  PROVE  /\ FirstFrom(S, b) \in S \cup {num_docs}
         /\ FirstFrom(S, b) \in 0..num_docs
         /\ FirstFrom(S, b) >= b \/ FirstFrom(S, b) = num_docs
         /\ \A e \in S : e >= b => FirstFrom(S, b) <= e
<1> DEFINE Found(d) == /\ d >= b \/ d = num_docs
                       /\ \A e \in S : e >= b => d <= e
<1>1. num_docs \in Nat
  BY NumDocsAssumption DEF NumDocsAssumption
<1>2. \E d \in S \cup {num_docs} : Found(d)
  BY <1>1, Numbers!FirstExists
<1>3. FirstFrom(S, b) = CHOOSE d \in S \cup {num_docs} : Found(d)
  BY DEF FirstFrom
<1>4. FirstFrom(S, b) \in S \cup {num_docs} /\ Found(FirstFrom(S, b))
  BY <1>2, <1>3
<1>5. S \cup {num_docs} \subseteq 0..num_docs
  BY <1>1
<1> QED
  BY <1>4, <1>5

\* FirstFrom on a posting list, as next() and next_geq() use it.
LEMMA FirstFromInList ==
  ASSUME NEW S \in SUBSET Document, NEW b \in 0..num_docs
  PROVE  /\ FirstFrom(S, b) \in S \cup {num_docs}
         /\ FirstFrom(S, b) \in 0..num_docs
         /\ b <= FirstFrom(S, b)
         /\ \A e \in S : e >= b => FirstFrom(S, b) <= e
<1>1. S \in SUBSET (0..num_docs) /\ b \in Nat /\ b <= num_docs
  BY Documents DEF Document
<1> QED
  BY <1>1, FirstFromFinds, Documents

LEMMA LeastIsFirst ==
  ASSUME NEW S \in SUBSET Document
  PROVE  /\ Least(S) \in S \cup {num_docs}
         /\ Least(S) \in 0..num_docs
         /\ \A e \in S : Least(S) <= e
<1>1. 0 \in 0..num_docs /\ \A e \in S : e >= 0
  BY Documents
<1> QED
  BY <1>1, FirstFromInList DEF Least

\* The least of the documents the cursors are on is one of them.
LEMMA LeastCursor ==
  ASSUME NEW n \in Nat, n # 0, NEW on \in [1..n -> 0..num_docs]
  PROVE  LET c == Least({on[k] : k \in 1..n})
         IN  /\ c \in 0..num_docs
             /\ c = num_docs \/ \E k \in 1..n : on[k] = c
             /\ \A k \in 1..n : c <= on[k]
<1> DEFINE S == {on[k] : k \in 1..n}
<1>1. S \in SUBSET (0..num_docs)
  OBVIOUS
<1>2. /\ Least(S) \in S \cup {num_docs} /\ Least(S) \in 0..num_docs
      /\ \A e \in S : e >= 0 => Least(S) <= e
  BY <1>1, FirstFromFinds DEF Least
<1>3. \A k \in 1..n : on[k] \in S /\ on[k] >= 0
  OBVIOUS
<1> QED
  BY <1>2, <1>3

-----------------------------------------------------------------------------
(* The inductive invariant *)

\* Each cursor of or_query is on its first document from cur_doc on, and one of
\* them is on cur_doc.
OnNextDocument ==
  query = "or" =>
    /\ \A k \in 1..count : \A e \in lists[k] : e >= candidate => docid[k] <= e
    /\ candidate = num_docs \/ \E k \in 1..count : docid[k] = candidate

AtTheEnd == (pc = "done" => candidate = num_docs) /\ (count = 0 => candidate = num_docs)

IInv ==
  /\ TypeOK
  /\ CountedBeforeCandidate
  /\ CursorsKeepUp
  /\ MatchIsOnAllLists
  /\ OnNextDocument
  /\ AtTheEnd

Counted(c) == {d \in Answer : d < c}

-----------------------------------------------------------------------------
(* Lemmas *)

LEMMA AnswerIsNumbers == \A e \in Answer : e \in Nat /\ e < num_docs
BY Documents DEF Answer, Document

LEMMA AnswerFinite ==
  ASSUME NEW c \in Nat
  PROVE  IsFiniteSet(Counted(c)) /\ Cardinality(Counted(c)) \in Nat
<1>1. Counted(c) \subseteq 0..(num_docs - 1)
  BY DEF Counted, Answer, Document
<1>2. IsFiniteSet(0..(num_docs - 1))
  BY Documents, FS_Interval
<1> QED
  BY <1>1, <1>2, FS_Subset, FS_CardinalityType

\* Counting the document at hand moves the count to the next candidate, when no
\* document of the answer lies between them.
LEMMA CountOne ==
  ASSUME NEW c \in Nat, NEW d \in Nat, c < d,
         c \in Answer,
         \A e \in Answer : e <= c \/ d <= e
  PROVE  Cardinality(Counted(d)) = Cardinality(Counted(c)) + 1
<1>1. Answer \subseteq Nat
  BY Documents DEF Answer, Document
<1>2. \A e \in Answer : e < d <=> (e < c \/ e = c)
  BY <1>1
<1>3. Counted(d) = Counted(c) \cup {c}
  BY <1>2 DEF Counted
<1>4. c \notin Counted(c)
  BY DEF Counted
<1> QED
  BY <1>3, <1>4, AnswerFinite, FS_AddElement

LEMMA CountNone ==
  ASSUME NEW c \in Nat, NEW d \in Nat, c <= d,
         \A e \in Answer : e < c \/ d <= e
  PROVE  Counted(d) = Counted(c)
<1>1. Answer \subseteq Nat
  BY Documents DEF Answer, Document
<1>2. \A e \in Answer : e < d <=> e < c
  BY <1>1
<1> QED
  BY <1>2 DEF Counted

-----------------------------------------------------------------------------
(* The invariant holds *)

LEMMA InitInv == Init => IInv
<1> SUFFICES ASSUME Init PROVE IInv
  OBVIOUS
<1>1. /\ query \in {"and", "or"} /\ count \in ListCounts /\ count \in Nat
      /\ lists \in [1..count -> SUBSET Document]
      /\ docid = [k \in 1..count |-> Least(lists[k])]
      /\ i = 2 /\ results = 0 /\ pc = "loop"
      /\ candidate = IF count = 0 THEN num_docs
                     ELSE IF query = "and" THEN docid[1]
                     ELSE Least({docid[k] : k \in 1..count})
  BY ListCountsAssumption DEF Init, ListCountsAssumption
<1>2. \A k \in 1..count :
        /\ lists[k] \in SUBSET Document
        /\ docid[k] = Least(lists[k])
        /\ docid[k] \in lists[k] \cup {num_docs}
        /\ docid[k] \in 0..num_docs
        /\ \A e \in lists[k] : docid[k] <= e
  BY <1>1, LeastIsFirst
<1>3. docid \in [1..count -> 0..num_docs]
  BY <1>1, <1>2
<1>4. ASSUME query = "or", count # 0
      PROVE  /\ candidate \in 0..num_docs
             /\ candidate = num_docs \/ \E k \in 1..count : docid[k] = candidate
             /\ \A k \in 1..count : candidate <= docid[k]
  BY <1>1, <1>3, <1>4, LeastCursor
<1>5. ASSUME query = "and", count # 0
      PROVE  1 \in 1..count /\ candidate = docid[1]
  BY <1>1, <1>5
<1>6. candidate \in 0..num_docs
  BY <1>1, <1>2, <1>4, <1>5, Documents
<1>7. TypeOK
  BY <1>1, <1>2, <1>3, <1>6 DEF TypeOK
<1>8. CountedBeforeCandidate
  <2> SUFFICES ASSUME count # 0 PROVE Counted(candidate) = {}
    BY <1>1, FS_EmptySet DEF CountedBeforeCandidate, Counted
  <2> SUFFICES ASSUME NEW e \in Answer PROVE candidate <= e
    BY <1>6, AnswerIsNumbers DEF Counted
  <2>1. CASE query = "and"
    <3>1. e \in lists[1]
      BY <1>5, <2>1 DEF Answer
    <3> QED
      BY <1>2, <1>5, <2>1, <3>1
  <2>2. CASE query = "or"
    <3>1. PICK k \in 1..count : e \in lists[k]
      BY <2>2 DEF Answer
    <3>2. candidate <= docid[k] /\ docid[k] <= e
      BY <1>2, <1>4, <2>2, <3>1
    <3> QED
      BY <1>2, <1>6, <3>2, AnswerIsNumbers
  <2> QED
    BY <1>1, <2>1, <2>2
<1>9. CursorsKeepUp
  BY <1>1, <1>2, <1>4 DEF CursorsKeepUp
<1>10. MatchIsOnAllLists
  <2> SUFFICES ASSUME query = "and", NEW k \in 1..(i - 1), k <= count
               PROVE  docid[k] = candidate
    BY DEF MatchIsOnAllLists
  <2>1. k = 1 /\ count # 0
    BY <1>1
  <2> QED
    BY <1>5, <2>1
<1>11. OnNextDocument
  BY <1>1, <1>2, <1>4 DEF OnNextDocument
<1>12. AtTheEnd
  BY <1>1 DEF AtTheEnd
<1> QED
  BY <1>7, <1>8, <1>9, <1>10, <1>11, <1>12 DEF IInv

\* What the invariant says of the cursors, with the types the steps need.
LEMMA InvFacts ==
  ASSUME IInv
  PROVE  /\ query \in {"and", "or"} /\ count \in ListCounts /\ count \in Nat
         /\ candidate \in 0..num_docs /\ results \in Nat /\ i \in Nat
         /\ \A k \in 1..count : /\ lists[k] \in SUBSET Document
                                /\ docid[k] \in lists[k] \cup {num_docs}
                                /\ docid[k] \in 0..num_docs
BY ListCountsAssumption DEF IInv, TypeOK, ListCountsAssumption

LEMMA AndProbeInv == IInv /\ AndProbe => IInv'
<1> SUFFICES ASSUME IInv, AndProbe PROVE IInv'
  OBVIOUS
<1> USE InvFacts, Documents
<1>1. query = "and" /\ candidate < num_docs /\ i <= count /\ pc = "loop"
  BY DEF AndProbe
<1>2. i \in 1..count
  BY <1>1 DEF IInv, TypeOK
<1> DEFINE d == FirstFrom(lists[i], candidate)
<1>3. /\ d \in lists[i] \cup {num_docs} /\ d \in 0..num_docs
      /\ candidate <= d
      /\ \A e \in lists[i] : e >= candidate => d <= e
  BY <1>1, <1>2, FirstFromInList
<1>4. /\ docid' = [docid EXCEPT ![i] = d]
      /\ i' = IF d = candidate THEN i + 1 ELSE 1
      /\ candidate' = d
      /\ UNCHANGED <<query, count, lists, results, pc>>
  BY DEF AndProbe
<1> HIDE DEF d
<1>5. /\ docid \in [1..count -> 0..num_docs]
      /\ docid' \in [1..count -> 0..num_docs]
      /\ docid'[i] = d
      /\ \A k \in 1..count : k # i => docid'[k] = docid[k]
  BY <1>2, <1>3, <1>4 DEF IInv, TypeOK
<1>6. TypeOK'
  <2>1. i' \in 1..(count' + 1)
    BY <1>2, <1>4
  <2>2. \A k \in 1..count' : docid'[k] \in lists'[k] \cup {num_docs}
    BY <1>3, <1>4, <1>5
  <2> QED
    BY <1>3, <1>4, <1>5, <2>1, <2>2 DEF IInv, TypeOK
<1>7. CountedBeforeCandidate'
  <2>1. \A e \in Answer : e < candidate \/ d <= e
    <3> TAKE e \in Answer
    <3>1. e \in lists[i] /\ e \in Nat
      BY <1>1, <1>2, AnswerIsNumbers DEF Answer
    <3> QED
      BY <1>3, <3>1
  <2>2. Counted(d) = Counted(candidate)
    BY <1>3, <2>1, CountNone
  <2>3. Answer' = Answer
    BY <1>4 DEF Answer
  <2>4. {e \in Answer' : e < candidate'} = Counted(d)
    BY <1>4, <2>3 DEF Counted
  <2>5. count # 0 => results = Cardinality(Counted(candidate))
    BY DEF IInv, CountedBeforeCandidate, Counted
  <2> QED
    BY <1>4, <2>2, <2>4, <2>5 DEF CountedBeforeCandidate
<1>8. CursorsKeepUp'
  <2> SUFFICES ASSUME NEW k \in 1..count
               PROVE  docid'[k] <= d \/ docid'[k] = Least(lists[k])
    BY <1>1, <1>4 DEF CursorsKeepUp
  <2>1. docid[k] <= candidate \/ docid[k] = Least(lists[k])
    BY <1>1 DEF IInv, CursorsKeepUp
  <2> QED
    BY <1>3, <1>5, <2>1
<1>9. MatchIsOnAllLists'
  <2> SUFFICES ASSUME NEW k \in 1..(i' - 1), k <= count
               PROVE  docid'[k] = d
    BY <1>4 DEF MatchIsOnAllLists
  <2>1. d = candidate /\ k \in 1..i
    BY <1>2, <1>4
  <2>2. k # i => docid[k] = candidate
    BY <1>1, <2>1 DEF IInv, MatchIsOnAllLists
  <2> QED
    BY <1>5, <2>1, <2>2
<1>10. OnNextDocument' /\ AtTheEnd'
  BY <1>1, <1>2, <1>4 DEF OnNextDocument, AtTheEnd
<1> QED
  BY <1>6, <1>7, <1>8, <1>9, <1>10 DEF IInv

LEMMA AndMatchInv == IInv /\ AndMatch => IInv'
<1> SUFFICES ASSUME IInv, AndMatch PROVE IInv'
  OBVIOUS
<1> USE InvFacts, Documents
<1>1. query = "and" /\ candidate < num_docs /\ i = count + 1 /\ pc = "loop"
  BY DEF AndMatch
<1>2. count # 0 /\ 1 \in 1..count
  BY <1>1 DEF IInv, AtTheEnd
<1>3. \A k \in 1..count : docid[k] = candidate
  BY <1>1 DEF IInv, MatchIsOnAllLists
<1> DEFINE d == FirstFrom(lists[1], candidate + 1)
<1>4. /\ d \in lists[1] \cup {num_docs} /\ d \in 0..num_docs
      /\ candidate + 1 <= d
      /\ \A e \in lists[1] : e >= candidate + 1 => d <= e
  <2>1. candidate + 1 \in 0..num_docs /\ lists[1] \in SUBSET Document
    BY <1>1, <1>2
  <2> QED
    BY <2>1, FirstFromInList
<1>5. /\ docid' = [docid EXCEPT ![1] = d]
      /\ candidate' = docid'[1]
      /\ results' = results + 1 /\ i' = 2
      /\ UNCHANGED <<query, count, lists, pc>>
  BY <1>2, <1>3 DEF AndMatch, After
<1> HIDE DEF d
<1>6. /\ docid' \in [1..count -> 0..num_docs]
      /\ docid'[1] = d /\ candidate' = d
      /\ \A k \in 1..count : k # 1 => docid'[k] = candidate
  BY <1>2, <1>3, <1>4, <1>5 DEF IInv, TypeOK
<1>7. TypeOK'
  <2>1. \A k \in 1..count' : docid'[k] \in lists'[k] \cup {num_docs}
    BY <1>3, <1>4, <1>5, <1>6
  <2> QED
    BY <1>4, <1>5, <1>6, <2>1 DEF IInv, TypeOK
<1>8. CountedBeforeCandidate'
  <2>1. candidate \in Answer
    <3>1. \A k \in 1..count : candidate \in lists[k]
      BY <1>1, <1>3
    <3> QED
      BY <1>1, <3>1 DEF Answer, Document
  <2>2. \A e \in Answer : e <= candidate \/ d <= e
    <3> TAKE e \in Answer
    <3>1. e \in lists[1] /\ e \in Nat
      BY <1>1, <1>2, AnswerIsNumbers DEF Answer
    <3> QED
      BY <1>4, <3>1
  <2>3. Cardinality(Counted(d)) = Cardinality(Counted(candidate)) + 1
    BY <1>4, <2>1, <2>2, CountOne
  <2>4. Answer' = Answer
    BY <1>5 DEF Answer
  <2>5. {e \in Answer' : e < candidate'} = Counted(d)
    BY <1>6, <2>4 DEF Counted
  <2>6. results = Cardinality(Counted(candidate))
    BY <1>2 DEF IInv, CountedBeforeCandidate, Counted
  <2> QED
    BY <1>5, <2>3, <2>5, <2>6 DEF CountedBeforeCandidate
<1>9. CursorsKeepUp'
  BY <1>1, <1>4, <1>5, <1>6 DEF CursorsKeepUp
<1>10. MatchIsOnAllLists'
  <2> SUFFICES ASSUME NEW k \in 1..(i' - 1), k <= count
               PROVE  docid'[k] = d
    BY <1>5, <1>6 DEF MatchIsOnAllLists
  <2>1. k = 1
    BY <1>5
  <2> QED
    BY <1>6, <2>1
<1>11. OnNextDocument' /\ AtTheEnd'
  BY <1>1, <1>2, <1>5 DEF OnNextDocument, AtTheEnd
<1> QED
  BY <1>7, <1>8, <1>9, <1>10, <1>11 DEF IInv

LEMMA OrDocumentInv == IInv /\ OrDocument => IInv'
<1> SUFFICES ASSUME IInv, OrDocument PROVE IInv'
  OBVIOUS
<1> USE InvFacts, Documents
<1>1. query = "or" /\ candidate < num_docs /\ pc = "loop"
  BY DEF OrDocument
<1>2. /\ docid' = [k \in 1..count |->
                     IF docid[k] = candidate THEN After(lists[k], docid[k])
                                             ELSE docid[k]]
      /\ candidate' = Least({docid'[k] : k \in 1..count})
      /\ results' = results + 1
      /\ UNCHANGED <<query, count, lists, i, pc>>
  BY DEF OrDocument
<1>3. count # 0 /\ \E k \in 1..count : docid[k] = candidate
  BY <1>1 DEF IInv, AtTheEnd, OnNextDocument
<1>4. \A k \in 1..count :
        /\ docid'[k] \in lists[k] \cup {num_docs}
        /\ docid'[k] \in 0..num_docs
        /\ candidate < docid'[k]
        /\ \A e \in lists[k] : candidate < e => docid'[k] <= e
  <2> TAKE k \in 1..count
  <2>1. CASE docid[k] = candidate
    <3> DEFINE d == FirstFrom(lists[k], candidate + 1)
    <3>1. docid'[k] = d
      BY <1>2, <2>1 DEF After
    <3>2. candidate + 1 \in 0..num_docs /\ lists[k] \in SUBSET Document
      BY <1>1
    <3>3. /\ d \in lists[k] \cup {num_docs} /\ d \in 0..num_docs
          /\ candidate + 1 <= d
          /\ \A e \in lists[k] : e >= candidate + 1 => d <= e
      BY <3>2, FirstFromInList
    <3>4. \A e \in lists[k] : e \in Nat
      BY <3>2
    <3> HIDE DEF d
    <3> QED
      BY <3>1, <3>3, <3>4
  <2>2. CASE docid[k] # candidate
    <3>1. docid'[k] = docid[k]
      BY <1>2, <2>2
    <3>2. candidate <= docid[k]
      BY <1>1 DEF IInv, CursorsKeepUp
    <3>3. \A e \in lists[k] : e >= candidate => docid[k] <= e
      BY <1>1 DEF IInv, OnNextDocument
    <3> QED
      BY <2>2, <3>1, <3>2, <3>3
  <2> QED
    BY <2>1, <2>2
<1>5. docid' \in [1..count -> 0..num_docs]
  <2>1. docid' = [k \in 1..count |-> docid'[k]]
    BY <1>2
  <2> QED
    BY <1>4, <2>1
<1>6. /\ candidate' \in 0..num_docs
      /\ candidate' = num_docs \/ \E k \in 1..count : docid'[k] = candidate'
      /\ \A k \in 1..count : candidate' <= docid'[k]
  BY <1>2, <1>3, <1>5, LeastCursor
<1>7. candidate < candidate'
  BY <1>1, <1>4, <1>6
<1>8. TypeOK'
  BY <1>2, <1>4, <1>5, <1>6 DEF IInv, TypeOK
<1>9. \A k \in 1..count : \A e \in lists[k] : candidate < e => docid'[k] <= e
  BY <1>4
<1>10. CountedBeforeCandidate'
  <2>1. candidate \in Answer
    <3>1. \E k \in 1..count : candidate \in lists[k]
      BY <1>1, <1>3
    <3> QED
      BY <1>1, <3>1 DEF Answer, Document
  <2>2. \A e \in Answer : e <= candidate \/ candidate' <= e
    <3> TAKE e \in Answer
    <3>1. PICK k \in 1..count : e \in lists[k]
      BY <1>1 DEF Answer
    <3>2. e \in Nat
      BY AnswerIsNumbers
    <3>3. candidate < e => docid'[k] <= e
      BY <1>9, <3>1
    <3>4. candidate' <= docid'[k] /\ docid'[k] \in Nat /\ candidate' \in Nat
      BY <1>4, <1>6
    <3> QED
      BY <3>2, <3>3, <3>4
  <2>3. Cardinality(Counted(candidate')) = Cardinality(Counted(candidate)) + 1
    BY <1>6, <1>7, <2>1, <2>2, CountOne
  <2>4. Answer' = Answer
    BY <1>2 DEF Answer
  <2>5. {e \in Answer' : e < candidate'} = {e \in Answer : e < candidate'}
    BY <2>4
  <2>6. results = Cardinality(Counted(candidate))
    BY <1>3 DEF IInv, CountedBeforeCandidate, Counted
  <2>7. results' = Cardinality({e \in Answer : e < candidate'})
    BY <1>2, <2>3, <2>6 DEF Counted
  <2> QED
    BY <2>5, <2>7 DEF CountedBeforeCandidate
<1>11. CursorsKeepUp' /\ MatchIsOnAllLists' /\ AtTheEnd'
  BY <1>1, <1>2, <1>3, <1>6 DEF CursorsKeepUp, MatchIsOnAllLists, AtTheEnd
<1>12. OnNextDocument'
  <2> SUFFICES ASSUME NEW k \in 1..count, NEW e \in lists[k], e >= candidate'
               PROVE  docid'[k] <= e
    BY <1>2, <1>6 DEF OnNextDocument
  <2>1. e \in Nat
    OBVIOUS
  <2>2. candidate < e
    BY <1>6, <1>7, <2>1
  <2> QED
    BY <1>9, <2>2
<1> QED
  BY <1>8, <1>10, <1>11, <1>12 DEF IInv

LEMMA FinishInv == IInv /\ Finish => IInv'
<1> SUFFICES ASSUME IInv, Finish PROVE IInv'
  OBVIOUS
<1>1. /\ candidate >= num_docs /\ pc' = "done"
      /\ UNCHANGED <<query, count, lists, docid, candidate, i, results>>
  BY DEF Finish
<1>2. candidate' = num_docs
  BY <1>1, InvFacts, Documents
<1>3. TypeOK' /\ MatchIsOnAllLists' /\ OnNextDocument' /\ AtTheEnd'
  BY <1>1, <1>2 DEF IInv, TypeOK, MatchIsOnAllLists, OnNextDocument, AtTheEnd
<1>4. CursorsKeepUp'
  BY <1>1 DEF IInv, CursorsKeepUp
<1>5. Answer' = Answer
  BY <1>1 DEF Answer
<1>6. CountedBeforeCandidate'
  BY <1>1, <1>5 DEF IInv, CountedBeforeCandidate
<1> QED
  BY <1>3, <1>4, <1>6 DEF IInv

LEMMA StutterInv == IInv /\ UNCHANGED vars => IInv'
<1> SUFFICES ASSUME IInv, UNCHANGED vars PROVE IInv'
  OBVIOUS
<1>1. UNCHANGED <<query, count, lists, docid, candidate, i, results, pc>>
  BY DEF vars
<1>2. Answer' = Answer
  BY <1>1 DEF Answer
<1>3. CountedBeforeCandidate'
  BY <1>1, <1>2 DEF IInv, CountedBeforeCandidate
<1>4. TypeOK' /\ CursorsKeepUp' /\ MatchIsOnAllLists'
  BY <1>1 DEF IInv, TypeOK, CursorsKeepUp, MatchIsOnAllLists
<1>5. OnNextDocument' /\ AtTheEnd'
  BY <1>1 DEF IInv, OnNextDocument, AtTheEnd
<1> QED
  BY <1>3, <1>4, <1>5 DEF IInv

-----------------------------------------------------------------------------
(* Theorems *)

\* The inductive invariant: the two loops keep their cursors, their candidate
\* and their count consistent, for every index and every query.
THEOREM Invariance == Spec => []IInv
<1>1. IInv /\ [Next]_vars => IInv'
  BY AndProbeInv, AndMatchInv, OrDocumentInv, FinishInv, StutterInv DEF Next
<1> QED
  BY InitInv, <1>1, PTL DEF Spec

\* The state of and_query and or_query has the type declared for it: a cursor is
\* always on a posting of its list or at num_docs, and the loops look at no list
\* that is not there.
THEOREM TypeCorrect == Spec => []TypeOK
<1>1. IInv => TypeOK
  BY DEF IInv
<1> QED
  BY <1>1, Invariance, PTL

\* The loops count every document of the answer before the candidate, once.
THEOREM CountedOnce == Spec => []CountedBeforeCandidate
<1>1. IInv => CountedBeforeCandidate
  BY DEF IInv
<1> QED
  BY <1>1, Invariance, PTL

\* A list is only asked for a document at or after the one it is on, unless it is
\* still on its first posting (the assertion of block_posting_list::next_geq).
THEOREM Ascending == Spec => []CursorsKeepUp
<1>1. IInv => CursorsKeepUp
  BY DEF IInv
<1> QED
  BY <1>1, Invariance, PTL

\* When a match of an intersection is counted and its frequencies are read, every
\* list is on the candidate.
THEOREM MatchOnAll == Spec => []MatchIsOnAllLists
<1>1. IInv => MatchIsOnAllLists
  BY DEF IInv
<1> QED
  BY <1>1, Invariance, PTL

\* What the queries return: the cardinality of the intersection, or of the union,
\* of the lists of the query.
Returned == pc = "done" /\ count # 0 => results = Cardinality(Answer)

\* When a query with a term returns, its result is the cardinality of the answer.
THEOREM ReturnsCardinality == Spec => []Returned
<1>1. IInv => Returned
  <2> SUFFICES ASSUME IInv, pc = "done", count # 0
               PROVE  results = Cardinality(Answer)
    BY DEF Returned
  <2>1. candidate = num_docs
    BY DEF IInv, AtTheEnd
  <2>2. {d \in Answer : d < candidate} = Answer
    BY <2>1, AnswerIsNumbers
  <2> QED
    BY <2>2 DEF IInv, CountedBeforeCandidate
<1> QED
  BY <1>1, Invariance, PTL
=============================================================================
