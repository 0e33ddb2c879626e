-------------------------- MODULE MCRankedQueries --------------------------
(***************************************************************************)
(* RankedQueries on an index of sparse and dense lists, weighed evenly,   *)
(* towards their last or towards their first document.  Queries that       *)
(* repeat a term are left out for maxscore where its upper bounds, which   *)
(* do not hold for them, are not the question.                             *)
(***************************************************************************)
EXTENDS RankedQueries

Even(D) == [d \in D |-> 2]
Peaked(D) == [d \in D |-> IF d = Max(D) THEN 4 ELSE 1]
Headed(D) == [d \in D |-> IF d = Min(D) THEN 5 ELSE 1]

\* A list whose bound falls from 10 to 1, below that of the second one, which
\* is left behind by then.
MCDynIndex == << (1 :> 1 @@ 2 :> 1), (1 :> 1 @@ 2 :> 5), (0 :> 5 @@ 2 :> 1) >>

MCIndex ==
  MCDynIndex \o
  << Headed({0, 3}), Headed({1, 2}), Headed({0, 2, 3}), Headed({0, 1, 2, 3}),
     Even({0, 2, 3}), Even({2}),
     Peaked({1, 2}), Peaked({0, 1, 2, 3}) >>

\* As they are in the code.
MCVectors == << <<10, 1, 1, 1, 1, 1>>, <<5, 5, 5, 4, 3>>, <<15, 15, 15>> >>

Distinct == [q \in Queries |-> IF q \in {"maxscore", "maxscore_dyn"} THEN {1} ELSE {1, 2}]
Repeated == [q \in Queries |-> {1, 2}]
=============================================================================
