---------------------------- MODULE MCFreqIndex ----------------------------
(***************************************************************************)
(* FreqIndex on every set of documents with two patterns of frequencies,   *)
(* opened as the only list and as the second one, after a list of one      *)
(* posting and an empty one and before a list of every document, the end   *)
(* of which may be missing.                                                *)
(***************************************************************************)
EXTENDS FreqIndex

MCparams == [s0 |-> 2, s1 |-> 2, r |-> 2, rb_s1 |-> 2]

List(docs, step) ==
  [docs |-> [i \in 0..(Cardinality(docs) - 1) |-> RB!Nth(docs, i)],
   freqs |-> [i \in 0..(Cardinality(docs) - 1) |-> 1 + step * ((i + 1) % 2)]]

Lists == {List(docs, step) : docs \in SUBSET (0..(num_docs - 1)) \ {{}},
                             step \in {0, 9}}

Empty == [docs |-> <<>>, freqs |-> <<>>]

MCInputs ==
  {[lists |-> <<l>>, missing |-> 0] : l \in Lists}
  \cup
  {[lists |-> <<List({num_docs - 1}, 0), Empty, List(docs, 9),
                List(0..(num_docs - 1), 0)>>, missing |-> m] :
     docs \in {{0}, {1, 2, num_docs - 1}}, m \in {0, 3, num_docs, num_docs + 1}}
=============================================================================
