---------------------------- MODULE MCHybridIndex ----------------------------
(***************************************************************************)
(* Three lists of one full block, one partial block, and both, of which    *)
(* the second one is in no query: its line is missing from the profile.    *)
(***************************************************************************)
EXTENDS HybridIndex

MCSizes == <<100, 60, 150>>

\* A list decodes its first block of documents when it is opened.
MCQueries ==
  << << << <<"open", 0>>, <<"decode", 0, 0>>, <<"open", 2>>, <<"decode", 2, 0>> >>,
        << <<"open", 2>>, <<"decode", 2, 0>>, <<"decode", 2, 1>>, <<"decode", 2, 2>> >> >>,
     << << <<"open", 0>>, <<"decode", 0, 0>> >>, <<>> >> >>

Codec(ps, pt, vs, vt, is, it) ==
  [t \in {"pfor", "varint", "interpolative"} |->
     CASE t = "pfor" -> [space |-> ps, time |-> pt]
       [] t = "varint" -> [space |-> vs, time |-> vt]
       [] OTHER -> [space |-> is, time |-> it]]

Convex == Codec(3, 4, 6, 1, 2, 9)    \* all three on the frontier
Above == Codec(5, 4, 6, 1, 2, 9)     \* pfor above the line of the others
Line == Codec(4, 5, 6, 1, 2, 9)      \* pfor on it: two equal lambdas
Dominated == Codec(6, 2, 6, 1, 7, 9) \* varint the best in both

MCCodings ==
  {[id \in 0..7 |-> CASE id = 0 -> a [] id = 4 -> b [] id = 5 -> Dominated [] OTHER -> Convex] :
     a \in {Convex, Above, Line}, b \in {Convex, Above}}
=============================================================================
