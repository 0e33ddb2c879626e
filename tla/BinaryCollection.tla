-------------------------- MODULE BinaryCollection --------------------------
(***************************************************************************)
(* binary_collection and binary_freq_collection                            *)
(* (src/binary_collection.hpp, src/binary_freq_collection.hpp): the input  *)
(* of the builders.  A file is a sequence of words, every list its length  *)
(* and its values; the file of the documents begins with a list that has   *)
(* the number of documents in it.                                          *)
(*                                                                         *)
(* An iterator is a record of pos and next, both in words, and seq, the    *)
(* list it is on: the empty lists are skipped and the last one may be cut  *)
(* off with the file.  The file ends in a value, or in the length of a     *)
(* list: behind an empty list the iterator would not find the end.         *)
(***************************************************************************)
EXTENDS Integers, Sequences, FiniteSets, SequencesExt, FiniteSetsExt

\* What a file of these lists, functions on 0..n-1, has in it.
WordsOf(ls) ==
  FlattenSeq([t \in DOMAIN ls |->
    <<Cardinality(DOMAIN ls[t])>>
      \o [i \in 1..Cardinality(DOMAIN ls[t]) |-> ls[t][i - 1]]])

DocsFile(num_docs, docs, missing) ==
  LET words == WordsOf(<<[i \in {0} |-> num_docs]>> \o docs)
  IN SubSeq(words, 1, Len(words) - missing)

Unread(pos) == [pos |-> pos, next |-> pos, seq |-> <<>>]

\* read(): at the end of the file the list stays the last one.
read(file, pos, it) ==
  LET first == Min({p \in (pos + 1)..Len(file) : file[p] # 0})
      n == Min({file[first], Len(file) - first})
  IN IF pos = Len(file) THEN [it EXCEPT !.pos = pos]
     ELSE [pos |-> pos, next |-> first + n,
           seq |-> [i \in 0..(n - 1) |-> file[first + i + 1]]]

begin(file) == read(file, 0, Unread(0))
increment(file, it) == read(file, it.next, it)
AtEnd(file, it) == it.pos = Len(file)

\* begin() of a binary_freq_collection leaves the number of documents out.
begin_docs(file) == increment(file, begin(file))
=============================================================================
