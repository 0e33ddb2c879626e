----------------------------- MODULE FreqIndex -----------------------------
(***************************************************************************)
(* freq_index with indexed_sequence for the documents and                  *)
(* positive_sequence<strict_sequence> for the frequencies                  *)
(* (src/freq_index.hpp, src/bitvector_collection.hpp,                      *)
(* src/positive_sequence.hpp, src/create_freq_index.cpp): an index is      *)
(* built from the lists of a collection, one of them is opened and walked, *)
(* and its frequencies are asked for now and then.                         *)
(*                                                                         *)
(* The queue is taken for what it promises: the lists are committed in the *)
(* order they are added (OrderedCommit), each at some time after it, and   *)
(* complete() may leave the last ones in their threads (SemiAsyncQueue).   *)
(* A bit vector is a sequence of chunks, of which only the sizes count; a  *)
(* list that is opened is read through the endpoints and the header alone. *)
(***************************************************************************)
EXTENDS IndexedSequences

CONSTANTS
  num_docs,
  Inputs,      \* the collections: sequences of lists of docs and freqs,
               \* and how many words are missing in the file of the docs
  NotOpen,     \* what is not there before a list is opened
  NoFreq       \* freq() was not called here

\* Documents in ascending order and with each its frequency; the last list is not
\* empty, nor is the one before it where nothing of the last one is there.
ASSUME FreqIndexAssumption ==
  /\ linear_scan_threshold \in Nat
  /\ params \in [s0 : Nat, s1 : Nat, r : Nat, rb_s1 : Nat]
  /\ num_docs \in Nat \ {0}
  /\ \A collection \in Inputs :
       LET lists == collection.lists
           last == Len(lists)
           length(t) == SizeOf(lists[t].docs)
       IN
       /\ last \in Nat \ {0} /\ DOMAIN lists = 1..last
       /\ \A t \in 1..last :
            /\ length(t) \in Nat
            /\ lists[t].docs \in [0..(length(t) - 1) -> 0..(num_docs - 1)]
            /\ \A i, j \in 0..(length(t) - 1) :
                 i < j => lists[t].docs[i] < lists[t].docs[j]
            /\ lists[t].freqs \in [0..(length(t) - 1) -> Nat \ {0}]
       /\ length(last) > 0
       /\ collection.missing \in 0..(length(last) + 1)
       /\ collection.missing = length(last) + 1 /\ last > 1 => length(last - 1) > 0

VARIABLES
  input,            \* the collection
  term,             \* the list that is going to be opened
  docs_it,          \* the iterators over its two files
  freqs_it,
  jobs,             \* the lists in m_queue that are not committed
  docs_sequences,   \* m_docs_sequences
  freqs_sequences,  \* m_freqs_sequences
  built,            \* build() has made the index of them
  list,             \* the two sequences that were opened, or NotOpen
  docs_enum,        \* m_docs_enum
  freqs_enum,       \* m_freqs_enum
  m_cur_pos,
  m_cur_docid,
  freq,             \* what freq() returned here, or NoFreq
  call              \* the last call that moved the cursor

written == <<input, term, docs_it, freqs_it, jobs, docs_sequences,
             freqs_sequences, built>>
cursor == <<list, docs_enum, freqs_enum, m_cur_pos, m_cur_docid, freq, call>>
vars == <<written, cursor>>

Files == INSTANCE BinaryCollection

docs_file ==
  Files!DocsFile(num_docs, [t \in DOMAIN input.lists |-> input.lists[t].docs],
                 input.missing)
freqs_file == Files!WordsOf([t \in DOMAIN input.lists |-> input.lists[t].freqs])

\* The lists that can be read: those that are not empty, the last one as far as
\* it is there.
there(t) ==
  LET missing == IF t = Len(input.lists) THEN input.missing ELSE 0
  IN 0..(SizeOf(input.lists[t].docs) - missing - 1)
readable == {t \in DOMAIN input.lists : there(t) # {}}
AsRead(t) == [docs |-> [i \in there(t) |-> input.lists[t].docs[i]],
              freqs |-> [i \in there(t) |-> input.lists[t].freqs[i]]]
Given ==
  [k \in 1..Cardinality(readable) |-> AsRead(RB!Nth(readable, k - 1))]

-----------------------------------------------------------------------------
(* positive_sequence *)

Cumulative(freqs) ==
  LET sums[i \in DOMAIN freqs] ==
        IF i = 0 THEN freqs[0] ELSE sums[i - 1] + freqs[i]
  IN sums

\* m_cur is uninitialised, and not used before it is assigned.
positive_start(e) ==
  [base |-> Start(e), position |-> e.n, cur |-> 0, answer |-> NoFreq]

\* Faulty variant: the cache is thought to hold for the same position too.
CachedHere(c, position) == position \in {c.position, c.position + 1}

Cached(c, position) == position = c.position + 1

\* move(): the difference of two cumulative sums; the first of them is cached
\* when the position is the one after the last.
positive_move(e, c, position) ==
  LET first == ~Cached(c, position) /\ position = 0
      before == IF Cached(c, position) THEN c.base
                ELSE Move(e, c.base, position - 1)
      prev == IF Cached(c, position) THEN c.cur ELSE ValueOf(e, before)
      base == IF first THEN Move(e, c.base, 0) ELSE Next(e, before)
      cur == ValueOf(e, base)
  IN [base |-> base, position |-> position, cur |-> cur,
      answer |-> IF first THEN cur ELSE cur - prev]

-----------------------------------------------------------------------------
(* bitvector_collection *)

EmptyCollection == [chunks |-> <<>>, endpoints |-> <<0>>]

append(coll, chunk) ==
  [chunks |-> Append(coll.chunks, chunk),
   endpoints |-> Append(coll.endpoints,
                        coll.endpoints[Len(coll.endpoints)] + chunk.size)]

\* The endpoints are Elias-Fano coded without the last, which is their universe.
get(coll, i) ==
  LET size == Len(coll.chunks)
      endpoint == ValueIn([k \in 0..(size - 1) |-> coll.endpoints[k + 1]],
                          coll.endpoints[size + 1], i)
      begins == {k \in 1..size : coll.endpoints[k] = endpoint}
  IN coll.chunks[RB!Max(begins)]

-----------------------------------------------------------------------------
(* freq_index *)

\* What create_collection passes as occurrences: the sum of all frequencies,
\* which a list whose documents are cut off has more of.
Occurrences(l) == Cumulative(l.freqs)[SizeOf(l.freqs) - 1]

\* It is a number of which RB!msb finds the highest bit.
ASSUME OccurrencesAssumption ==
  \A collection \in Inputs : \A t \in DOMAIN collection.lists :
    LET l == collection.lists[t]
    IN SizeOf(l.docs) > 0 => Occurrences(l) < 2^30

\* list_adder::prepare(), in a thread or not: the length is left out when it can only be 1.
docs_bits(l) ==
  LET occurrences == Occurrences(l)
      width == IF occurrences > 1 THEN RB!ceil_log2(occurrences + 1) ELSE 0
      sequence == write(FALSE, l.docs, num_docs)
  IN [occurrences |-> occurrences,
      n |-> SizeOf(l.docs) % 2^width,
      sequence |-> sequence,
      size |-> 2 * RB!msb(occurrences) + 1 + width + sequence.size]

freqs_bits(l) ==
  LET sums == Cumulative(l.freqs)
      sequence == write(TRUE, [i \in DOMAIN l.docs |-> sums[i]], Occurrences(l) + 1)
  IN [sequence |-> sequence, size |-> sequence.size]

Init ==
  /\ input \in Inputs
  /\ term \in DOMAIN Given
  /\ docs_it = Files!begin_docs(docs_file)
  /\ freqs_it = Files!begin(freqs_file)
  /\ jobs = <<>>
  /\ docs_sequences = EmptyCollection
  /\ freqs_sequences = EmptyCollection
  /\ built = FALSE
  /\ list = NotOpen
  /\ docs_enum = NotOpen
  /\ freqs_enum = NotOpen
  /\ m_cur_pos = 0
  /\ m_cur_docid = 0
  /\ freq = NoFreq
  /\ call = <<"new", 0>>

\* One turn of the loop of create_collection, which ends with the documents.
\* A list that has none left ends the program (invalid_argument).
add_posting_list ==
  /\ ~Files!AtEnd(docs_file, docs_it)
  /\ SizeOf(docs_it.seq) > 0
  /\ jobs' = Append(jobs, [docs |-> docs_it.seq, freqs |-> freqs_it.seq])
  /\ docs_it' = Files!increment(docs_file, docs_it)
  /\ freqs_it' = Files!increment(freqs_file, freqs_it)
  /\ UNCHANGED <<input, term, docs_sequences, freqs_sequences, built, cursor>>

\* list_adder::commit() of the list that is next, in a later call of add_job, in
\* complete() or, with no worker threads, in its own.
commit ==
  /\ ~built /\ jobs # <<>>
  /\ docs_sequences' = append(docs_sequences, docs_bits(Head(jobs)))
  /\ freqs_sequences' = append(freqs_sequences, freqs_bits(Head(jobs)))
  /\ jobs' = Tail(jobs)
  /\ UNCHANGED <<input, term, docs_it, freqs_it, built, cursor>>

\* complete() has committed all lists, or, where the last one filled a batch, it
\* did nothing: the index is made of what there is, and the lists that are left
\* end the program when the builder is destroyed, after the index was written.
build ==
  /\ Files!AtEnd(docs_file, docs_it) /\ ~built
  /\ built' = TRUE
  /\ UNCHANGED <<input, term, docs_it, freqs_it, jobs, docs_sequences,
                 freqs_sequences, cursor>>

\* The place of a cursor over the documents becomes that of the list.
Arrive(e, c) ==
  /\ docs_enum' = c
  /\ m_cur_pos' = c.position
  /\ m_cur_docid' = ValueOf(e, c)
  /\ freq' = NoFreq

\* operator[](term - 1) of a list that is in the index; the last step is reset().
Open ==
  /\ built /\ term <= Len(docs_sequences.chunks)
  /\ list = NotOpen
  /\ LET docs == get(docs_sequences, term - 1)
         freqs == get(freqs_sequences, term - 1)
         n == IF docs.occurrences > 1 THEN docs.n ELSE 1
     IN list' = [docs |-> open(FALSE, docs.sequence, num_docs, n),
                 freqs |-> open(TRUE, freqs.sequence, docs.occurrences + 1, n)]
  /\ Arrive(list'.docs, Move(list'.docs, Start(list'.docs), 0))
  /\ freqs_enum' = positive_start(list'.freqs)
  /\ UNCHANGED <<written, call>>

IsOpen == list # NotOpen
size == list.docs.n

reset ==
  /\ IsOpen
  /\ Arrive(list.docs, Move(list.docs, docs_enum, 0))
  /\ call' = <<"move", 0>>
  /\ UNCHANGED <<written, list, freqs_enum>>

move(position) ==
  /\ Arrive(list.docs, Move(list.docs, docs_enum, position))
  /\ call' = <<"move", position>>
  /\ UNCHANGED <<written, list, freqs_enum>>

next_geq(lower_bound) ==
  /\ Arrive(list.docs, NextGeq(list.docs, docs_enum, lower_bound))
  /\ call' = <<"next_geq", lower_bound>>
  /\ UNCHANGED <<written, list, freqs_enum>>

next ==
  /\ IsOpen
  /\ m_cur_pos < size
  /\ Arrive(list.docs, Next(list.docs, docs_enum))
  /\ call' = <<"next", 0>>
  /\ UNCHANGED <<written, list, freqs_enum>>

\* freq(), which nobody calls past the last document.
read_freq ==
  /\ IsOpen
  /\ m_cur_pos < size
  /\ freqs_enum' = positive_move(list.freqs, freqs_enum, m_cur_pos)
  /\ freq' = freqs_enum'.answer
  /\ UNCHANGED <<written, list, docs_enum, m_cur_pos, m_cur_docid, call>>

Step ==
  \/ add_posting_list
  \/ commit
  \/ build
  \/ Open
  \/ reset
  \/ IsOpen /\ \E position \in 0..size : move(position)
  \/ IsOpen /\ \E lower_bound \in 0..num_docs : next_geq(lower_bound)
  \/ next
  \/ read_freq

Spec == Init /\ [][Step]_vars

-----------------------------------------------------------------------------
(* Properties *)

\* freq() is the frequency of the document the cursor is on, wherever the
\* cursor was and whatever was asked before: the cached position and sum of
\* positive_sequence, the shortened header and the endpoints all lead to it.
FreqIsOfPosition == freq # NoFreq => freq = Given[term].freqs[m_cur_pos]

\* prev_value() is the document before the cursor in every form of sequence.
PrevValueIsPredecessor ==
  IsOpen => prev_value(list.docs, docs_enum)
              = ValueBefore(Given[term].docs, m_cur_pos)

\* A cursor over the documents of the list that was added as the term-th is
\* what an enumerator of those documents promises, from the input to the
\* answer: through the choice of the form, the header and the endpoints.
Documents == INSTANCE SequenceEnumerator WITH
  Beyond <- 0, seq <- Given[term].docs, universe <- num_docs,
  position <- m_cur_pos,
  value <- IF IsOpen THEN m_cur_docid ELSE Given[term].docs[0]
RefinesSequenceEnumerator == Documents!Spec
=============================================================================
