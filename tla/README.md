# ds2i in TLA+

ds2i builds and queries inverted indexes: for every term a list of postings
(document, frequency), stored in one of several compressed forms, and queries
that walk the lists of a few terms together. This directory holds TLA+ models of
its core, TLC configurations that check them on small instances, and TLAPS proofs
of what matters most for every instance. Source names below are relative to the
root of the repository.

## The system

| part | source | state | operations |
|---|---|---|---|
| build queue | `semiasync_queue.hpp` | the batch being filled, the running threads with their batches, the work expected | `add_job`, `complete`; a worker calls `prepare()`, the main thread `commit()` |
| frequency index | `freq_index.hpp`, `bitvector_collection.hpp`, `sequence_collection.hpp` | two bit vectors with the lists' endpoints | `add_posting_list`, `build`, `operator[]`, cursors over documents and frequencies |
| block index | `block_freq_index.hpp` | a byte vector of lists with their endpoints | the same |
| Elias-Fano sequence | `compact_elias_fano.hpp` | the bits; per enumerator a position, a value and a unary enumerator | `write`, `move`, `next_geq`, `next`, `prev_value` |
| other sequences | `strict_elias_fano.hpp`, `compact_ranked_bitvector.hpp`, `all_ones_sequence.hpp`, `indexed_sequence.hpp`, `strict_sequence.hpp`, `positive_sequence.hpp` | the same | the same; `positive_sequence` only `move` |
| partitioned sequences | `partitioned_sequence.hpp`, `uniform_partitioned_sequence.hpp`, `optimal_partition.hpp` | the current partition, enumerators over sizes, upper bounds and the partition | the same |
| block posting list | `block_posting_list.hpp` with a codec of `block_codecs.hpp` or `mixed_block.hpp` | the decoded block, the place in it, the frequencies if they were decoded | `write`, `write_blocks`, `reset`, `next`, `next_geq`, `move`, `freq`, `get_blocks` |
| queries | `queries.hpp`, `wand_data.hpp`, `bm25.hpp` | a cursor per list, the order of the lists, the queue of the best scores | `and`, `or`, `ranked_and`, `ranked_or`, `wand`, `maxscore`, `maxscore_dyn` |
| hybrid index | `optimal_hybrid_index.cpp`, `mixed_block.hpp`, `dec_time_prediction.hpp` | the trade-off points (in a file kept between runs), a choice per block | compute the points, walk over them up to a space budget, transform every list |
| profiler | `block_profiler.hpp`, `profile_queries.cpp` | a counter per block | threads that run queries and count the blocks they decode |
| input | `binary_collection.hpp`, `binary_freq_collection.hpp` | a mapped file | iterate over sequences |
| programs, configuration, scripts | `create_freq_index.cpp`, `create_wand_data.cpp`, `queries.cpp`, `profile_decoding.cpp`, `configuration.hpp`, `util.hpp`, `*.py` | none of their own | |

The bit vectors and the serialisation come from the library succinct, OptPFor and
varint from FastPFor, the sorting of large vectors from stxxl; their sources are
not in the repository.

How the parts meet. The programs read a collection and call `add_posting_list` for
each list; the builder of a frequency index makes a job of the list and gives it
to the queue, which calls back `prepare()` in a worker thread and `commit()` in
the main thread. The hybrid index uses the same queue twice. A query asks the
index for a cursor per term and knows nothing of the representation below it: the
cursor's contract, the order of its calls and the value `num_docs` past the end
are all they share.

What is hard about it:

* the queue is the only place where threads share data while the result is
  order-sensitive: a list's place in the collection is its term identifier;
* every enumerator has several paths to the same place (a small skip, a forward
  skip, a sampled pointer) that leave its hidden state behind for the next call;
* the queries jump over documents, on the strength of the cursors' contract and
  of upper bounds, against a threshold that moves while they run;
* positions, gaps, bases and maxima are off by one from each other by design.

`PROJECT.json` lists the hazards one by one, each at its line, with the properties
that would show it going wrong.

## Modules

| module | models | runs |
|---|---|---|
| `OrderedCommit` | what the builders expect of the queue (abstract) | |
| `SemiAsyncQueue`, `MCSemiAsyncQueue` | `semiasync_queue` with its owner and its workers | `semiasync_queue`, `semiasync_queue_lost` |
| `SortedSequences` | what a cursor over a sorted sequence answers, as operators | |
| `SequenceEnumerator` | what the enumerators promise (abstract) | |
| `UnaryEnumerator` | the walk over the ones of a bit vector (external, succinct) | |
| `CompactEliasFano`, `MCCompactEliasFano` | `compact_elias_fano`, bits and enumerator | `compact_elias_fano` |
| `CompactEliasFanoProofs` | proofs | |
| `RankedBitvector` | `compact_ranked_bitvector`, as operators on a record | `freq_index` |
| `IndexedSequences` | `indexed_sequence`, `strict_sequence` and their three forms, as operators | `freq_index`, `partitioned_sequence` |
| `PartitionedSequence`, `MCPartitionedSequence` | `partitioned_sequence`, `uniform_partitioned_sequence` | `partitioned_sequence`, `partitioned_sequence_int` |
| `OptimalPartition` | the cut that `optimal_partition` chooses | `partitioned_sequence` |
| `SortedSequencesProofs`, `PartitionedSequenceProofs` | proofs | |
| `BlockPostingList`, `MCBlockPostingList` | `block_posting_list` and its cursor | `block_posting_list` |
| `BlockPostingListProofs` | proofs | |
| `BinaryCollection` | the iterators over the input files, as operators | `freq_index` |
| `FreqIndex`, `MCFreqIndex` | `freq_index` with `bitvector_collection` and `positive_sequence`, from the input files to `freq()` | `freq_index` |
| `FreqIndexProofs` | proofs | |
| `BlockProfiler` | `profile_queries`, `block_profiler` | `hybrid_index` |
| `HybridIndex`, `MCHybridIndex` | `optimal_hybrid_index`, `mixed_block`'s points | `hybrid_index` |
| `HybridIndexProofs` | proofs, also of `SemiAsyncQueue`, the program's queue | |
| `PostingCursors` | the cursors as the queries use them | |
| `BooleanQueries`, `MCBooleanQueries` | `and_query`, `or_query` | `boolean_queries` |
| `BooleanQueriesProofs` | proofs | |
| `RankedQueries`, `MCRankedQueries` | `ranked_or`, `ranked_and`, `wand`, `maxscore`, `maxscore_dyn` | `ranked_queries`, `maxscore_repeated_term`, `maxscore_dyn` |
| `RankedQueriesProofs` | proofs | |

How they compose. `HybridIndex` extends `BlockProfiler`: the profile one program
leaves is the input of the other. `FreqIndex` extends `IndexedSequences`, which
instantiates `RankedBitvector`, and instantiates `BinaryCollection`.
`OptimalPartition` extends `PartitionedSequence` with the choice of its cut, whose
costs are those of `IndexedSequences`. `RankedBitvector` and `CompactEliasFano` walk
with `UnaryEnumerator`. `CompactEliasFano`, `PartitionedSequence`,
`BlockPostingList` and `FreqIndex` implement `SequenceEnumerator`; the queries use
`PostingCursors`, which is that contract.

Operators that begin with the name of an action and go on to say what is wrong
(`LaunchInFront`, `SmallMoveOnCopy`, ...) are faulty variants, marked so in their
comments: each of them breaks a property, which shows that the property sees that
mistake. No specification uses them.

### The queue

A job is its number in the order of the `add_job` calls, so that "in order" can be
said of `out`, the sequence of committed jobs. The main thread has a program
counter, `pc`: it is at rest in `ready`, inside `spawn_next_thread` in `spawn` and
`launch`, inside `commit_thread` in `join` and `commit`, in the loop of
`complete()` in `drain`, and in `built` when `complete()` has returned. `caller`
and `joiner` remember who called, as the stack does. A worker's progress is the
number of jobs of its batch it has prepared; its steps interleave with every step
of the main thread. Batches fill by work: jobs of work 1 and 2 with a limit of 2
give batches of one and of two.

An exception that leaves a thread's function ends the program, as does one that
leaves `add_job` (the programs catch none); so does the destructor of a thread
that was never joined. The model says so with `pc = "terminated"`.

`CompleteCommitsAll` is what the tests and `verify_collection` expect of a build
and does not hold: `complete()` joins the running threads only if a batch is
waiting. `CleanExitIsComplete` is what does hold: the lists left behind end the
program when their threads are destroyed, so that no program ends normally with an
incomplete index. But both programs write the index before that
(`freq_index.hpp:44`, `optimal_hybrid_index.cpp:486`): the file without the last lists
stays behind. `FreqIndex` and `HybridIndex` take the queue as it is proved to be,
commits in order and no promise that `complete()` makes them all: a list that was
added is a job, a commit takes the oldest job at some later time, and the index may be
made while there are jobs left. This is wider than the code in that the lists left may
be any number of the last ones, and not just whole batches; a program without worker
threads is the case in which every list is committed right after it was added.

### Elias-Fano

The high bits are the set of the positions of their ones; low halves and samples
are functions of the sequence. `FirstZero` and `EndZero` number the zeros before
the i-th one as `set_ptr0s` does. The enumerator of unary bits (`At`, `skip`,
`skip0`, `Advance`) is external: a position, and whether the bit there was
consumed, which is what its `skip0` after a consumed one depends on.

One action per call, with the code's choice of path inside. In the code the
threshold of the small skips is 8 and samples are taken every 256 ones and 512
zeros; no sequence that TLC can enumerate would leave the first path. The run has
a threshold of 1 and samples every 1 and every 4, so that small skips, forward
skips and pointers are all taken, from every state the others leave.

The run keeps lower bounds up to the universe. Past it there is one case where the
enumerator leaves its range: at its end, asked for a larger bound, it goes to
position `size() + 1` (`compact_elias_fano.hpp:194`). No cursor of the indexes is
asked that at its end, for which see `UpperBoundsOnElement` below; a test does
(`test/test_generic_sequence.hpp:139-141`), one of those that are not compiled in.
The proofs keep to the same bounds (`Beyond = 0`).
`NextGeq` of the abstract cursor stays in place on an equal value: in a run of
equal values `next_geq` does not go back to the first of them
(`compact_elias_fano.hpp:186`), although `test/test_generic_sequence.hpp:147`
expects the first, in the same tests.

### Partitioned sequences

One module for two headers: `partitioned_sequence` stores where its partitions end
and `uniform_partitioned_sequence` computes it from their size; the rest is the
same text. `uniform` is that size, and 0 for the first. `partition` is what
`optimal_partition` returned, `Init` takes any cut of any strictly ascending
sequence, so that nothing rests on the choice it makes.

Which cut that is says `OptimalPartition`, a pure function of the sequence:
`CostBounds` are the windows, `Slide` is one turn of the loop over them (how far a
window is stretched, and the edges it improves), `ShortestPath` the two loops
around it, `ChosenCut` the way back. `min_cost` begins with the cost of a single
partition everywhere, as in the code. The windows skip most edges, and it is not
obvious what that costs: `ChosenCutIsNearCheapest` compares the chosen cut with
every other one of the sequence, by the factor (1 + `eps1`) (1 + `eps2`) that the two
parameters are there for. The loop over the bounds ends only if truncation lets
them grow, which `CostAssumption` states (64 and 0.3, the defaults, do).

The enumerator composes three others: over the ends (`m_sizes`), over the largest
values (`m_upper_bounds`) and over the current partition (`m_partition_enum`). Each
of them does what `SortedSequences` says, which is what `CompactEliasFano` is shown
to do, and proved; a position is all their state. What is written is a function of the sequence
and the cut (`Values`, `Universe`, `sizes`, `upper_bounds`, `UniverseDelta`), and
what is read back comes only through them: the begin, end, base and bound of the
current partition (`Partition`, `Whole`) and the universe and length its enumerator
is opened with (`Open`). The endpoint of a partition in the bits is its number.

The contract of the inner enumerators holds for bounds up to their universe
(above). A partition's enumerator gets no larger bound,
because `next_geq` compares with `m_cur_upper_bound` first. `m_upper_bounds` does: it
is asked for whatever the caller asks. It goes past its end only if it is at its end
when asked, and after every call it is back on an element: `UpperBoundsOnElement`.
For the same reason the partitioned enumerator takes bounds past the universe where
the plain one does not, and its runs and theorems have `Beyond`.

`Whole` keeps the bound of a single partition in an `int` (`partitioned_sequence.hpp:147`),
of which `IntLimit` is the limit. The pass run and the proofs keep universes within
it; `partitioned_sequence_int` does not.

### Block posting lists

A call is one step, and its inner loop one step per document. What the codec
stores is `PrefixSum`; the last sum is not stored but computed from the block
maximum, which is where gaps, base and size meet (`DecodedDocs`). `order` is the
order in which the blocks were written: `write` keeps it, `write_blocks` need not.

The model keeps to what the callers in the repository do: `next`, `move` and
`freq` are not called at the end, `move` goes forward to a posting of the list,
and `next_geq` respects its assertion (`block_posting_list.hpp:126`). The assertion
also lets through any bound when `position()` is 0, which after a `next_geq` past
the end of a list of one block may be so although the cursor is at the end; the
model excludes that case, in which the cursor would stay at the end.

### The frequency index

`FreqIndex` goes from the files to the answer. `input` is a collection of lists and
how many words its file of documents lacks at the end; `docs_it` and `freqs_it` are
the iterators over the two files (`BinaryCollection`), advanced together by
`add_posting_list` until that over the documents is at its end. An empty list is
skipped in both files, a list that is cut off is shorter in one than in the other,
and one of which only the length is left ends the program (`invalid_argument`): no
action is enabled then. The sum of the frequencies is of the whole list, so that
header, universe of the frequencies and length come from different files.
To add a list adds a job to `jobs`, and `commit`, at any time before `build`, appends
the oldest job to both collections; `build` comes at the end of the documents and may
find lists that are not committed (above). Then a list of the index may be opened, of
those it has: the files that an index is read from are not the builder's, so that
nothing of it changes when the builder is destroyed.

A written sequence is its form and the values in that form; an opened one gets its
form again from universe and length where the code does (`IndexedSequences`,
`Form` and `open`). The three forms: an Elias-Fano cursor lands as
`SortedSequences` says, a full sequence answers with the position itself, a ranked
bit vector is modelled down to its samples and the unary enumerator (`RankedBitvector`). For the
frequencies, `positive_sequence` keeps the last position and cumulative sum;
whether `move()` may use them is `Cached`. `Open` takes the term-th endpoint and the
header, whose length field is as wide as the sum of the frequencies, or absent.
The cursor is then moved by any calls, and `read_freq` comes in anywhere.

`Documents!Spec` says that this cursor is the abstract one over the documents of
the input, and `FreqIsOfPosition` that `freq()` is the input's. The run takes every set
of documents below eight, alone and between lists that may be empty or cut off, with
every order of commits and additions and every number of lists left at the end;
`FreqIndexProofs` takes any input.

### Profiler and hybrid index

`BlockProfiler`: the threads of `op_profile` take queries by stride and are joined
before the next query type. Opening a list is atomic under its mutex, a count is an
atomic increment; the map is what is left. A query is given as what it does to
lists. `HybridIndex` reads that map as lines (lists nobody opened have none) and is
then run up to `MaxRuns` times, with a crash possible between any two steps.

`stage` follows `optimal_hybrid_index`: `start`; `compute`, where each turn merges the
profile with a list and appends the points of its blocks (`append_lambdas`, one
buffer per block); the sort; `walk`, one point a step; `transform`, in which lists are
added to the queue and committed, one list a step each; `written`, when the index has
been built of the lists that were committed and frozen (line 486); `ended`, when the
queue was destroyed after that (line 488) and found no list in a thread, or `failed`.
A partial block with another codec than interpolative coding throws in its thread
(`Refuse`), which is `failed`, too. Only the lambdas file survives a process.
`block_counts_list`, which the code leaves uninitialised, is any list; this only counts
when the profile is empty, as it is in no state of the run: that case is proved
(`FileCorrect`) and not checked. The sort leaves equal lambdas in any order,
which `Walk` chooses from. What a codec makes of a block, its space and time, is
given (`Codings`); a partial block takes interpolative coding only, and a block that
no point was applied to has the codec numbered 0, as the zeroed vector has.

Observed, and not stated as a property because the program promises nothing of it:

* a process killed in `compute` leaves a file that the next one takes for complete
  (`optimal_hybrid_index.cpp:337`); the walk then runs over a part of the points in
  the order they were computed. `FoundSpaceIsIndexSize` and `TimeOptimal` speak of
  finished files (`Cached`), by whichever process they were finished. `compute_lambdas`
  has a queue of its own, and where `complete()` leaves lists in its threads the program
  is terminated at line 250, after the sort and before the vector of the points is
  closed. In the model this is a crash in `compute`: the points of some lists are in the
  file, and it is not finished. That the points that did get there may be sorted is not
  modelled;
* with a budget of 0 and fewer than 2000 blocks the sample rate is 0 and line 388
  divides by it (`failed` in the model);
* the walk stops one point after the budget (line 392); `TimeOptimal` is said of the
  index that is found, not of the budget;
* two points of one block with the same lambda may be applied in the wrong order, and
  the trade-off found is then not optimal; `TimeOptimal` leaves those files out (`Tied`).

### Queries

`PostingCursors` reduces a cursor to what `SequenceEnumerator` promises: `next()`
and `next_geq()` are the first document from a bound on. This is where the models
compose: `CompactEliasFano`, `PartitionedSequence` and `BlockPostingList` implement
`SequenceEnumerator`, each by a theorem, and the queries use nothing else.

In `RankedQueries` a score is a natural number. What the algorithms need of BM25
is that it grows with the frequency, shrinks with the document's length and stays
below the bound `wand_data` stores, the largest frequency of the list. `maxscore`
scores by the frequency itself, as the code does. Where `wand_query` or
`maxscore_query` sorts, equal keys may come out in any order. In a `float`, sums in
another order may differ in the last place; that is not modelled.

`maxscore_dyn_query` bounds a list by the entry of a vector for the postings it has
passed; the vectors are written into the code, for three lists of one index.
`VectorsBound` keeps the models to lists that they do bound. After every document the
lists are sorted by what is left of them and all of them are essential again, also
one that was left behind: `left_behind`, a history variable, says that this has
happened. Until then `TopkIsBestSoFar` and `Terminates` hold of it as of the others; after it a document
is scored without some of its lists, and `MaxscoreDynAnswers` fails. A list that is
asked for a document it has passed answers by its kind (`Cursors`): a block cursor
stays, an Elias-Fano cursor goes back (`Landing`); a block cursor that
goes to the end keeps its position (`PlaceAt`). With Elias-Fano cursors the query
may go on for ever. In a debug build the block cursor's assertion
(`block_posting_list.hpp:126`) would stop it, and `maxscore_query` in the same place
(`queries.hpp:568`), where both answers are harmless.

## Runs

| run | shows | bounds |
|---|---|---|
| `semiasync_queue` | commits are in order, each list once and only after it was prepared; no worker uses a pointer that was reset; errors are not lost; every call returns; the queue implements `OrderedCommit` | 6 jobs, 0 to 2 threads, the sixth job throws |
| `semiasync_queue_lost` | **violation**: `complete()` returns with lists in worker threads | 3 jobs |
| `compact_elias_fano` | the enumerator implements `SequenceEnumerator` on all its paths; `prev_value()` is the value before; samples lead where they should; the unary enumerator is in step | every sorted sequence of 1, 3 or 4 values below 3 or 7 |
| `partitioned_sequence` | both enumerators implement `SequenceEnumerator` within, across and past the partitions; a partition is opened as it was written; `prev_value()` crosses boundaries; the recursion of `slow_next_geq` ends; the chosen cut is a cut, and near the cheapest | every strictly ascending sequence of 1, 2 or 5 values below 7, every cut of it and the partitions of size 2, bounds up to 9; a partition costs 2 bits and its own, everything sampled, `eps1` 0.1, `eps2` 0.5 |
| `partitioned_sequence_int` | **violation**: `next_geq` of a value goes to the end | 1 or 2 values below 6, an `int` that ends at 2 |
| `block_posting_list` | the cursor implements `SequenceEnumerator`, its document and frequency are those of its position | blocks of 2, lists of 1, 4 or 5 below 6, every order of the blocks |
| `freq_index` | documents, frequencies and `prev_value()` of an opened list are those of the input, from every state of the cursors, in an index of all lists and in one without the last ones | every set of documents below 8 with two patterns of frequencies as the only list, and two sets between other lists, an empty one among them, with 0, 3, 8 or 9 words missing; samples every 4, threshold 1 |
| `hybrid_index` | the finished file holds the critical points of every block, weighted by the profile; the announced space is that of the index if the program ends normally, and more by what the lists take that were left in threads if not; the trade-off is optimal | three lists of 1 to 2 blocks, two threads, two query types, 6 collections of codings, 4 budgets, two runs |
| `boolean_queries` | the count is that of the intersection or union; cursors never look back; the loops end | every 0 to 3 lists over 4 documents |
| `ranked_queries` | the queue holds the best scores of the documents so far; wand's order is kept; the loops end | 11 lists over 4 documents, queries of 2 and 3 of them, k = 1, 2, both kinds of cursor, for wand and the ranked ones also with a repeated term |
| `maxscore_repeated_term` | **violation**: a document of the top k is lost | 2 terms, one of them twice, k = 1 |
| `maxscore_dyn` | **violation**: too low a score is returned, or none | three lists that the vectors bound, k = 1 |

Why the bounds are enough. The queue: three batches with two threads is the
smallest case in which a batch is committed while another runs and a third is
started; six jobs give batches of both sizes in every position, and a batch whose
last list throws while an earlier batch runs. Elias-Fano: the universes 3 and 7
give 0, 1 and 2 lower bits, lengths 3 and 4 give one and more samples and runs of equal
values and of zeros. Partitions: five values give one to five partitions of every length,
gaps between them and none, a partial last one of the uniform ones, a single one with a
tight and with a loose universe, and switches forward, backward and over a partition.
Blocks: one block, full blocks only, and a partial last block;
three blocks can be stored in two orders. Queries: with four documents and three
lists a candidate can be proposed by any list and refused by any other, a pivot can
be in any place, and a list can become non-essential between two documents. The
index has three lists made for the vectors of `maxscore_dyn`, so that lists are left
behind. Frequency index: with 8 documents and these rates a list takes each of the
three forms, for documents and for frequencies; a ranked bit vector has samples that
are used, and skips of both kinds; the sums are 1 (no length in the header) and more.
Missing words cut a list off inside, leave its length only, or remove it whole.
Hybrid index: codings with all points on the frontier, one above it, one on a line
with two others, one dominated; a full block, a partial one, and both in a list; a
list in no query; budgets below, between and above the choices.

Deadlock is checked in every run but those of the queries, which stop when they
return, of the frequency index, which stops at a list with nothing in it, and of the
hybrid index, which stops after its last run.

Fairness. `SemiAsyncQueue`: weak fairness of the main thread and of the worker at
the front, which is what a scheduler gives runnable threads; nothing is assumed of
the other workers, and none is needed. `BooleanQueries` and `RankedQueries`: weak
fairness of the next step, a program that goes on running. The others are safety only:
their calls return in one step, or are the caller's to make.

## Proofs

TLAPS checks these for every value of the constants.

The queue (`HybridIndexProofs`, last part): any number of jobs, any works, any limit
of threads, any set of lists that throw. The invariant `IInv` says that the numbers of the lists
are handed out without a gap: first the collection, then what is left of the front
batch, then the other batches, then the batch being filled (`BatchesInv`,
`OrderInv`); that `prepared` is what the workers have passed (`PreparedInv`); and
that the control state agrees with the two containers (`ControlInv`).
`CommitsInOrder` alone is not inductive: it
does not say that the next job to be committed is the next number. From it follow
`CommitOrder`, `CommitAfterPrepare`, `ResetIsSafe`, `ThreadLimit`, `CleanExit`,
`ErrorsEndTheProgram` (the list that throws stops the one worker that is past the
lists before it, and nothing gets by that worker), and `Refinement`: every step of the queue is a step of `OrderedCommit` or none of it.
The assumptions are those of the module (`JobsAssumption`, `ThreadsAssumption`).

`SortedSequencesProofs`: what `FirstAtLeast` and `Landing` find in any ascending
sequence, from the well-foundedness of the natural numbers; least and greatest
elements; that the n-th element of an ascending row has n below it; powers of two, the
arithmetic of shifts and divisions; and sums over finite sets, which the definitions
write as folds: that a sum does not depend on the order in which its elements are
taken, that it is that of the rows of a table. All proofs but those of the queue rest
on it.

`CompactEliasFanoProofs`: any sorted sequence, any rates of the samples, any
threshold of the small skips; only bounds past the universe are left out
(`Beyond = 0`), for which see above. The heart of it is that the high bits are a
strictly ascending row of ones and zeros, so that the i-th one is where the i-th
element says and the zeros before it count its high part: from that, `Nth`,
`OnesFrom` and `ZerosFrom` of the unary enumerator are computed for every place it
can be in. `Invariance` is that the enumerator is right behind the one of the current
element, with the value that belongs to it (`InSync`); a step may take a small skip, a
forward skip or a pointer, and each is shown to arrive there. `SamplesCorrect`,
`PrevValueCorrect` and `Refinement` follow.

`BlockPostingListProofs`: any list, any block size, any order in which the blocks lie.
The invariant says of which block the decoded gaps are, that the current document is
the sum of the gaps up to the place in the block, and that the frequencies, if they
were decoded, are those of this block. That the decoded documents are the list's is
the arithmetic of bases, gaps and the sum that is not stored, block by block, of a
partial last one too (`DocidCorrect`, `FreqCorrect`, `Refinement`).

`PartitionedSequenceProofs`: any set of lengths and universes, any strictly ascending
sequence, any cut into partitions, any size of the uniform ones, bounds arbitrarily
far past the universe. One assumption beyond those of the module: `IntsSuffice`, that
no universe is larger than an `int` holds, which is where the finding lies. The
invariant `IInv` is in two parts. `DataOK`: what was written is an ascending sequence
and a partition of it (its ends ascend, the last is the length; uniform ones have
their size but the last). `CursorOK`: the members of the current partition are exactly
those of its number, its enumerator was opened from them and is where the whole is,
and `m_upper_bounds` is on an element. None of the properties is inductive alone:
that `next()` may take the next partition's first element needs the ends of both, and
that the partition found by an upper bound holds the bound needs that `m_upper_bounds`
is on an element, since a cursor on the bound stays (`Landing`).
`Refinement` shows that every step is the step of `SequenceEnumerator` with the same
call. `TypeCorrect`, `Opened`, `InStep`, `Predecessor`, `OnElement` and `Settles` follow
from the invariant.

The same module proves what `optimal_partition` may choose (`CutChosen`), for any
sampling rates, `fix_cost`, `eps1` and `eps2` of `CostAssumption`. Whatever the windows
skip, a turn of the loops only records a way to a position that comes from before it
(`Ways`, kept by `SlideKeeps`, `FromKeeps` and `ShortestPathIs`); so the way back goes
down to 0, its ends ascend, and the last of them is the length (`WayTo`). `FoldExists`
and `FoldStays` say once what the folds of the community modules compute.

`FreqIndexProofs`: any input, any rates of the samples, any threshold of the small
skips, for the whole way from the files to `freq()`. The input is one the program can
read (`FreqIndexAssumption`): documents that ascend and are documents, frequencies
from one on, a last list that is not empty (an empty one is read past the end of the
file), and an end that lacks at most all of the last list, its length included; if the
length is missing too, the list before must not be empty either, for the same reason.
`OccurrencesAssumption` bounds the sum of the frequencies of a list by 2^30, which is
where the model's `msb` ends. The parts of the argument:

* the files: where the t-th list lies is a sum of the lengths before it (`IsFile`), and
  each iterator goes from list to list, over the empty ones, in both files alike
  (`NextList`);
* what was written is what is opened: the length comes back from the bits the header
  gives it (`LengthFits`), each form is found again from universe and length, the
  sequences of a collection end at strictly ascending places since none of them is
  empty, and therefore the k-th endpoint is that of the k-th sequence;
* the three forms: the Elias-Fano one and the full one by the lemmas on ascending
  sequences; the ranked bit vector by the samples of its rank and select, from which
  the walk over the ones arrives at the element (`Nth` and `OnesFrom` of an ascending
  row are what `RankInAscending` says);
* `positive_sequence`: whatever path the cursor has taken, what it kept is the sum at
  the position it kept (`PositiveInPlace`), so that the difference to the sum before is
  the frequency, whether it comes from what was kept or from `prev_value()`.

`IInv` joins them. `FilesOK`: the iterators are at the same list, and as many
sequences were committed or are jobs as there were lists to read before it. `ListsOK`:
the k-th pair of sequences is that of the k-th such list, and the jobs are those behind
them. `OpenOK`: the cursors are in place in the list
that was opened, and a frequency that was read is the one at the position. From it
follow `FreqCorrect`, `PrevValueCorrect`, `Refinement` (the cursor implements
`SequenceEnumerator` over the documents of the input), and `IndexCorrect`, which no
run states: the k-th list of the index that was built is the k-th list of the input that
is not empty, whatever empty lists come before it and whatever is missing at the end;
and the lists that the index lacks are exactly those that were left in the queue, the
last ones. That there are none is not claimed (`CompleteCommitsAll`).

`BooleanQueriesProofs`: any index, any number of lists. `CountedOnce` is
`CountedBeforeCandidate`; `ReturnsCardinality` says that the result is the
cardinality of the intersection or of the union. A step to a new candidate leaves no document out because
the cursor that proposes it is on its first document from the old candidate on;
for `or_query`, whose cursors moved in earlier steps, the invariant has to say so
(`OnNextDocument`). `MatchOnAll`: the cursors `and_query` has checked are on the
candidate. What `FirstFrom` and `Least` find is proved first, on
`SortedSequencesProofs`.

`RankedQueriesProofs`: any index, any query, any weights, any k. `TypeCorrect` is the
type invariant. `WandOrder`: bubbling one list down leaves wand's lists in the order
of their documents, for every outcome of the sorts. `TopkCorrect` is
`TopkIsBestSoFar`, along these lines:

* scores and upper bounds are folds over sets of lists, so that the first thing to
  prove is that a sum does not depend on the order in which its elements are taken;
* a document scores at most what the lists already looked at give it and the bounds
  of the others (`Split`, `BoundSplit`);
* what the queue holds is said by counting: for every score there are in it
  min(k, number of documents that reach it) scores that reach it. `insert` keeps to
  that when a document is scored, and so does leaving out a document that
  `would_enter` refuses;
* the invariant `TopkInv` adds what each query needs to know of the documents ahead:
  no cursor has passed a document that could enter and was not scored. For the
  maxscores: a document in no essential list cannot enter, and what a candidate has
  got is the score of the lists asked so far;
* `maxscore_dyn` sorts its lists after every document, but completes a document with
  the bounds it added up before the loop, for the order of that time (the
  `upper_bounds` of `queries.hpp:768` is another one). They still bound, because the
  vectors fall from place to place (which `RankedAssumption` says, as of those in the
  code), and because sorting makes the first m lists the m lightest: no other m
  lists weigh less (`LightestFirst`).

`BoundsHold` is the one hypothesis: the two maxscores only for queries that repeat no
term, for which see `maxscore_repeated_term`. That `maxscore_dyn` is right only until a
list it had left behind is essential again is part of `TopkIsBestSoFar`.

`HybridIndexProofs`: any collection of lists below 2^30 postings, any queries, any
number of threads, codings, budgets and runs, with a crash anywhere. The assumptions
are those of the modules: a query decodes what it has opened (`QueriesAssumption`), and
every block can be coded by the codec of partial blocks and by the one that
`block_types` is 0 for (`CodingsAssumption`). The invariant `HybridIInv`
(`HybridInvariance`) follows the data from the queries to the index:

* `ThreadsInOrder`, `CountsKept`: a counter is what the queries decoded of its slot
  so far, summed over the passes that are over and the part of each query that its
  thread has done; a query belongs to one thread, which is that of its number modulo
  the number of threads. When all are joined this is `Decodes`;
* `MergeInv`: the line of the profile that is held is that of the next list or of a
  later one, and no list between has a line; at the end of the profile the stale list
  number comes with no counts. Without it the counts of one list could go to another;
* `FileInv`, `ComputeInv`: the points in the file are of codecs of their own blocks,
  those of the lists passed are what `append_lambdas` made of each of their blocks, and
  there are none of a later list;
* `WalkInv`: the running space is the overhead and the spaces of what is chosen; with
  a sorted file no point applied is above one that is not, and what is chosen for a
  block is the last one of the block (`InOrder`);
* `TransformInv`: every list that was committed has the codecs chosen for its own
  blocks (`IndexInv`), and the jobs are the lists behind those, each with where its own
  blocks begin (`JobsInv`).

About the buffer of `append_lambdas` a second invariant is needed, point by point
(`Kept`, `Frontier`): the slopes rise, and every point that was passed is on or above
the line at each corner. The proof is plane geometry over integers: a point that is
above a line stays above when the line is turned towards it (`Turned`). From it,
`FrontierIsCritical` says that what is kept is what the definition `Critical` describes
without an order or a buffer, and `FileCorrect` that the file holds just that.

`SpaceCorrect`: the walk replaces spaces one by one and the lists are coded one by one;
both are the same sum over all blocks (`TotalOfRows`, `SpaceChosen`), and `vbyte_size`
is the length of what `encode_single` writes (`LengthIsEncoded`). What was committed and
what was left are the first and the last lists of that sum (`SpaceSplit`), so that the
index is short of the announced space by the lists left, and by nothing where the
program ends normally.

`TimeCorrect`: let `lam` be the slope of the point that was applied last. Of every
block, the points up to that slope are applied and those above are not, so that no
codec of the block is below the line of slope `lam` through the point chosen
(`FoundLine`). Summed over the blocks, no choice weighs less along `lam` than the one
found (`WeightBound`, by the smallest set of slots for which it would fail); and a
choice that takes no more space has to make up for it in time. Where all points are
applied, each block has its fastest codec. `~Tied` is needed where the point of a
block that was applied last has to be the one highest on the frontier.

Only model-checked:

* all liveness (`CallsReturn`, `Terminates`): fairness and ENABLED are beyond the
  proof system;
* `ChosenCutIsNearCheapest` of `OptimalPartition`. It is no theorem: it depends on
  the values of the constants. The factor (1 + `eps1`) (1 + `eps2`) is right if a longer
  partition never costs less than one it contains, and a long one hardly less than
  its halves. Neither is so for every value. With `eps1` 0.99 a single window is left
  and five consecutive values, which one partition holds in no bits of its own, are
  cut five times (TLC finds this at once in the run's instance with that `eps1`). And
  with a universe that makes room for one more lower bit, the upper bits are halved
  and with them the samples: by the formulas and with the default rates, 256 values
  take 1043 bits in a universe of 1023 and 1037 in one of 1024. What the run shows,
  it shows for its constants.

The library's induction theorems take an operator as a parameter, which none of the
installed provers can instantiate. Where the proofs above need induction, over a fold
or over a recursive function, they take the least element of a set of natural numbers,
or a smallest set, instead.

## Not modelled

* Bytes, words and bit offsets, memory mapping, logging and statistics.
* The integer codecs (`block_codecs.hpp`, `interpolative_coding.hpp`,
  `integer_codes.hpp`): conversions of a block to bits, with the recursion of the
  interpolative one. What the readers above depend on, the sum that is not stored, is
  in `BlockPostingList`.
* `mixed_block`'s search for the parameter of a codec and `dec_time_prediction.hpp`:
  floating-point features; spaces and times are given numbers in `HybridIndex`.
* `sequence_collection.hpp`, used by its test only; `swap`, `map` and `warmup` of the
  indexes; `verify_collection.hpp`, which compares an index with its input and changes
  nothing.
* Float rounding of scores and lambdas; a queue of k = 0 (which reads the front of an
  empty vector); a file whose last list is empty (which is read past its end).
* The programs' argument handling and the Python scripts; `--check`, which reads the
  index that was written; a program killed while it freezes the index, which leaves a
  part of a file.
* The batches of the queue in `FreqIndex` and `HybridIndex`: which of the last lists
  `complete()` leaves behind depends on their sizes, for which see `SemiAsyncQueue`.

## Plan

1. A cost for `OptimalPartition` that grows with the partition, as an assumption on a
   constant operator, under which the factor can be a theorem.
2. The interpolative and the variable-byte codec as functions against their inverses.
3. Bit offsets: the endpoints and headers of `uniform_partitioned_sequence` and
   `partitioned_sequence` as they lie in the vector.
