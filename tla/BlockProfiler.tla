---------------------------- MODULE BlockProfiler ----------------------------
(***************************************************************************)
(* op_profile and block_profiler (src/profile_queries.cpp,                 *)
(* src/block_profiler.hpp): threads stride over the queries of one query   *)
(* type after the other; opening a list and decoding a block of it are     *)
(* counted in one map of counters for the whole program.                   *)
(*                                                                         *)
(* A list has two slots per block, documents and frequencies.  A query is  *)
(* the sequence of what it does to lists: <<"open", term>> and             *)
(* <<"decode", term, slot>>.  open_list holds the mutex from end to end    *)
(* and a counter is an atomic integer, so that each is one step.           *)
(***************************************************************************)
EXTENDS Integers, Sequences, FiniteSets, Functions, FiniteSetsExt, SequencesExt

CONSTANTS
  block_size,  \* 128 in the code
  Sizes,       \* the number of postings of every list, list 0 first
  Queries,     \* per query type, the queries
  Threads      \* hardware_concurrency()

\* A length is below 2^30, so that msb (UnaryEnumerator) finds its highest bit.
ASSUME ProfilerAssumption ==
  /\ block_size \in Nat \ {0}
  /\ Sizes \in Seq(Nat \ {0})
  /\ \A k \in DOMAIN Sizes : Sizes[k] < 2^30
  /\ Threads \in Nat \ {0}

VARIABLES
  pass,         \* the query type that is run
  threads,      \* per thread, its query and how much of it is done
  block_freqs   \* m_block_freqs: per list that was opened, its counters

profiler == <<pass, threads, block_freqs>>

Terms == 0..(Len(Sizes) - 1)
Postings(term) == Sizes[term + 1]
num_blocks(term) == (Postings(term) + block_size - 1) \div block_size
Slots(term) == 0..(2 * num_blocks(term) - 1)

\* A query, which may be empty, decodes what it has opened.
ASSUME QueriesAssumption ==
  /\ Queries \in Seq(Seq(Seq(UNION {{<<"open", t>>} \cup
       {<<"decode", t, s>> : s \in Slots(t)} : t \in Terms})))
  /\ \A p \in DOMAIN Queries : \A q \in DOMAIN Queries[p] :
       LET query == Queries[p][q]
       IN \A k \in DOMAIN query : query[k][1] = "decode" =>
            \E j \in 1..(k - 1) : query[j] = <<"open", query[k][2]>>

\* The next thing a thread does, if it has not done with its queries.
Running(tid) == threads[tid].i < Len(Queries[pass])
Doing(tid) == Queries[pass][threads[tid].i + 1][threads[tid].done + 1]

\* The thread is past this: the rest of the query or the query n_threads on.
GoOn(tid) ==
  LET last == threads[tid].done + 1 >= Len(Queries[pass][threads[tid].i + 1])
  IN threads' = [threads EXCEPT ![tid] =
                   IF last THEN [i |-> @.i + Threads, done |-> 0]
                   ELSE [i |-> @.i, done |-> @.done + 1]]

StartThreads == [tid \in 0..(Threads - 1) |-> [i |-> tid, done |-> 0]]

ProfilerInit ==
  /\ pass = 1
  /\ threads = StartThreads
  /\ block_freqs = [t \in {} |-> <<>>]

\* Faulty variant: the counters are made whenever the list is opened.
open_listAnew(tid) ==
  /\ Doing(tid)[1] = "open"
  /\ LET term == Doing(tid)[2]
     IN block_freqs' = (term :> [s \in Slots(term) |-> 0]) @@ block_freqs

\* open_list(): the counters are made by whoever opens the list first.
open_list(tid) ==
  /\ Doing(tid)[1] = "open"
  /\ LET term == Doing(tid)[2]
     IN block_freqs' = [t \in DOMAIN block_freqs \cup {term} |->
                          IF t \in DOMAIN block_freqs THEN block_freqs[t]
                          ELSE [s \in Slots(t) |-> 0]]

\* ++m_block_profile[...] when a block is decoded.
count_block(tid) ==
  /\ Doing(tid)[1] = "decode"
  /\ LET term == Doing(tid)[2]
         slot == Doing(tid)[3]
     IN block_freqs' = [block_freqs EXCEPT ![term][slot] = @ + 1]

Thread(tid) ==
  /\ pass <= Len(Queries)
  /\ Running(tid)
  /\ IF Queries[pass][threads[tid].i + 1] = <<>> THEN UNCHANGED block_freqs
     ELSE open_list(tid) \/ count_block(tid)
  /\ GoOn(tid)
  /\ UNCHANGED pass

\* All threads are joined, and the next query type begins.
JoinAll ==
  /\ pass <= Len(Queries)
  /\ \A tid \in DOMAIN threads : ~Running(tid)
  /\ pass' = pass + 1
  /\ threads' = StartThreads
  /\ UNCHANGED block_freqs

Profiled == pass > Len(Queries)
=============================================================================
