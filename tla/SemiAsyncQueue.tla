--------------------------- MODULE SemiAsyncQueue ---------------------------
(***************************************************************************)
(* semiasync_queue (src/semiasync_queue.hpp): the main thread batches jobs *)
(* and starts one worker thread per batch; a worker calls prepare() on the *)
(* jobs of its batch, the main thread joins the workers in the order it    *)
(* started them and calls commit() on their jobs.                          *)
(*                                                                         *)
(* A job is its number in the order of add_job calls.  A step of the main  *)
(* thread is one call or one test of the code below it; a step of a worker *)
(* is one prepare().  The owner of the queue (freq_index::builder and      *)
(* sequence_collection::builder) adds jobs, calls complete() once, and is  *)
(* destroyed.                                                              *)
(***************************************************************************)
EXTENDS Naturals, Sequences, SequencesExt

CONSTANTS
  MaxJobs,         \* bound on the jobs of one build
  Works,           \* the values of expected_work the owner passes
  WorkPerThread,   \* m_work_per_thread
  ThreadChoices,   \* the values configuration::worker_threads may have
  Throwing         \* the jobs whose prepare() throws (an unsorted list)

ASSUME JobsAssumption ==
  /\ MaxJobs \in Nat
  /\ Works \subseteq Nat
  /\ Throwing \subseteq 1..MaxJobs

ASSUME ThreadsAssumption ==
  /\ WorkPerThread \in Nat
  /\ ThreadChoices \subseteq Nat

VARIABLES
  maxThreads, \* m_max_threads; 0 means everything in the main thread
  pc,         \* where the main thread is
  caller,     \* who called spawn_next_thread: "add_job" or "complete"
  joiner,     \* who called commit_thread: "spawn" or "drain"
  submitted,  \* number of add_job calls
  next,       \* m_next_thread.first, the batch being filled
  work,       \* m_expected_work
  running,    \* m_running_threads: each batch and how far its worker got
  reset,      \* jobs of the front batch already committed and reset
  prepared,   \* jobs whose bits are written
  out         \* the collection: jobs in the order of their commit()

vars == <<maxThreads, pc, caller, joiner, submitted, next, work, running,
          reset, prepared, out>>

Job == 1..MaxJobs

\* The main thread has left the program: normally, or through std::terminate.
Stopped == {"destroyed", "terminated"}

Location ==
  {"ready", "prepare", "commit_inline", "spawn", "launch", "join", "commit",
   "drain", "built"} \cup Stopped

Batch == [jobs : Seq(Job), done : Nat]

TypeOK ==
  /\ maxThreads \in Nat
  /\ pc \in Location
  /\ caller \in {"add_job", "complete"}
  /\ joiner \in {"spawn", "drain"}
  /\ submitted \in 0..MaxJobs
  /\ next \in Seq(Job)
  /\ work \in Nat
  /\ running \in Seq(Batch)
  /\ reset \in Nat
  /\ prepared \subseteq Job
  /\ out \in Seq(Job)

Init ==
  /\ maxThreads \in ThreadChoices
  /\ pc = "ready"
  /\ caller = "add_job"
  /\ joiner = "spawn"
  /\ submitted = 0
  /\ next = <<>>
  /\ work = 0
  /\ running = <<>>
  /\ reset = 0
  /\ prepared = {}
  /\ out = <<>>

-----------------------------------------------------------------------------
(* add_job *)

\* With worker threads: the job joins the next batch, and a full batch is
\* spawned.
AddJob(w) ==
  /\ pc = "ready"
  /\ maxThreads > 0
  /\ submitted < MaxJobs
  /\ submitted' = submitted + 1
  /\ next' = Append(next, submitted + 1)
  /\ work' = work + w
  /\ pc' = IF work + w >= WorkPerThread THEN "spawn" ELSE "ready"
  /\ caller' = "add_job"
  /\ UNCHANGED <<joiner, running, reset, prepared, out>>

\* Without worker threads the main thread prepares and commits the job itself.
AddJobInline ==
  /\ pc = "ready"
  /\ maxThreads = 0
  /\ submitted < MaxJobs
  /\ submitted' = submitted + 1
  /\ pc' = "prepare"
  /\ UNCHANGED <<caller, joiner, next, work, running, reset, prepared, out>>

\* An exception of prepare() leaves add_job, and nobody catches it.
PrepareInline ==
  /\ pc = "prepare"
  /\ IF submitted \in Throwing
     THEN /\ pc' = "terminated"
          /\ UNCHANGED prepared
     ELSE /\ pc' = "commit_inline"
          /\ prepared' = prepared \cup {submitted}
  /\ UNCHANGED <<caller, joiner, submitted, next, work, running, reset, out>>

CommitInline ==
  /\ pc = "commit_inline"
  /\ out' = Append(out, submitted)
  /\ pc' = "ready"
  /\ UNCHANGED <<caller, joiner, submitted, next, work, running, reset,
                 prepared>>

-----------------------------------------------------------------------------
(* spawn_next_thread *)

\* When all the threads are in use the oldest one is joined and committed
\* first.
Spawn ==
  /\ pc = "spawn"
  /\ IF Len(running) = maxThreads
     THEN pc' = "join" /\ joiner' = "spawn"
     ELSE pc' = "launch" /\ UNCHANGED joiner
  /\ UNCHANGED <<caller, submitted, next, work, running, reset, prepared, out>>

\* Faulty variant: the new thread is put in front of the older ones.
LaunchInFront ==
  /\ pc = "launch"
  /\ running' = <<[jobs |-> next, done |-> 0]>> \o running
  /\ next' = <<>>
  /\ work' = 0
  /\ pc' = IF caller = "add_job" THEN "ready" ELSE "drain"
  /\ UNCHANGED <<caller, joiner, submitted, reset, prepared, out>>

Launch ==
  /\ pc = "launch"
  /\ running' = Append(running, [jobs |-> next, done |-> 0])
  /\ next' = <<>>
  /\ work' = 0
  /\ pc' = IF caller = "add_job" THEN "ready" ELSE "drain"
  /\ UNCHANGED <<caller, joiner, submitted, reset, prepared, out>>

\* Faulty variant: the worker swallows the error and goes on.
PrepareSwallows(p) ==
  LET batch == running[p]
      j == batch.jobs[batch.done + 1]
  IN /\ pc \notin Stopped
     /\ batch.done < Len(batch.jobs)
     /\ prepared' = prepared \cup ({j} \ Throwing)
     /\ running' = [running EXCEPT ![p].done = @ + 1]
     /\ UNCHANGED <<pc, caller, joiner, submitted, next, work, reset, out>>

\* The thread started for a batch.  An exception that leaves a thread's
\* function ends the program.
Prepare(p) ==
  LET batch == running[p]
      j == batch.jobs[batch.done + 1]
  IN /\ pc \notin Stopped
     /\ batch.done < Len(batch.jobs)
     /\ IF j \in Throwing
        THEN /\ pc' = "terminated"
             /\ UNCHANGED <<running, prepared>>
        ELSE /\ prepared' = prepared \cup {j}
             /\ running' = [running EXCEPT ![p].done = @ + 1]
             /\ UNCHANGED pc
     /\ UNCHANGED <<caller, joiner, submitted, next, work, reset, out>>

-----------------------------------------------------------------------------
(* commit_thread *)

WorkerFinished(batch) == batch.done = Len(batch.jobs)

\* Faulty variant: the main thread does not wait for the worker.
JoinWithoutWaiting ==
  /\ pc = "join"
  /\ pc' = "commit"
  /\ UNCHANGED <<caller, joiner, submitted, next, work, running, reset,
                 prepared, out>>

Join ==
  /\ pc = "join"
  /\ WorkerFinished(Head(running))
  /\ pc' = "commit"
  /\ UNCHANGED <<caller, joiner, submitted, next, work, running, reset,
                 prepared, out>>

\* Faulty variant: the pointer is reset first, and no job is left to commit.
CommitAfterReset ==
  /\ pc = "commit"
  /\ reset < Len(Head(running).jobs)
  /\ out' = Append(out, 0)
  /\ reset' = reset + 1
  /\ UNCHANGED <<pc, caller, joiner, submitted, next, work, running, prepared>>

\* j->commit(); j.reset() for the next job of the front batch.
Commit ==
  /\ pc = "commit"
  /\ reset < Len(Head(running).jobs)
  /\ out' = Append(out, Head(running).jobs[reset + 1])
  /\ reset' = reset + 1
  /\ UNCHANGED <<pc, caller, joiner, submitted, next, work, running, prepared>>

\* Faulty variant: pop_front is missing and the queue is looked at again.
PopFrontForgotten ==
  /\ pc = "commit"
  /\ reset = Len(Head(running).jobs)
  /\ pc' = joiner
  /\ UNCHANGED <<caller, joiner, submitted, next, work, running, reset,
                 prepared, out>>

PopFront ==
  /\ pc = "commit"
  /\ reset = Len(Head(running).jobs)
  /\ running' = Tail(running)
  /\ reset' = 0
  /\ pc' = IF joiner = "spawn" THEN "launch" ELSE "drain"
  /\ UNCHANGED <<caller, joiner, submitted, next, work, prepared, out>>

-----------------------------------------------------------------------------
(* complete, and the destruction of the builder *)

\* The running threads are drained only when a batch is waiting to be spawned.
Complete ==
  /\ pc = "ready"
  /\ IF next # <<>>
     THEN pc' = "spawn" /\ caller' = "complete"
     ELSE pc' = "built" /\ UNCHANGED caller
  /\ UNCHANGED <<joiner, submitted, next, work, running, reset, prepared, out>>

Drain ==
  /\ pc = "drain"
  /\ IF running # <<>>
     THEN pc' = "join" /\ joiner' = "drain"
     ELSE pc' = "built" /\ UNCHANGED joiner
  /\ UNCHANGED <<caller, submitted, next, work, running, reset, prepared, out>>

\* Faulty variant: the threads are detached, so that nothing ends the program.
DestroyDetached ==
  /\ pc = "built"
  /\ pc' = "destroyed"
  /\ UNCHANGED <<caller, joiner, submitted, next, work, running, reset,
                 prepared, out>>

\* The destructor of a std::thread that was never joined ends the program.
Destroy ==
  /\ pc = "built"
  /\ pc' = IF running = <<>> THEN "destroyed" ELSE "terminated"
  /\ UNCHANGED <<caller, joiner, submitted, next, work, running, reset,
                 prepared, out>>

\* Nothing happens once the program is over.
Over == pc \in Stopped /\ UNCHANGED vars

-----------------------------------------------------------------------------
\* m_max_threads is read from the configuration once, by the constructor.
MainThread ==
  /\ UNCHANGED maxThreads
  /\ \/ \E w \in Works : AddJob(w)
     \/ AddJobInline
     \/ PrepareInline
     \/ CommitInline
     \/ Spawn
     \/ Launch
     \/ Join
     \/ Commit
     \/ PopFront
     \/ Complete
     \/ Drain
     \/ Destroy

Worker ==
  /\ UNCHANGED maxThreads
  /\ \E p \in 1..Len(running) : Prepare(p)

FrontWorker ==
  /\ UNCHANGED maxThreads
  /\ running # <<>>
  /\ Prepare(1)

Next == MainThread \/ Worker \/ Over

Spec == Init /\ [][Next]_vars

\* The scheduler runs the main thread and, among the workers, in particular
\* the one the main thread waits for.
Fairness ==
  /\ WF_vars(MainThread)
  /\ WF_vars(FrontWorker)

FairSpec == Spec /\ Fairness

-----------------------------------------------------------------------------
(* Properties *)

\* Commits happen in the order of submission, none skipped and none doubled,
\* whatever the workers' speed: entry i of the collection is list i
\* (commit_thread pops the oldest batch, spawn_next_thread appends).
CommitsInOrder == \A i \in 1..Len(out) : out[i] = i

\* A list is only appended to the collection once its bits are complete:
\* commit() reads what prepare() wrote in another thread.
CommitsPrepared == \A i \in 1..Len(out) : out[i] \in prepared

\* No worker still has to visit a job whose pointer the main thread has reset.
NoUseAfterReset ==
  \A p \in 1..Len(running) : \A i \in 1..Len(running[p].jobs) :
    i > running[p].done => running[p].jobs[i] \notin Range(out)

\* The number of live worker threads respects the configuration, and the
\* thread that is about to be started fits.
ThreadsBounded ==
  Len(running) + (IF pc = "launch" THEN 1 ELSE 0) <= maxThreads

\* A build that survives the destruction of its queue has all its lists:
\* the lists complete() leaves behind are in threads nobody joined, and those
\* end the program.
CleanExitIsComplete ==
  pc = "destroyed" => /\ out = [i \in 1..submitted |-> i]
                      /\ next = <<>>

\* What the builders rely on: when complete() has returned, every list added
\* is in the collection.
CompleteCommitsAll == pc = "built" => Len(out) = submitted

\* A list whose prepare() throws never goes by unnoticed.
ErrorsAreFatal ==
  pc = "destroyed" => \A j \in Throwing : j > submitted

\* Every call the owner makes returns (or the program ends): no wait for a
\* worker is for ever.
CallsReturn ==
  pc \in {"prepare", "commit_inline", "spawn", "launch", "join", "commit",
          "drain"}
    ~> pc \in {"ready", "built"} \cup Stopped

\* The queue is an ordered committer of prepared lists.
Abstract == INSTANCE OrderedCommit WITH committed <- Len(out)
RefinesOrderedCommit == Abstract!Spec

=============================================================================
