---------------------------- MODULE HybridIndex ----------------------------
(***************************************************************************)
(* optimal_hybrid_index (src/optimal_hybrid_index.cpp,                     *)
(* src/mixed_block.hpp), run once or several times after the queries were  *)
(* profiled (BlockProfiler): the critical points of every block in space   *)
(* and time are computed into a file that later runs find and use, the     *)
(* points are applied in the order of their lambda until the space is over *)
(* the budget, and every list is written with the codecs chosen.           *)
(*                                                                         *)
(* What a codec makes of a block is its space and the time to decode it    *)
(* once, both numbers.  A lambda is a fraction.  The points reach the file *)
(* in the order of the lists (OrderedCommit), so that a list is one step.  *)
(* The lists of the index are written in order too, each at some time      *)
(* after it was added, and complete() may leave the last ones in their     *)
(* threads (SemiAsyncQueue).                                               *)
(***************************************************************************)
EXTENDS BlockProfiler, UnaryEnumerator

CONSTANTS
  Codings,       \* per block, what every codec makes of it: the collections
  Budgets,       \* 0 asks for a report of the trade-offs
  MaxRuns,       \* how often the program is started
  SampledPoints, \* 2000 in the code
  None

Blocks == 0..(2 * SumFunction([t \in Terms |-> num_blocks(t)]) - 1)

\* A point of a block: what one of its codecs makes of it, and the slope to it.
Types == UNION {UNION {DOMAIN coding[id] : id \in Blocks} : coding \in Codings}
Point == [id : Blocks, lambda : [num : Int, den : Int], type : Types,
          space : Nat, time : Nat]

ASSUME SampledPointsAssumption == SampledPoints \in Nat \ {0}

\* Every block can be coded by the codec of partial blocks and by the one that
\* block_types is 0 for.
ASSUME CodingsAssumption ==
  \A coding \in Codings :
    /\ DOMAIN coding = Blocks
    /\ \A id \in Blocks :
         /\ {"pfor", "interpolative"} \subseteq DOMAIN coding[id]
         /\ IsFiniteSet(DOMAIN coding[id])
         /\ \A t \in DOMAIN coding[id] :
              coding[id][t].space \in Nat /\ coding[id][t].time \in Nat

ASSUME NoneAssumption == None \notin Point \cup [points : Seq(Point), sorted : BOOLEAN]

VARIABLES
  codings,      \* per block, the space and the time of every codec
  heuristic_greedy,
  stage,        \* where the program is
  runs,         \* how often it was started
  budget,
  lambdas,      \* the lambdas file: its points, as they were appended, and
                \* whether they were sorted
  l, base,      \* the next list of a loop over them and its first block
  block_counts, \* the line of the profile that was read last: its number,
                \* its list, its counts and whether they were consumed
  points,       \* the points of the file that were not read yet, by index
  chosen,       \* per block, the point applied last, or None
  cur_space,
  jobs,         \* the lists in the queue of the transformation: a list_transformer
                \* each, with its list and where its block types begin
  index         \* the lists that were committed: the space of every slot

input == <<profiler, codings, heuristic_greedy>>
process == <<runs, budget>>
walk == <<points, chosen, cur_space>>
hybrid == <<input, process, stage, lambdas, l, base, block_counts, walk,
          jobs, index>>

-----------------------------------------------------------------------------
(* mixed_block *)

IsFull(term, slot) == (slot \div 2 + 1) * block_size <= Postings(term)

\* compute_space_time: partial blocks are only coded one way, at no time.
compute_space_time(term, slot, id, access_count) ==
  {[id |-> id, lambda |-> [num |-> 0, den |-> 1], type |-> t,
    space |-> codings[id][t].space,
    time |-> IF IsFull(term, slot) THEN codings[id][t].time * access_count
             ELSE 0] :
     t \in IF IsFull(term, slot) THEN DOMAIN codings[id] ELSE {"interpolative"}}

\* space_time_point::operator<
Before(p, q) == p.space < q.space \/ (p.space = q.space /\ p.time < q.time)

Less(x, y) == x.num * y.den < y.num * x.den

-----------------------------------------------------------------------------
(* lambdas_computer *)

LambdaFrom(prev, cur) ==
  [num |-> cur.space - prev.space, den |-> prev.time - cur.time]

\* Faulty variant: the points that lie below the new line are kept.
StopsAtKeeping(prev, cur) == TRUE

\* The inner loop of append_lambdas ends on this point of the buffer.
StopsAt(prev, cur) ==
  \/ cur.time >= prev.time
  \/ heuristic_greedy
  \/ ~Less(LambdaFrom(prev, cur), prev.lambda)

Appended(buf, cur) ==
  LET k == Max({i \in DOMAIN buf : StopsAt(buf[i], cur)})
      kept == SubSeq(buf, 1, k)
  IN IF cur.time >= buf[k].time THEN kept
     ELSE Append(kept, [cur EXCEPT !.lambda = LambdaFrom(buf[k], cur)])

append_lambdas(sts) ==
  LET sorted == CHOOSE s \in SetToSeqs(sts) :
                  \A i, j \in DOMAIN s : i < j => ~Before(s[j], s[i])
      buf[k \in DOMAIN sorted] ==
        IF k = 1 THEN <<sorted[1]>> ELSE Appended(buf[k - 1], sorted[k])
  IN buf[Len(sorted)]

smoothing == 1

\* prepare() and commit() for a list with the counts it was given.
PointsOf(term, first, cnts) ==
  FlattenSeq([i \in 1..Cardinality(Slots(term)) |->
    append_lambdas(compute_space_time(term, i - 1, first + i - 1,
      smoothing + IF cnts = <<>> THEN 0 ELSE cnts[i - 1]))])

-----------------------------------------------------------------------------
(* the program *)

vbyte_size(x) == (msb(x) + 1 + 6) \div 7

space_base ==
  8 + SumFunction([t \in Terms |-> vbyte_size(Postings(t))
                                   + 4 * num_blocks(t) + 4 * (num_blocks(t) - 1)])

NoCounts == [line |-> 0, list |-> 0, counts |-> <<>>, consumed |-> TRUE]

\* What a process has before it comes to the walk.
NotWalked == points = {} /\ chosen = [id \in Blocks |-> None] /\ cur_space = 0

\* The process ends; what it leaves is the file.
Exited ==
  /\ stage' = "start"
  /\ l' = 0 /\ base' = 0
  /\ block_counts' = NoCounts
  /\ points' = {} /\ chosen' = [id \in Blocks |-> None] /\ cur_space' = 0
  /\ jobs' = <<>> /\ index' = <<>>
  /\ UNCHANGED <<input, process, lambdas>>

HybridInit ==
  /\ ProfilerInit
  /\ codings \in Codings
  /\ heuristic_greedy \in BOOLEAN
  /\ stage = "start" /\ runs = 0 /\ budget = 0
  /\ lambdas = None
  /\ l = 0 /\ base = 0
  /\ block_counts = NoCounts
  /\ NotWalked
  /\ jobs = <<>> /\ index = <<>>

Profile ==
  /\ JoinAll \/ \E tid \in DOMAIN threads : Thread(tid)
  /\ UNCHANGED <<codings, heuristic_greedy, process, stage, lambdas, l, base,
                 block_counts, walk, jobs, index>>

\* The program is started: what counts is whether there is a file.  If not, it
\* is created at once.  block_counts_list is not initialised.
Start ==
  /\ Profiled /\ stage = "start" /\ runs < MaxRuns
  /\ runs' = runs + 1
  /\ budget' \in Budgets
  /\ IF lambdas = None
     THEN /\ stage' = "compute"
          /\ lambdas' = [points |-> <<>>, sorted |-> FALSE]
          /\ \E t \in Terms : block_counts' = [NoCounts EXCEPT !.list = t]
     ELSE stage' = "open" /\ UNCHANGED <<lambdas, block_counts>>
  /\ UNCHANGED <<input, l, base, walk, jobs, index>>

\* The line that is next is read when the last one was consumed.  At the end
\* of the profile the counts are cleared but the list number stays.
read_block_stats ==
  LET opened == DOMAIN block_freqs
      line == Nth(opened, block_counts.line)
  IN CASE ~block_counts.consumed -> block_counts
       [] block_counts.consumed /\ block_counts.line = Cardinality(opened) ->
            [block_counts EXCEPT !.counts = <<>>, !.consumed = FALSE]
       [] OTHER ->
            [line |-> block_counts.line + 1, list |-> line,
             counts |-> block_freqs[line], consumed |-> FALSE]

NextList == l' = l + 1 /\ base' = base + 2 * num_blocks(l)

\* One turn of the loop of compute_lambdas: the profile is merged with the
\* lists, and the points of the list are appended to the file.
compute_lambdas ==
  /\ stage = "compute" /\ l \in Terms
  /\ LET read == read_block_stats
         found == l = read.list
     IN /\ lambdas' = [lambdas EXCEPT !.points =
                         @ \o PointsOf(l, base, IF found THEN read.counts ELSE <<>>)]
        /\ block_counts' = IF found THEN [read EXCEPT !.counts = <<>>,
                                                      !.consumed = TRUE]
                           ELSE read
  /\ NextList
  /\ UNCHANGED <<input, process, stage, walk, jobs, index>>

\* stxxl::sort by lambda, which leaves equal ones in any order: Walk chooses.
Sort ==
  /\ stage = "compute" /\ l \notin Terms
  /\ lambdas' = [lambdas EXCEPT !.sorted = TRUE]
  /\ stage' = "open"
  /\ UNCHANGED <<input, process, l, base, block_counts, walk, jobs, index>>

Open ==
  /\ stage = "open"
  /\ stage' = "walk"
  /\ points' = DOMAIN lambdas.points
  /\ cur_space' = space_base
  /\ UNCHANGED <<input, process, lambdas, l, base, block_counts, chosen, jobs, index>>

\* Faulty variant: the space of the point that is replaced is not taken off.
ReplacedFree(id) == 0

Replaced(id) == IF chosen[id] = None THEN 0 ELSE chosen[id].space

\* Past the points that every choice begins with: how the walk goes on.
PastFrontier(space) ==
  CASE budget = 0 /\ Cardinality(Blocks) \div SampledPoints = 0 -> "failed"
    [] budget # 0 /\ space > budget -> "found"
    [] OTHER -> "walk"

\* The point that is next in the file, sorted or as it was left.
IsNext(i) ==
  \A j \in points :
    IF lambdas.sorted THEN ~Less(lambdas.points[j].lambda, lambdas.points[i].lambda)
    ELSE i <= j

\* The next point of the file is applied.
Walk ==
  /\ stage = "walk"
  /\ \E i \in points : LET p == lambdas.points[i] IN
       /\ IsNext(i)
       /\ points' = points \ {i}
       /\ chosen' = [chosen EXCEPT ![p.id] = p]
       /\ cur_space' = cur_space - Replaced(p.id) + p.space
       /\ stage' = IF p.lambda.num > 0 THEN PastFrontier(cur_space') ELSE "walk"
  /\ UNCHANGED <<input, process, lambdas, l, base, block_counts, jobs, index>>

EndWalk ==
  /\ stage = "walk" /\ points = {}
  /\ stage' = "found"
  /\ UNCHANGED <<input, process, lambdas, l, base, block_counts, walk, jobs, index>>

\* With a budget of 0 the trade-offs were reported, and that is all.
Report ==
  /\ stage = "found" /\ budget = 0
  /\ Exited

Found ==
  /\ stage = "found" /\ budget # 0
  /\ stage' = "transform"
  /\ l' = 0 /\ base' = 0
  /\ UNCHANGED <<input, process, lambdas, block_counts, walk, jobs, index>>

\* block_types, which is 0 where no point was applied.
type_of(id) == IF chosen[id] = None THEN "pfor" ELSE chosen[id].type

\* One turn of the loop over the lists.
Transform ==
  /\ stage = "transform" /\ l \in Terms
  /\ jobs' = Append(jobs, [list |-> l, base |-> base])
  /\ NextList
  /\ UNCHANGED <<input, process, stage, lambdas, block_counts, walk, index>>

\* encode_type refuses a partial block that has another codec than interpolative.
Refused(job) ==
  \E slot \in Slots(job.list) :
    ~IsFull(job.list, slot) /\ type_of(job.base + slot) # "interpolative"

\* commit() of the list that is next, which its thread has prepared: it is
\* written with the codecs of its blocks.
CommitList ==
  /\ stage = "transform" /\ jobs # <<>>
  /\ LET job == Head(jobs)
     IN /\ ~Refused(job)
        /\ index' = Append(index, [slot \in Slots(job.list) |->
                      codings[job.base + slot][type_of(job.base + slot)].space])
  /\ jobs' = Tail(jobs)
  /\ UNCHANGED <<input, process, stage, lambdas, l, base, block_counts, walk>>

\* What prepare() throws in a thread ends the program, be it after the index was
\* written without the list.
Refuse ==
  /\ stage \in {"transform", "written"}
  /\ \E k \in DOMAIN jobs : Refused(jobs[k])
  /\ stage' = "failed"
  /\ UNCHANGED <<input, process, lambdas, l, base, block_counts, walk, jobs, index>>

\* complete() has committed all lists, or, where the last one filled a batch, it
\* did nothing: the index is built and written of those that were committed.
Freeze ==
  /\ stage = "transform" /\ l \notin Terms
  /\ stage' = "written"
  /\ UNCHANGED <<input, process, lambdas, l, base, block_counts, walk, jobs, index>>

\* The destructor of the queue: a thread that was not joined ends the program.
DestroyQueue ==
  /\ stage = "written"
  /\ stage' = IF jobs = <<>> THEN "ended" ELSE "failed"
  /\ UNCHANGED <<input, process, lambdas, l, base, block_counts, walk, jobs, index>>

Exit ==
  /\ stage \in {"ended", "failed"}
  /\ Exited

\* Killed anywhere: the file stays as it is.  The program ends like that, too,
\* where complete() leaves lists of compute_lambdas in the threads: the queue is
\* destroyed before the vector of the points, which would have finished the file.
Crash ==
  /\ stage \in {"compute", "open", "walk", "found", "transform"}
  /\ Exited

Step ==
  \/ Profile \/ Start \/ compute_lambdas \/ Sort \/ Open \/ Walk \/ EndWalk
  \/ Report \/ Found \/ Transform \/ CommitList \/ Refuse \/ Freeze
  \/ DestroyQueue \/ Exit \/ Crash

HybridSpec == HybridInit /\ [][Step]_hybrid

-----------------------------------------------------------------------------
(* Properties *)

\* The file was finished, by this process or by one before it.
Cached == lambdas # None /\ lambdas.sorted

\* How often the queries decode a slot, the number of a slot's block, and what
\* the codecs make of that block: pairs of a space and a weighted time.
Decodes(term, slot) ==
  SumFunction([p \in DOMAIN Queries |->
    SumFunction([q \in DOMAIN Queries[p] |->
      Cardinality({i \in DOMAIN Queries[p][q] :
                     Queries[p][q][i] = <<"decode", term, slot>>})])])
IdOf(term, slot) ==
  2 * SumFunction([t \in 0..(term - 1) |-> num_blocks(t)]) + slot
SpaceTime(term, slot) ==
  {<<p.space, p.time>> : p \in compute_space_time(term, slot, IdOf(term, slot),
                                 smoothing + Decodes(term, slot))}

\* The corners of a set of points and what lies between them on the lower left
\* side: better in one way than each other point, and above no line of two.
Critical(sts) ==
  {p \in sts :
     /\ \A q \in sts \ {p} : q[1] > p[1] \/ q[2] > p[2]
     /\ \A q, r \in sts :
          q[2] > p[2] /\ p[2] > r[2] =>
            (p[1] - q[1]) * (q[2] - r[2]) <= (r[1] - q[1]) * (q[2] - p[2])}

\* The file holds, for every block, the critical points of what the codecs make
\* of that block, the time weighted with how often the queries decoded it: no
\* count is lost between the threads, given to another list when the profile is
\* merged with the lists, or to another block, and no point is missed or kept
\* that the buffer of append_lambdas should drop.
FileHoldsCriticalPoints ==
  Cached /\ ~heuristic_greedy =>
    \A term \in Terms : \A slot \in Slots(term) :
      {<<p.space, p.time>> : p \in {q \in Range(lambdas.points) : q.id = IdOf(term, slot)}}
        = Critical(SpaceTime(term, slot))

\* What encode_single writes of a number.
EncodedLength(x) == CHOOSE k \in 1..5 : x < 128^k /\ (k = 1 \/ x >= 128^(k - 1))

\* What a list takes in the index: its length, the ends and the maxima of its
\* blocks, and what its blocks were coded to.
ListSize(term, spaces) ==
  EncodedLength(Postings(term)) + 4 * num_blocks(term) + 4 * (num_blocks(term) - 1)
    + SumFunction(spaces)

IndexSize ==
  8 + SumFunction([t \in 0..(Len(index) - 1) |-> ListSize(t, index[t + 1])])

\* What the lists would have taken that complete() has left in the threads.
SpaceLeft ==
  SumFunction([k \in 0..(Len(jobs) - 1) |-> LET job == jobs[k + 1] IN
    ListSize(job.list, [slot \in Slots(job.list) |-> Replaced(job.base + slot)])])

\* A program that ends normally has announced the space of the index that it has
\* written: the spaces the walk replaced one by one, the codec each block is given
\* at last, and the overhead that was computed before.  Where lists were left in
\* the threads an index is written nevertheless; it is short of the space that was
\* announced by what those lists take, and the program does not end normally.  A
\* crash before, and a file that other runs have used, change nothing of it.
FoundSpaceIsIndexSize ==
  Cached =>
    /\ stage = "ended" => cur_space = IndexSize
    /\ stage = "written" => cur_space = IndexSize + SpaceLeft

\* Two points of a block have the same lambda: they may be applied in either
\* order, and the one that is applied last need not be the faster one.
Tied ==
  \E i, j \in DOMAIN lambdas.points : LET p == lambdas.points[i] q == lambdas.points[j] IN
    i # j /\ p.id = q.id /\ ~Less(p.lambda, q.lambda) /\ ~Less(q.lambda, p.lambda)

\* All pairs of space and time that a choice of a codec per block comes to.
Reachable ==
  FoldSet(LAMBDA ts, sums :
            {<<s[1] + p[1], s[2] + p[2]>> : s \in sums, p \in SpaceTime(ts[1], ts[2])},
          {<<space_base, 0>>},
          UNION {{t} \X Slots(t) : t \in Terms})

\* The trade-off that is found is optimal: no choice of codecs for the blocks
\* that takes no more space than the one found decodes in less time.  It needs
\* all of the profile, the slopes of every block's frontier to rise
\* (append_lambdas), the order of the file, and that the walk replaces the point
\* of the right block; and it is said of the index found, which is the first one
\* over the budget.
TimeOptimal ==
  stage = "found" /\ Cached /\ ~heuristic_greedy /\ ~Tied =>
    LET found_time == SumFunction([id \in Blocks |-> chosen[id].time])
    IN \A st \in Reachable : st[1] <= cur_space => st[2] >= found_time
=============================================================================
