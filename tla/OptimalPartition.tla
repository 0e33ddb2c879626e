-------------------------- MODULE OptimalPartition --------------------------
(***************************************************************************)
(* optimal_partition (src/optimal_partition.hpp): which cut into           *)
(* partitions partitioned_sequence::write chooses.  A shortest path over   *)
(* the positions, an edge from start to end costing the bits of that       *)
(* partition; of the edges out of a position only those that some window   *)
(* comes to are tried, one window for every power of 1 + eps2.             *)
(*                                                                         *)
(* PartitionedSequence starts from any cut; this module says which one it  *)
(* is, for the sequence of its state, as a pure function.                  *)
(***************************************************************************)
EXTENDS PartitionedSequence, Sequences

CONSTANTS
  params,    \* the sampling rates of the partitions
  fix_cost,  \* configuration: the bits a partition costs beside its own
  eps1,      \* both in hundredths
  eps2

\* The loop over the cost bounds ends only if truncation lets them grow.
ASSUME CostAssumption ==
  /\ params \in [s0 : Nat, s1 : Nat, r : Nat, rb_s1 : Nat]
  /\ fix_cost \in Nat /\ eps2 \in Nat
  /\ fix_cost * eps2 >= 100
  /\ eps1 \in 0..99

Seqs == INSTANCE SequencesExt
Partitions == INSTANCE IndexedSequences WITH linear_scan_threshold <- 8

cost_fun(u, len) == Partitions!bitsize(FALSE, u, len) + fix_cost

single_block_cost == cost_fun(universe, n)

\* The bounds of the windows: they grow until one covers the whole sequence,
\* or lies so far above the least cost that eps1 gives up the longer ones.
CostBounds ==
  LET least == cost_fun(1, 1)
      Grow(bounds, k) ==
        LET bound == (Seqs!Last(bounds) * (100 + eps2)) \div 100
        IN IF Seqs!Last(bounds) >= single_block_cost \/ eps1 * bound >= 100 * least
           THEN bounds
           ELSE Append(bounds, bound)
  IN Seqs!FoldLeft(Grow, <<least>>, [k \in 1..single_block_cost |-> k])

\* What a window from start to end costs: what precedes it is not in it.
Cost(start, end) ==
  cost_fun(seq[end - 1] - (IF start = 0 THEN seq[0] ELSE seq[start - 1] + 1) + 1,
           end - start)

\* Faulty variant: the cost of the way is improved, but not the way.
SlideKeepingPath(acc, start, window, bound) ==
  LET first == IF acc.ends[window] < acc.last_end THEN acc.last_end
               ELSE acc.ends[window]
      last == CHOOSE e \in first..n :
                /\ e = n \/ Cost(start, e) >= bound
                /\ \A d \in first..(e - 1) : Cost(start, d) < bound
      Through(e) == acc.min_cost[start] + Cost(start, e)
      better == {e \in first..last : Through(e) < acc.min_cost[e]}
  IN [acc EXCEPT
        !.ends[window] = last,
        !.last_end = last,
        !.min_cost = [e \in 0..n |-> IF e \in better THEN Through(e) ELSE @[e]]]

\* A window at start is stretched from where it ended, or where the window
\* before it ended, to the first end that reaches its bound.
Slide(acc, start, window, bound) ==
  LET first == IF acc.ends[window] < acc.last_end THEN acc.last_end
               ELSE acc.ends[window]
      last == CHOOSE e \in first..n :
                /\ e = n \/ Cost(start, e) >= bound
                /\ \A d \in first..(e - 1) : Cost(start, d) < bound
      Through(e) == acc.min_cost[start] + Cost(start, e)
      better == {e \in first..last : Through(e) < acc.min_cost[e]}
  IN [acc EXCEPT
        !.ends[window] = last,
        !.last_end = last,
        !.min_cost = [e \in 0..n |-> IF e \in better THEN Through(e) ELSE @[e]],
        !.path = [e \in 0..n |-> IF e \in better THEN start ELSE @[e]]]

ShortestPath ==
  LET bounds == CostBounds
      From(acc, start) ==
        Seqs!FoldLeft(LAMBDA a, w : Slide(a, start, w, bounds[w]),
                      [acc EXCEPT !.last_end = start + 1],
                      [w \in DOMAIN bounds |-> w])
  IN Seqs!FoldLeft(From,
       [min_cost |-> [e \in 0..n |-> IF e = 0 THEN 0 ELSE single_block_cost],
        path |-> [e \in 0..n |-> 0],
        last_end |-> 0,
        ends |-> [w \in DOMAIN bounds |-> 0]],
       [i \in 1..n |-> i - 1])

\* Faulty variant: on the way back the position moves before it is pushed.
ChosenCutMovingFirst ==
  LET path == ShortestPath.path
      ends[e \in 0..n] == IF e = 0 THEN <<>> ELSE Append(ends[path[e]], path[e])
  IN [p \in 0..(Len(ends[n]) - 1) |-> ends[n][p + 1]]

\* The ends of the partitions, back along the path from n.
ChosenCut ==
  LET path == ShortestPath.path
      ends[e \in 0..n] == IF e = 0 THEN <<>> ELSE Append(ends[path[e]], e)
  IN [p \in 0..(Len(ends[n]) - 1) |-> ends[n][p + 1]]

-----------------------------------------------------------------------------
(* Properties *)

\* Only some of the edges into a position are ever tried, the windows keep their
\* ends from position to position, and the way is recorded apart from its cost:
\* the way back along it still goes down to 0 and gives a cut that the sequence
\* can be written with.
ChosenIsACut ==
  call = <<"new", 0>> /\ uniform = 0 => ChosenCut \in Cuts(n)

CostOfCut(cut) ==
  Seqs!FoldLeft(LAMBDA sum, p : sum + Cost(ValueBefore(cut, p), cut[p]), 0,
                [p \in 1..SizeOf(cut) |-> p - 1])

\* The windows leave most edges out, and truncate their bounds: the cut that is
\* chosen for the sequence costs at most (1 + eps1) (1 + eps2) times as much as
\* any other, which is the one the state has.
ChosenCutIsNearCheapest ==
  call = <<"new", 0>> /\ uniform = 0 =>
    10000 * CostOfCut(ChosenCut)
      <= (100 + eps1) * (100 + eps2) * CostOfCut(partition)
=============================================================================
