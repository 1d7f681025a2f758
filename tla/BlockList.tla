------------------------------ MODULE BlockList ------------------------------
(***************************************************************************)
(* The list of the blocks that a query reads, in the order of the planner  *)
(* (plan_blocks in query.c), and the reads that merge_ranges makes of it,  *)
(* as functions: PlanBlocks and MergeRanges model how they are computed.   *)
(* A block of a list has the fields chunk and block, its place there.      *)
(***************************************************************************)
EXTENDS Integers, FiniteSets, Sequences

Before(a, b) == a.chunk < b.chunk \/ (a.chunk = b.chunk /\ a.block < b.block)
InOrder(S) ==
  [k \in 1 .. Cardinality(S) |-> CHOOSE e \in S : Cardinality({d \in S : Before(d, e)}) = k - 1]

(* The items of a list that start a read, and the reads, from item to item. *)
StartsRun(list, gap, i) ==
  \/ i = 1
  \/ list[i].chunk # list[i - 1].chunk
  \/ list[i].block > list[i - 1].block + gap + 1
Runs(list, gap) ==
  {r \in [from : DOMAIN list, to : DOMAIN list] :
     /\ r.from <= r.to /\ StartsRun(list, gap, r.from)
     /\ \A k \in r.from + 1 .. r.to : ~StartsRun(list, gap, k)
     /\ r.to < Len(list) => StartsRun(list, gap, r.to + 1)}
=============================================================================
