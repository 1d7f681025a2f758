---------------------------- MODULE MCQueryPlan ----------------------------
(* Small instances of QueryPlan: four steps of two units, in four chunks. *)
EXTENDS QueryPlan

CONSTANT Steps  (* values of t_chunk *)

SmallGrid == <<4, 1, 2>>
SmallSubs == <<2, 1, 1>>

Kind(c, h) == [class |-> c, hits |-> h]
(* Blocks in two layers: the second tells more. *)
TwoLayers == <<
  <<Kind(Out, 0), Kind(Out, 0)>>, <<Kind(In, 2), Kind(In, 2)>>, <<Kind(Maybe, 1), Kind(Maybe, 2)>>,
  <<Kind(Maybe, 2), Kind(In, 2)>>, <<Kind(Maybe, 0), Kind(Out, 0)>>>>

(* Every unit has contents of its own in one of the patterns. *)
Mixed(p, deep) ==
  [u \in Units |-> [b \in UnitBlocks |->
     LET k == TwoLayers[((u * (p + 1) + b * (p + 2) + u \div 3) % 5) + 1] IN SubSeq(k, 1, deep)]]
(* One block of the array is to be read. *)
Marked(v, deep) ==
  [u \in Units |-> [b \in UnitBlocks |->
     SubSeq(IF u = v /\ b = 1 THEN <<Kind(Maybe, 1), Kind(Maybe, 2)>> ELSE TwoLayers[1], 1, deep)]]

SmallArrays ==
  [units : {Mixed(p, 1) : p \in 0 .. 2} \cup {Marked(v, 1) : v \in Units},
   tChunk : Steps \cup {None}, layers : {1}, flaw : {None}]
  \cup [units : {Mixed(p, 2) : p \in 0 .. 1}, tChunk : {2, None}, layers : {2}, flaw : {None}]
  \cup [units : {Mixed(0, 1)}, tChunk : {2}, layers : {1}, flaw : Flaws]

Defaults ==
  [threads |-> 0, request_concurrency |-> 32, request_batch_size |-> None, merge_gap_blocks |-> 0,
   layer |-> None, max_chunk_requests |-> 1, pipeline |-> TRUE, max_inflight_bytes |-> None,
   meta_by_key |-> TRUE]
OutOfRange ==
  {[Defaults EXCEPT !.threads = -1], [Defaults EXCEPT !.request_concurrency = 0],
   [Defaults EXCEPT !.request_batch_size = 0], [Defaults EXCEPT !.merge_gap_blocks = -1],
   [Defaults EXCEPT !.max_chunk_requests = 0], [Defaults EXCEPT !.max_inflight_bytes = 0],
   [Defaults EXCEPT !.layer = 0], [Defaults EXCEPT !.layer = 3]}
SmallOptions ==
  {[Defaults EXCEPT !.pipeline = p, !.meta_by_key = k, !.layer = l, !.merge_gap_blocks = g] :
     p \in BOOLEAN, k \in BOOLEAN, l \in {None, 1, 2}, g \in {0, 2}}
  \cup {[Defaults EXCEPT !.layer = l, !.max_inflight_bytes = 64] : l \in {1, 2}}
  \cup OutOfRange
=============================================================================
