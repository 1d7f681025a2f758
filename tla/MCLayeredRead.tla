---------------------------- MODULE MCLayeredRead ----------------------------
(* Small instances of LayeredRead: chunks of 2 x 2 x 2 blocks. *)
EXTENDS LayeredRead

CONSTANT Spread  (* places of chunk 0 of which any may be wanted *)

(* One unit or two per chunk, C order, time fastest and a reversed order,  *)
(* one layer, two unequal ones and three.                                  *)
SmallLayouts ==
  [chunk : {<<2, 2, 2>>}, unit : {<<2, 2, 2>>, <<1, 2, 2>>},
   order : {<<1, 2, 3>>, <<2, 3, 1>>, <<3, 2, 1>>}, bytes : {<<2>>, <<1, 2>>, <<2, 1, 1>>}]

(* Any blocks of chunk 0 with none, one or two of chunk 1. *)
SmallWants ==
  {[chunk : {0}, block : A] \cup [chunk : {1}, block : B] :
     A \in SUBSET Spread, B \in {{}, {6}, {0, 7}}}
=============================================================================
