---------------------------- MODULE MCStreamReads ----------------------------
(* A small instance of StreamReads. *)
EXTENDS StreamReads, TLC

CONSTANTS o1, o2, r1, r2, r3, r4

(* Two objects.  The reads of the first one are both under the limit of 4  *)
(* but do not fit together; the second object has one that is larger than  *)
(* the limit and one that fits beside any of the small ones.               *)
TwoOwners == (r1 :> o1) @@ (r2 :> o1) @@ (r3 :> o2) @@ (r4 :> o2)
MixedSizes == (r1 :> 2) @@ (r2 :> 3) @@ (r3 :> 6) @@ (r4 :> 1)
=============================================================================
