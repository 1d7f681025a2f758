---------------------------- MODULE MCAggregate ----------------------------
(* Small instances of Aggregate. *)
EXTENDS Aggregate

(* A cfg holds no negative numbers. *)
SmallValues == {-128, 192}
SmallLows == {-2000, -128, 192}
SmallHighs == {192, 2000}
FarDown == -3000
=============================================================================
