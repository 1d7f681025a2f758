------------------------------ MODULE MCZoneMap ------------------------------
(* A small instance of ZoneMap: one block of two values beside one whose    *)
(* two values are equal and at an end of the range, stored with error codes *)
(* or in two layers, of which the second one loses nothing.                 *)
EXTENDS ZoneMap

CONSTANTS b1, b2, p1, p2, MaxValue

SmallUnits ==
  {u \in [Blocks -> [Points -> 0 .. MaxValue]] : u[b2][p1] = u[b2][p2] /\ u[b2][p1] \in {0, MaxValue}}

WithCodes == [layers |-> 1, codes |-> TRUE]
InLayers == [layers |-> 2, codes |-> FALSE]
BothCodecs == {WithCodes, InLayers}
SmallErrors ==
  [c \in BothCodecs |-> [l \in 0 .. c.layers - 1 |->
     IF c = WithCodes THEN {0, 2} ELSE IF l = 0 THEN {-2, 1} ELSE {0}]]

(* Bounds below, among and above all values a block can decode to. *)
BoundsAround == {-3} \cup (0 .. MaxValue) \cup {MaxValue + 3}
=============================================================================
