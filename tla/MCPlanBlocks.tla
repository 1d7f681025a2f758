----------------------------- MODULE MCPlanBlocks -----------------------------
(* A small instance of PlanBlocks. *)
EXTENDS PlanBlocks

(* One map for each binary digit of a unit's number and its blocks': any   *)
(* two of them differ in one map, which is enough to see where they are put. *)
MarkedUnits ==
  {[u \in Units |-> [b \in UnitBlocks |-> IF ((2 * u + b) \div 2 ^ digit) % 2 = 1 THEN Maybe ELSE Out]] :
     digit \in 0 .. 6}

(* Chunks without, with some and with only blocks to read, in every order. *)
Patterns == {"none", "some", "all"}
ClassIn(pattern, u, b) ==
  CASE pattern = "none" -> Out
    [] pattern = "some" -> (u + b) % 3
    [] pattern = "all" -> Maybe
ChunkOf(u) ==
  LET x == u \div (uy * uz)
      y == (u \div uz) % uy
      z == u % uz
  IN  ((x \div sx) * gy + y \div sy) * gz + z \div sz
MixedChunks ==
  {[u \in Units |-> [b \in UnitBlocks |-> ClassIn(f[ChunkOf(u) % 3], u, b)]] :
     f \in [0 .. 2 -> Patterns]}

SmallZoneMaps == MarkedUnits \cup MixedChunks
=============================================================================
