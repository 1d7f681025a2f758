----------------------------- MODULE RangeBounds -----------------------------
(***************************************************************************)
(* The predicate of a query (range_bounds and _below_f32 in query.py and   *)
(* the public calls that use them).  Every call is turned into one range   *)
(* a < x <= b over the decoded values, which are float32, while its bounds *)
(* are doubles: an inclusive lower bound and an exclusive upper bound are  *)
(* moved to the largest float32 below them.                                *)
(*                                                                         *)
(* Numbers are integers in their order.  Rounding a double to float32 may  *)
(* go to either neighbour, and beyond the largest float to infinity; a     *)
(* float32 stays as it is.                                                 *)
(***************************************************************************)
EXTENDS Integers

CONSTANTS
  Float32,        (* the finite float32 values                             *)
  Doubles,        (* the bounds a caller may give, with the infinities     *)
  MinusInfinity, Infinity,
  NaN, None

F32 == Float32 \cup {MinusInfinity, Infinity}

ASSUME NumbersAssumption ==
  /\ Doubles \cup F32 \subseteq Int
  /\ \A v \in Float32 : MinusInfinity < v /\ v < Infinity
  /\ \A x \in Doubles : MinusInfinity <= x /\ x <= Infinity
ASSUME OthersAssumption == {NaN, None} \cap Doubles = {} /\ NaN # None

VARIABLES
  call,   (* function, bounds and flags of the call                        *)
  result  (* what range_bounds returns or raises, None before              *)

callVars == <<call, result>>

Given == Doubles \cup {NaN}
Calls ==
  [fn : {"gt", "lt"}, threshold : Given, inclusive : BOOLEAN]
    \cup [fn : {"range"}, lo : Given \cup {None}, hi : Given \cup {None},
          lo_inclusive : BOOLEAN, hi_inclusive : BOOLEAN]

-----------------------------------------------------------------------------
(* float32 *)

(* np.float32(x): no float lies between x and what it is rounded to. *)
ToF32(x) ==
  {f \in F32 : \A g \in F32 : ~(x <= g /\ g < f) /\ ~(f < g /\ g <= x)}

(* np.nextafter(f, -inf) *)
NextDown(f) ==
  IF f = MinusInfinity THEN {f}
  ELSE {g \in F32 : g < f /\ \A h \in F32 : h < f => h <= g}

(* Mutant: a double that is rounded up is taken for a float. *)
BelowByOneStep(x) == UNION {NextDown(f) : f \in ToF32(x)}

(* _below_f32 *)
Below(x) ==
  {f \in ToF32(x) : f < x} \cup UNION {NextDown(f) : f \in {g \in ToF32(x) : g >= x}}

-----------------------------------------------------------------------------
(* The calls *)

Raises == [raises |-> TRUE]
Bounds(a, b) == [raises |-> FALSE, a |-> a, b |-> b]

(* range_bounds: the ranges it may return. *)
range_bounds(lo, hi, loInclusive, hiInclusive) ==
  IF lo = NaN \/ hi = NaN \/ (lo # None /\ hi # None /\ lo > hi) THEN {Raises}
  ELSE {Bounds(a, b) :
          a \in IF lo = None THEN {MinusInfinity} ELSE IF loInclusive THEN Below(lo) ELSE {lo},
          b \in IF hi = None THEN {Infinity} ELSE IF hiInclusive THEN {hi} ELSE Below(hi)}

(* The calls that count values, and those that aggregate them. *)
query_gt(c) == range_bounds(c.threshold, None, c.inclusive, TRUE)
query_lt(c) == range_bounds(None, c.threshold, FALSE, c.inclusive)
query_range(c) ==
  IF c.lo = None \/ c.hi = None THEN {Raises}
  ELSE range_bounds(c.lo, c.hi, c.lo_inclusive, c.hi_inclusive)

Outcomes(c) ==
  CASE c.fn = "gt" -> query_gt(c)
    [] c.fn = "lt" -> query_lt(c)
    [] OTHER -> query_range(c)

CallInit == call \in Calls /\ result = None

Call ==
  /\ result = None
  /\ result' \in Outcomes(call)
  /\ UNCHANGED call

CallSpec == CallInit /\ [][Call]_callVars

-----------------------------------------------------------------------------
(* Properties *)

AtLeast(x, v, inclusive) == IF inclusive THEN x <= v ELSE x < v
(* What the caller asked. *)
Asked(c, v) ==
  /\ c.fn = "gt" => AtLeast(c.threshold, v, c.inclusive)
  /\ c.fn = "lt" => AtLeast(v, c.threshold, c.inclusive)
  /\ c.fn = "range" => AtLeast(c.lo, v, c.lo_inclusive) /\ AtLeast(v, c.hi, c.hi_inclusive)

(* The range the planner and the decoder test selects the decoded values   *)
(* the caller asked for, and no other, wherever a bound lies: at a float,  *)
(* between two of them or beyond the last one.                             *)
BoundsExact ==
  result # None /\ ~result.raises =>
    \A v \in Float32 : (result.a < v /\ v <= result.b) <=> Asked(call, v)
=============================================================================
