------------------------------ MODULE Estimates ------------------------------
(***************************************************************************)
(* What the experiments conclude about the original data from bounds alone: *)
(* the interval of the mean above a threshold (stage2 in                   *)
(* exp4_filtered_aggregate.py), and the intervals of a region's least and  *)
(* largest value (meta_minmax in exp3_aggregate.py).                       *)
(*                                                                         *)
(* A mean is a fraction <<sum, number>>.  A field of values has two axes;  *)
(* time, along which a region spans everything, is left out.               *)
(***************************************************************************)
EXTENDS Integers, Functions, FiniteSetsExt, SequencesExt

CONSTANTS
  BlockSide,   (* values of a block along each axis, 4 in the code         *)
  SubBlocks    (* blocks of a sub-chunk along each axis, 4 and 8           *)

ASSUME SidesAssumption == {BlockSide, SubBlocks} \subseteq Nat \ {0}

-----------------------------------------------------------------------------
(* stage2: values are records [a, rec, e], with rec at most e from a.      *)

AreValues(values) ==
  /\ values \in Seq([a : Int, rec : Int, e : Nat])
  /\ \A i \in DOMAIN values : LET v == values[i] IN v.rec - v.e <= v.a /\ v.a <= v.rec + v.e

(* Values that match for certain, and values that may. *)
Certain(values, th) == {i \in DOMAIN values : values[i].rec > th + values[i].e}
Ambiguous(values, th) ==
  {i \in DOMAIN values : values[i].rec > th - values[i].e} \ Certain(values, th)

Down(v) == v.rec - v.e
Up(v) == v.rec + v.e
(* The largest that the ambiguous values may be, largest first. *)
Ups(values, th) ==
  LET amb == Ambiguous(values, th)
      Before(i, j) == Up(values[i]) > Up(values[j]) \/ (Up(values[i]) = Up(values[j]) /\ i < j)
  IN  [k \in 1 .. Cardinality(amb) |->
         Up(values[CHOOSE i \in amb : Cardinality({j \in amb : Before(j, i)}) = k - 1])]

count_interval(values, th) ==
  LET nc == Cardinality(Certain(values, th))
  IN  <<nc, nc + Cardinality(Ambiguous(values, th))>>

(* Mutant: all ambiguous values raise the mean. *)
HighMeansOfAll(values, th) ==
  LET nc == Cardinality(Certain(values, th))
      high == SumFunctionOnSet([i \in DOMAIN values |-> Up(values[i])], Certain(values, th))
      ups == Ups(values, th)
  IN  IF nc > 0 THEN {<<high + SumFunctionOnSet(ups, DOMAIN ups), nc + Len(ups)>>} ELSE {<<ups[1], 1>>}

(* The means of which avg_hi is the largest: with the certain values, some *)
(* of the ambiguous ones, the largest first.                               *)
HighMeans(values, th) ==
  LET nc == Cardinality(Certain(values, th))
      high == SumFunctionOnSet([i \in DOMAIN values |-> Up(values[i])], Certain(values, th))
      ups == Ups(values, th)
  IN  IF nc > 0
      THEN {<<high + SumFunctionOnSet(ups, 1 .. k), nc + k>> : k \in 0 .. Len(ups)}
      ELSE {<<ups[1], 1>>}

(* avg_lo *)
LowMean(values, th) ==
  LET nc == Cardinality(Certain(values, th))
      na == Cardinality(Ambiguous(values, th))
      low == SumFunctionOnSet([i \in DOMAIN values |-> Down(values[i])], Certain(values, th))
  IN  IF nc > 0 THEN <<low + na * th, nc + na>> ELSE <<th, 1>>

AtMost(p, q) == p[1] * q[2] <= q[1] * p[2]

(* The count and the mean of the original values above the threshold lie   *)
(* in their intervals, whichever of the ambiguous values match.            *)
MeanInside(values, th) ==
  LET match == {i \in DOMAIN values : values[i].a > th}
      n == Cardinality(match)
      mean == <<SumFunctionOnSet([i \in DOMAIN values |-> values[i].a], match), n>>
  IN  /\ count_interval(values, th)[1] <= n /\ n <= count_interval(values, th)[2]
      /\ n > 0 => /\ AtMost(LowMean(values, th), mean)
                  /\ \E high \in HighMeans(values, th) : AtMost(mean, high)

-----------------------------------------------------------------------------
(* meta_minmax: field maps <<y, x>> to values, r is a region [y, x, h, w], *)
(* and every block's bounds are its own, rounded outward by slack.         *)

SubSide == BlockSide * SubBlocks
(* The field is stored: its sides are whole sub-chunks.  Its region is one *)
(* of it.                                                                  *)
IsField(field) ==
  \E h, w \in 1 .. Cardinality(DOMAIN field) :
    /\ h % SubSide = 0 /\ w % SubSide = 0
    /\ field \in [(0 .. h - 1) \X (0 .. w - 1) -> Int]
IsRegion(field, r) ==
  /\ r \in [y : Nat, x : Nat, h : Nat \ {0}, w : Nat \ {0}]
  /\ <<r.y + r.h - 1, r.x + r.w - 1>> \in DOMAIN field
Cell(field, side, c) == {field[p] : p \in {q \in DOMAIN field : q[1] \div side = c[1] /\ q[2] \div side = c[2]}}
Cells(field, side) == {<<p[1] \div side, p[2] \div side>> : p \in DOMAIN field}

(* Cells that a region touches, and cells that lie in it. *)
Touched(field, r, side) ==
  {c \in Cells(field, side) :
     /\ r.y \div side <= c[1] /\ c[1] <= (r.y + r.h - 1) \div side
     /\ r.x \div side <= c[2] /\ c[2] <= (r.x + r.w - 1) \div side}

(* Mutant: a cell in which the region begins counts as inside. *)
InsideFromFirst(field, r, side) ==
  {c \in Cells(field, side) :
     /\ r.y \div side <= c[1] /\ c[1] < (r.y + r.h) \div side
     /\ r.x \div side <= c[2] /\ c[2] < (r.x + r.w) \div side}

CeilDiv(x, side) == (x + side - 1) \div side
Inside(field, r, side) ==
  {c \in Cells(field, side) :
     /\ CeilDiv(r.y, side) <= c[1] /\ c[1] < (r.y + r.h) \div side
     /\ CeilDiv(r.x, side) <= c[2] /\ c[2] < (r.x + r.w) \div side}

meta_minmax(field, r, slack) ==
  LET Low(c) == Min(Cell(field, BlockSide, c)) - slack
      High(c) == Max(Cell(field, BlockSide, c)) + slack
      touch == Touched(field, r, BlockSide)
      inside == Inside(field, r, BlockSide)
      subs == Inside(field, r, SubSide)
      Cmin(c) == Min(Cell(field, SubSide, c))
      Cmax(c) == Max(Cell(field, SubSide, c))
      whole == r.h * r.w = Cardinality(DOMAIN field)
      minHigh == IF inside = {} THEN Max({High(c) : c \in touch}) ELSE Min({High(c) : c \in inside})
      maxLow == IF inside = {} THEN Min({Low(c) : c \in touch}) ELSE Max({Low(c) : c \in inside})
  IN  [min_lo |-> IF whole THEN Min({Cmin(c) : c \in subs}) ELSE Min({Low(c) : c \in touch}),
       min_hi |-> Min({minHigh} \cup {Cmin(c) : c \in subs}),
       max_lo |-> Max({maxLow} \cup {Cmax(c) : c \in subs}),
       max_hi |-> IF whole THEN Max({Cmax(c) : c \in subs}) ELSE Max({High(c) : c \in touch})]

(* The region's least and largest value lie in their intervals, whether or *)
(* not its edges cut through blocks and sub-chunks.                        *)
ExtremesInside(field, r, slack) ==
  LET v == {field[p] : p \in {q \in DOMAIN field : /\ r.y <= q[1] /\ q[1] < r.y + r.h
                                                   /\ r.x <= q[2] /\ q[2] < r.x + r.w}}
      m == meta_minmax(field, r, slack)
  IN  /\ m.min_lo <= Min(v) /\ Min(v) <= m.min_hi
      /\ m.max_lo <= Max(v) /\ Max(v) <= m.max_hi
=============================================================================
