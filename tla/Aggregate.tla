------------------------------ MODULE Aggregate ------------------------------
(***************************************************************************)
(* The filtered aggregate (aggregate_block in query.c, combine in          *)
(* aggregate.py).  A query lo < x <= hi reads its IN and MAYBE blocks,     *)
(* adds up their decoded values one by one in double precision, one total  *)
(* per read, and combines the totals into bounds on the count, the sum and *)
(* the mean of the matching original values, which it never sees.          *)
(*                                                                         *)
(* Values are integers.  A sum that is rounded may be off by a RoundOff-th *)
(* of itself either way; rounding outward (_down, _up) is taken to give    *)
(* the exact value, the least it guarantees, and means are fractions.  The *)
(* rounding of r - eps and r + eps is left out: rounding is monotone and   *)
(* the original value between them is representable.  rec_sum, the sum of  *)
(* the decoded values, enters none of the bounds and is left out.          *)
(***************************************************************************)
EXTENDS Integers, Sequences, FiniteSetsExt, SequencesExt

CONSTANTS
  Values,          (* decoded values                                       *)
  Errors,          (* error bounds of a block, in eps                      *)
  LowBounds,       (* values of lo                                         *)
  HighBounds,      (* values of hi                                         *)
  ValuesPerBlock,
  ReadBlocks,      (* blocks of the longest read: one within one chunk     *)
  MaxBlocks,       (* bound: blocks a query reads                          *)
  RoundOff,        (* 1 / u                                                *)
  ExtremesOnly,    (* whether sums come out as far off as they may be      *)
  MinusInfinity, Infinity

ASSUME ValuesAssumption ==
  /\ Values \cup LowBounds \cup HighBounds \subseteq MinusInfinity .. Infinity
  /\ Errors \subseteq Nat
  /\ {MinusInfinity, Infinity} \subseteq Int
ASSUME SizesAssumption == {ValuesPerBlock, ReadBlocks, MaxBlocks, RoundOff} \subseteq Nat \ {0}

(* Errors of errors do not show: with doubles, below 2^26 values in a read. *)
ReadValues == ReadBlocks * ValuesPerBlock
ASSUME RoundOffAssumption == 2 * (ReadValues + 3) * (ReadValues + 3) <= RoundOff

VARIABLES
  lo, hi,
  block,  (* the block being added: eps, in_block and its values so far    *)
  acc,    (* SzAggregate, the totals of the current read                   *)
  size,   (* blocks of the current read                                    *)
  parts,  (* totals and sizes of the reads that are done                   *)
  truth,  (* count and sum of the matching original values of these blocks *)
  answer  (* the dictionary combine returns, None before                   *)

aggregateVars == <<lo, hi, block, acc, size, parts, truth, answer>>

None == [kind |-> "none"]

Empty ==
  [abs_total |-> 0, rec_count |-> 0,
   sure_count |-> 0, sure_sum_lo |-> 0, sure_sum_hi |-> 0,
   maybe_count |-> 0, maybe_sum_neg |-> 0, maybe_sum_pos |-> 0,
   maybe_min |-> Infinity, maybe_max |-> MinusInfinity]

Abs(x) == IF x < 0 THEN -x ELSE x
(* What a double sum may come out as. *)
Rounded(x) ==
  LET off == Abs(x) \div RoundOff
  IN  IF ExtremesOnly THEN {x - off, x + off} ELSE x - off .. x + off
Sums(x, y) == IF x = 0 \/ y = 0 THEN {x + y} ELSE Rounded(x + y)
Larger(x, y) == IF x > y THEN x ELSE y
Smaller(x, y) == IF x < y THEN x ELSE y

(* Mutant: the lower bound of the predicate is taken to be closed. *)
InRangeClosed(v) == lo <= v /\ v <= hi

in_range(v) == lo < v /\ v <= hi

(* The predicate itself. *)
Matches(x) == lo < x /\ x <= hi

(* range_bounds returns bounds that cross by one float when lo = hi and    *)
(* both are exclusive.                                                     *)
AggregateInit ==
  /\ lo \in LowBounds /\ hi \in HighBounds
  /\ lo <= hi + 1
  /\ block = None /\ acc = Empty /\ size = 0 /\ parts = <<>>
  /\ truth = [count |-> 0, sum |-> 0]
  /\ answer = None

-----------------------------------------------------------------------------
(* aggregate_block *)

BlocksRead == size + SumFunction([k \in DOMAIN parts |-> parts[k].size])

StartBlock ==
  /\ block = None /\ answer = None
  /\ size < ReadBlocks /\ BlocksRead < MaxBlocks
  /\ \E eps \in Errors, in \in BOOLEAN : block' = [eps |-> eps, in_block |-> in, seen |-> 0]
  /\ size' = size + 1
  /\ UNCHANGED <<lo, hi, acc, parts, truth, answer>>

(* Mutant: a value is sure when its decoded value matches. *)
SureByDecoded(r) == block.in_block \/ in_range(r)

(* The original value matches whatever it is. *)
Sure(r) == block.in_block \/ (r - block.eps > lo /\ r + block.eps <= hi)

Never(r) == r + block.eps <= lo \/ r - block.eps > hi

(* The decoded value r joins the totals. *)
Add(r) ==
  LET low == Larger(r - block.eps, lo)
      high == Smaller(r + block.eps, hi)
      matches == block.in_block \/ in_range(r)
      sure == Sure(r)
      maybe == ~sure /\ ~Never(r)
  IN  \E abs \in Sums(acc.abs_total, Abs(r) + block.eps),
         sureLo \in IF sure THEN Sums(acc.sure_sum_lo, low) ELSE {acc.sure_sum_lo},
         sureHi \in IF sure THEN Sums(acc.sure_sum_hi, high) ELSE {acc.sure_sum_hi},
         neg \in IF maybe THEN Sums(acc.maybe_sum_neg, Smaller(low, 0)) ELSE {acc.maybe_sum_neg},
         pos \in IF maybe THEN Sums(acc.maybe_sum_pos, Larger(high, 0)) ELSE {acc.maybe_sum_pos} :
        acc' = [abs_total |-> abs,
                rec_count |-> acc.rec_count + (IF matches THEN 1 ELSE 0),
                sure_count |-> acc.sure_count + (IF sure THEN 1 ELSE 0),
                sure_sum_lo |-> sureLo,
                sure_sum_hi |-> sureHi,
                maybe_count |-> acc.maybe_count + (IF maybe THEN 1 ELSE 0),
                maybe_sum_neg |-> neg,
                maybe_sum_pos |-> pos,
                maybe_min |-> IF maybe THEN Smaller(acc.maybe_min, low) ELSE acc.maybe_min,
                maybe_max |-> IF maybe THEN Larger(acc.maybe_max, high) ELSE acc.maybe_max]

(* The original values that r may stand for: the extremes and those next   *)
(* to a bound.  All values of an IN block match, originals and decoded.    *)
Originals(r) ==
  {x \in {r - block.eps, r, r + block.eps, lo, lo + 1, hi, hi + 1} :
     r - block.eps <= x /\ x <= r + block.eps /\ (block.in_block => Matches(x))}

AddValue(r) ==
  /\ block # None /\ block.seen < ValuesPerBlock
  /\ block.in_block => Matches(r)
  /\ \E x \in Originals(r) :
       truth' = IF Matches(x) THEN [count |-> truth.count + 1, sum |-> truth.sum + x] ELSE truth
  /\ Add(r)
  /\ block' = [block EXCEPT !.seen = @ + 1]
  /\ UNCHANGED <<lo, hi, size, parts, answer>>

EndBlock ==
  /\ block # None /\ block.seen = ValuesPerBlock
  /\ block' = None
  /\ UNCHANGED <<lo, hi, acc, size, parts, truth, answer>>

EndRead ==
  /\ block = None /\ size > 0
  /\ parts' = Append(parts, [acc |-> acc, size |-> size])
  /\ acc' = Empty /\ size' = 0
  /\ UNCHANGED <<lo, hi, block, truth, answer>>

-----------------------------------------------------------------------------
(* combine *)

Total(f) == SumFunction([k \in DOMAIN parts |-> parts[k].acc[f]])
(* math.fsum rounds the exact sum once. *)
fsum(f) == IF Len(parts) < 2 THEN {Total(f)} ELSE Rounded(Total(f))

(* Mutant: the error of adding up is not accounted for. *)
NoSlack == 0

slack ==
  SumFunction([k \in DOMAIN parts |->
                 (parts[k].size * ValuesPerBlock + 2) * parts[k].acc.abs_total]) \div RoundOff

maybe_min == Min({Infinity} \cup {parts[k].acc.maybe_min : k \in DOMAIN parts})
maybe_max == Max({MinusInfinity} \cup {parts[k].acc.maybe_max : k \in DOMAIN parts})

(* p / q and r / s, for positive q and s. *)
Leq(x, y) == x.num * y.den <= y.num * x.den
Lower(x, y) == IF Leq(x, y) THEN x ELSE y
Upper(x, y) == IF Leq(x, y) THEN y ELSE x
Over(p, q) == [num |-> p, den |-> q]

(* Mutant: the mean is bounded by the sure values alone if there are any. *)
MeanOfSure(sureLo, sureHi) ==
  LET sure == Total("sure_count")
      maybe == Total("maybe_count")
  IN  IF sure > 0 THEN [lo |-> Over(sureLo, sure), hi |-> Over(sureHi, sure)]
      ELSE IF maybe > 0 THEN [lo |-> Over(maybe_min, 1), hi |-> Over(maybe_max, 1)]
      ELSE None

(* The bounds of the mean: with none of the uncertain values or with all.  *)
Mean(sureLo, sureHi) ==
  LET sure == Total("sure_count")
      maybe == Total("maybe_count")
  IN  IF sure > 0
      THEN [lo |-> IF maybe = 0 THEN Over(sureLo, sure)
                   ELSE Lower(Over(sureLo, sure), Over(sureLo + maybe * maybe_min, sure + maybe)),
            hi |-> IF maybe = 0 THEN Over(sureHi, sure)
                   ELSE Upper(Over(sureHi, sure), Over(sureHi + maybe * maybe_max, sure + maybe))]
      ELSE IF maybe > 0 THEN [lo |-> Over(maybe_min, 1), hi |-> Over(maybe_max, 1)]
      ELSE None

Combine ==
  /\ block = None /\ size = 0 /\ answer = None
  /\ \E l \in fsum("sure_sum_lo"), h \in fsum("sure_sum_hi"),
        neg \in fsum("maybe_sum_neg"), pos \in fsum("maybe_sum_pos") :
       \E products \in Rounded(slack) : \E wide \in Rounded(products) :
       \E sureLo \in Sums(l, -wide), sureHi \in Sums(h, wide) :
         answer' =
           [count |-> Total("rec_count"),
            original_count |-> [lo |-> Total("sure_count"),
                                hi |-> Total("sure_count") + Total("maybe_count")],
            original_sum |-> [lo |-> sureLo + neg, hi |-> sureHi + pos],
            original_mean |-> Mean(sureLo, sureHi)]
  /\ UNCHANGED <<lo, hi, block, acc, size, parts, truth>>

AggregateNext ==
  \/ StartBlock
  \/ \E r \in Values : AddValue(r)
  \/ EndBlock
  \/ EndRead
  \/ Combine

AggregateSpec == AggregateInit /\ [][AggregateNext]_aggregateVars

-----------------------------------------------------------------------------
(* Properties *)

(* original_count bounds the number of matching original values, of the    *)
(* whole query and of what has been added so far.                          *)
CountEnclosed ==
  LET sure == Total("sure_count") + acc.sure_count
      maybe == Total("maybe_count") + acc.maybe_count
  IN  sure <= truth.count /\ truth.count <= sure + maybe

(* original_sum bounds the sum of the matching original values, however    *)
(* the decoded terms were rounded when they were added up.                 *)
SumEnclosed ==
  answer # None => answer.original_sum.lo <= truth.sum /\ truth.sum <= answer.original_sum.hi

(* original_mean bounds the mean of the matching original values, whichever *)
(* of the uncertain ones match; it is None only if none can match.         *)
MeanEnclosed ==
  answer # None /\ truth.count > 0 =>
    /\ answer.original_mean # None
    /\ Leq(answer.original_mean.lo, Over(truth.sum, truth.count))
    /\ Leq(Over(truth.sum, truth.count), answer.original_mean.hi)

(* The count over the decoded values, which count returns for the same     *)
(* query, is within the bounds for the original values.                    *)
DecodedInside ==
  answer # None =>
    answer.original_count.lo <= answer.count /\ answer.count <= answer.original_count.hi

(* Both counts lie within the bounds of original_count.                    *)
CountsEnclosed == CountEnclosed /\ DecodedInside
=============================================================================
