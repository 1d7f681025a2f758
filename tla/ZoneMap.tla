------------------------------- MODULE ZoneMap -------------------------------
(***************************************************************************)
(* The zone map record of one unit: how write_meta builds it (szfp_meta in *)
(* core.c, block_error_codes in codec.py) and how a query classifies the   *)
(* unit's blocks by it (plan_meta in query.py, classify_unit in query.c).  *)
(*                                                                         *)
(* Values are integers.  A block's range is stored in Steps parts of the   *)
(* unit's span (255 in the code), rounded outward; its error in CodeSteps  *)
(* parts of the unit's error (15 in the code).  Bounds are compared after  *)
(* multiplying both sides by Steps * CodeSteps, so that nothing is lost to *)
(* division; what the program loses, its double arithmetic rounding, is a  *)
(* free choice of up to Rounding, in Steps-ths of a value, each time the   *)
(* writer scales an offset and each time the reader rebuilds a bound.      *)
(***************************************************************************)
EXTENDS Integers, FiniteSets

CONSTANTS
  Blocks,      (* the blocks of the unit                                   *)
  Points,      (* the values of one block                                  *)
  Originals,   (* the data of a unit: [Blocks -> [Points -> Int]]          *)
  Codecs,      (* [layers |-> number of precision layers,                  *)
               (*  codes |-> block_error_bits = 4]                         *)
  Errors,      (* Errors[c][l]: what layer l of codec c may add in decoding *)
  Bounds,      (* the lo and hi of queries                                 *)
  Steps,
  CodeSteps,
  Rounding,
  EpsRounding, (* how far rounding eps up to a float32 may lift it         *)
  Slack        (* 8 * DBL_EPSILON * (|cmin| + |cmax|), in Steps-ths        *)

ASSUME UnitAssumption ==
  /\ Blocks # {} /\ Points # {}
  /\ Originals \subseteq [Blocks -> [Points -> Int]]
  /\ Bounds \subseteq Int
ASSUME StepsAssumption ==
  /\ Steps \in Nat \ {0} /\ CodeSteps \in Nat \ {0}
  /\ Rounding \in Nat /\ EpsRounding \in Nat /\ Slack \in Nat
(* SkipZFPCodec refuses block_error_bits with more than one layer.         *)
ASSUME CodecAssumption ==
  /\ Codecs \subseteq [layers : Nat \ {0}, codes : BOOLEAN]
  /\ \A c \in Codecs : c.codes => c.layers = 1
  /\ DOMAIN Errors = Codecs
  /\ \A c \in Codecs : Errors[c] \in [0 .. c.layers - 1 -> SUBSET Int]
(* The slack covers what the writer and the reader round.                  *)
ASSUME SlackAssumption == 2 * Rounding <= Slack

VARIABLES
  codec,   (* the array's codec                                            *)
  phase,   (* "write", "query" or "classified"                             *)
  orig,    (* the original values                                          *)
  dec,     (* what each layer decodes to                                   *)
  rec,     (* the record: cmin, cmax, eps of each layer, lows, highs, codes *)
  query,   (* the layer, the block and the bounds asked for                *)
  class    (* the block's class                                            *)

vars == <<codec, phase, orig, dec, rec, query, class>>

LayerIds == 0 .. codec.layers - 1
Last == codec.layers - 1

None == "none"
Noise == -Rounding .. Rounding
Abs(x) == IF x < 0 THEN -x ELSE x

LeastOf(S) == {v \in S : \A w \in S : v <= w}
LargestOf(S) == {v \in S : \A w \in S : v >= w}

ValuesOf(b) == {orig[b][p] : p \in Points}
AllValues == UNION {ValuesOf(b) : b \in Blocks}
BlockErrors(l, b) == {Abs(orig[b][p] - dec[l][b][p]) : p \in Points}
UnitErrors(l) == UNION {BlockErrors(l, b) : b \in Blocks}

-----------------------------------------------------------------------------
(* Writing *)

(* floor and ceil of an offset x scaled to steps, give or take rounding. *)
Floor(x, span) ==
  {c \in -1 .. Steps + 1 : \E r \in Noise :
     c * span <= x * Steps + r /\ x * Steps + r < (c + 1) * span}
Ceil(x, span) ==
  {c \in -1 .. Steps + 1 : \E r \in Noise :
     (c - 1) * span < x * Steps + r /\ x * Steps + r <= c * span}

(* Mutant: a ceiling above the last step is stored as it is. *)
ToU8Unclamped(c) == c

ToU8(c) == IF c < 0 THEN 0 ELSE IF c > Steps THEN Steps ELSE c

(* The stored offset of a block's smallest value: the same for every block *)
(* when the unit is constant.                                              *)
LowCodes(b, cmin, cmax) ==
  IF cmax = cmin THEN {0}
  ELSE {ToU8(c) : c \in UNION {Floor(v - cmin, cmax - cmin) : v \in LeastOf(ValuesOf(b))}}

(* Mutant: the upper offset is truncated like the lower one. *)
HighCodesTruncated(b, cmin, cmax) ==
  IF cmax = cmin THEN {0}
  ELSE {ToU8(c) : c \in UNION {Floor(v - cmin, cmax - cmin) : v \in LargestOf(ValuesOf(b))}}

(* The stored offset of a block's largest value. *)
HighCodes(b, cmin, cmax) ==
  IF cmax = cmin THEN {0}
  ELSE {ToU8(c) : c \in UNION {Ceil(v - cmin, cmax - cmin) : v \in LargestOf(ValuesOf(b))}}

(* Mutant: max_err is rounded down to a float32. *)
EpsDown(l) == {e - d : e \in LargestOf(UnitErrors(l)), d \in 0 .. EpsRounding} \cap Nat

(* max_err, rounded up to a float32. *)
Eps(l) == {e + d : e \in LargestOf(UnitErrors(l)), d \in 0 .. EpsRounding}

(* The error code of a block: the smallest that covers its error or, when  *)
(* the quotient came out just above a whole number, the next one.  Without *)
(* codes the block's bound is the whole of eps, which is code CodeSteps.   *)
ErrorCodes(b, eps) ==
  IF ~codec.codes THEN {CodeSteps}
  ELSE {q \in 0 .. CodeSteps : \E err \in LargestOf(BlockErrors(Last, b)) :
          /\ eps * q >= CodeSteps * err
          /\ eps * (q - 2) < CodeSteps * err \/ q = 0}

AllEps == UNION {Eps(l) : l \in LayerIds}

(* One entry per block from the set of entries that block may get. *)
Choices(sets) ==
  {f \in [Blocks -> UNION {sets[b] : b \in Blocks}] : \A b \in Blocks : f[b] \in sets[b]}

(* write_meta's part for one unit. *)
Build ==
  /\ phase = "write"
  /\ \E cmin \in LeastOf(AllValues), cmax \in LargestOf(AllValues), eps \in [LayerIds -> AllEps] :
       /\ \A l \in LayerIds : eps[l] \in Eps(l)
       /\ \E lows \in Choices([b \in Blocks |-> LowCodes(b, cmin, cmax)]),
             highs \in Choices([b \in Blocks |-> HighCodes(b, cmin, cmax)]),
             codes \in Choices([b \in Blocks |-> ErrorCodes(b, eps[Last])]) :
            rec' = [cmin |-> cmin, cmax |-> cmax, eps |-> eps,
                    lows |-> lows, highs |-> highs, codes |-> codes]
  /\ phase' = "query"
  /\ UNCHANGED <<codec, orig, dec, query, class>>

-----------------------------------------------------------------------------
(* Querying *)

Span == rec.cmax - rec.cmin

(* The bounds of block b on original values, in Steps-ths, as computed. *)
LowerBounds(b) ==
  IF Span = 0 THEN {rec.cmin * Steps}
  ELSE {rec.cmin * Steps + rec.lows[b] * Span + r - Slack : r \in Noise}

UpperBounds(b) ==
  IF Span = 0 THEN {rec.cmax * Steps}
  ELSE {rec.cmin * Steps + rec.highs[b] * Span + r + Slack : r \in Noise}

(* Mutant: plan_meta keeps the last layer's error bound. *)
BlockErrorOfLast(l, b) == rec.eps[Last] * rec.codes[b]

(* block_error on the bound plan_meta keeps, in CodeSteps-ths. *)
BlockError(l, b) == rec.eps[l] * rec.codes[b]

(* lo and hi, bounds and error on one scale. *)
Scaled(x) == x * Steps * CodeSteps
Widened(bound, e) == bound * CodeSteps + e * Steps

(* Mutant: the predicate is taken for lo <= x < hi. *)
ClassifiedHalfOpen(bmin, bmax, e, lo, hi) ==
  IF Widened(bmin, -e) >= Scaled(lo) /\ Widened(bmax, e) < Scaled(hi) THEN "IN"
  ELSE IF Widened(bmax, e) < Scaled(lo) \/ Widened(bmin, -e) >= Scaled(hi) THEN "OUT"
  ELSE "MAYBE"

(* Mutant: a block is OUT only when it is out on both sides. *)
ClassifiedBothSides(bmin, bmax, e, lo, hi) ==
  IF Widened(bmin, -e) > Scaled(lo) /\ Widened(bmax, e) <= Scaled(hi) THEN "IN"
  ELSE IF Widened(bmax, e) <= Scaled(lo) /\ Widened(bmin, -e) > Scaled(hi) THEN "OUT"
  ELSE "MAYBE"

(* The predicate is lo < x <= hi. *)
Classified(bmin, bmax, e, lo, hi) ==
  IF Widened(bmin, -e) > Scaled(lo) /\ Widened(bmax, e) <= Scaled(hi) THEN "IN"
  ELSE IF Widened(bmax, e) <= Scaled(lo) \/ Widened(bmin, -e) > Scaled(hi) THEN "OUT"
  ELSE "MAYBE"

(* range_bounds returns bounds that cross by one float when lo = hi and    *)
(* both are exclusive.                                                     *)
Classify(l, b, lo, hi) ==
  /\ phase = "query"
  /\ lo <= hi + 1
  /\ query' = [layer |-> l, block |-> b, lo |-> lo, hi |-> hi]
  /\ \E bmin \in LowerBounds(b), bmax \in UpperBounds(b) :
       class' = Classified(bmin, bmax, BlockError(l, b), lo, hi)
  /\ phase' = "classified"
  /\ UNCHANGED <<codec, orig, dec, rec>>

Init ==
  /\ codec \in Codecs
  /\ phase = "write"
  /\ orig \in Originals
  /\ \E err \in [LayerIds -> [Blocks -> [Points -> UNION {Errors[codec][l] : l \in LayerIds}]]] :
       /\ \A l \in LayerIds, b \in Blocks, p \in Points : err[l][b][p] \in Errors[codec][l]
       /\ dec = [l \in LayerIds |-> [b \in Blocks |-> [p \in Points |-> orig[b][p] + err[l][b][p]]]]
  /\ rec = None
  /\ query = None
  /\ class = None

Next ==
  \/ Build
  \/ \E l \in LayerIds, b \in Blocks, lo, hi \in Bounds : Classify(l, b, lo, hi)

Spec == Init /\ [][Next]_vars

-----------------------------------------------------------------------------
(* Properties *)

(* The record's codes fit the bits they are stored in.                     *)
TypeOK ==
  /\ codec \in Codecs
  /\ phase \in {"write", "query", "classified"}
  /\ orig \in [Blocks -> [Points -> Int]]
  /\ dec \in [LayerIds -> [Blocks -> [Points -> Int]]]
  /\ phase \in {"query", "classified"} =>
       rec \in [cmin : Int, cmax : Int, eps : [LayerIds -> Nat],
                lows : [Blocks -> 0 .. Steps], highs : [Blocks -> 0 .. Steps],
                codes : [Blocks -> 0 .. CodeSteps]]
  /\ phase = "classified" =>
       /\ query \in [layer : LayerIds, block : Blocks, lo : Int, hi : Int]
       /\ class \in {"IN", "OUT", "MAYBE"}

Recorded == phase \in {"query", "classified"}

(* Whatever the writer and the reader round, the bounds a query rebuilds   *)
(* from the offsets enclose every original value of the block, and every   *)
(* layer's block error covers what that layer's decoding changes.          *)
RecordEncloses ==
  Recorded => \A b \in Blocks, p \in Points :
    /\ \A bmin \in LowerBounds(b) : bmin <= orig[b][p] * Steps
    /\ \A bmax \in UpperBounds(b) : orig[b][p] * Steps <= bmax
    /\ \A l \in LayerIds :
         Abs(orig[b][p] - dec[l][b][p]) * CodeSteps <= BlockError(l, b)

(* Every decoded value of an IN block satisfies lo < x <= hi: counting the *)
(* block without reading it is exact.                                      *)
InIsSound ==
  phase = "classified" /\ class = "IN" => \A p \in Points :
    LET x == dec[query.layer][query.block][p] IN query.lo < x /\ x <= query.hi

(* No decoded value of an OUT block does: skipping the block is exact.     *)
OutIsSound ==
  phase = "classified" /\ class = "OUT" => \A p \in Points :
    LET x == dec[query.layer][query.block][p] IN ~(query.lo < x /\ x <= query.hi)

(* A block is read only when it has to be: were the bounds of its original *)
(* values moved apart by one step, the slack, the rounding and its error   *)
(* bound as stored, they would meet lo or hi.                              *)
MaybeIsNear ==
  phase = "classified" /\ class = "MAYBE" =>
    \E v, w \in ValuesOf(query.block) :
      LET step == IF Span = 0 THEN 0 ELSE Span + Slack + 2 * Rounding
          reach == step * CodeSteps + BlockError(query.layer, query.block) * Steps
      IN  \E bound \in {query.lo, query.hi} :
            Scaled(v) - reach <= Scaled(bound) /\ Scaled(bound) <= Scaled(w) + reach

(* block_error_codes never raises for the error its own check looks for:   *)
(* whatever the rounding, some code covers every block's error, as eps     *)
(* covers the largest error of the unit.                                   *)
CodesExist ==
  phase = "write" => \A b \in Blocks, eps \in Eps(Last) : ErrorCodes(b, eps) # {}

(* A record fits its bytes and nibbles, and every block has an error code. *)
CodesFit == TypeOK /\ CodesExist

(* Blocks that are not read are counted exactly.                           *)
ClassIsSound == InIsSound /\ OutIsSound
=============================================================================
