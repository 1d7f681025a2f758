---------------------------- MODULE ZoneMapProofs ----------------------------
(***************************************************************************)
(* Proofs about ZoneMap, for units of any blocks, values, bounds, numbers  *)
(* of layers and steps, and any rounding that the slack covers.            *)
(***************************************************************************)
EXTENDS ZoneMap, WellFoundedInduction, TLAPS

(* The inductive invariant: what the record says of the data is carried    *)
(* from Build to Classify, which draws its conclusions from it.            *)
IInv == TypeOK /\ RecordEncloses /\ InIsSound /\ OutIsSound

Record == [cmin : Int, cmax : Int, eps : [LayerIds -> Nat],
           lows : [Blocks -> 0 .. Steps], highs : [Blocks -> 0 .. Steps],
           codes : [Blocks -> 0 .. CodeSteps]]

DataOK ==
  /\ codec \in Codecs
  /\ orig \in [Blocks -> [Points -> Int]]
  /\ dec \in [LayerIds -> [Blocks -> [Points -> Int]]]

-----------------------------------------------------------------------------
(* Products *)

(* A product grows with either factor. *)
LEMMA ProductGrows ==
  ASSUME NEW a \in Int, NEW b \in Int, NEW k \in Nat, a <= b
  PROVE  a * k <= b * k
  OBVIOUS

-----------------------------------------------------------------------------
(* The extremes the writer takes *)

(* The unit's and the block's extremes enclose every value. *)
LEMMA Extremes ==
  ASSUME DataOK, NEW b \in Blocks, NEW p \in Points,
         NEW cmin \in LeastOf(AllValues), NEW cmax \in LargestOf(AllValues)
  PROVE  /\ cmin \in Int /\ cmax \in Int /\ cmin <= orig[b][p] /\ orig[b][p] <= cmax
         /\ \A v \in LeastOf(ValuesOf(b)) : v \in Int /\ cmin <= v /\ v <= cmax /\ v <= orig[b][p]
         /\ \A v \in LargestOf(ValuesOf(b)) : v \in Int /\ cmin <= v /\ v <= cmax /\ orig[b][p] <= v
<1>1. AllValues \subseteq Int
  BY DEF DataOK, AllValues, ValuesOf
<1>2. ValuesOf(b) \subseteq AllValues
  BY DEF AllValues
<1>3. orig[b][p] \in ValuesOf(b)
  BY DEF ValuesOf
<1> QED
  BY <1>1, <1>2, <1>3 DEF LeastOf, LargestOf

(* The largest error of a layer, and of a block, covers each value's.      *)
LEMMA LargestError ==
  ASSUME DataOK, NEW l \in LayerIds, NEW b \in Blocks, NEW p \in Points
  PROVE  LET err == Abs(orig[b][p] - dec[l][b][p]) IN
         /\ err \in Nat
         /\ \A e \in LargestOf(UnitErrors(l)) : e \in Nat /\ err <= e
         /\ \A e \in LargestOf(BlockErrors(l, b)) : e \in Nat /\ err <= e
<1>1. \A c \in Blocks, q \in Points : Abs(orig[c][q] - dec[l][c][q]) \in Nat
  BY DEF DataOK, Abs
<1>2. BlockErrors(l, b) \subseteq UnitErrors(l) /\ UnitErrors(l) \subseteq Nat
  BY <1>1 DEF UnitErrors, BlockErrors
<1>3. Abs(orig[b][p] - dec[l][b][p]) \in BlockErrors(l, b)
  BY DEF BlockErrors
<1> QED
  BY <1>2, <1>3 DEF LargestOf

-----------------------------------------------------------------------------
(* The codes the writer stores *)

(* A stored lower offset, multiplied back, is above no value of its block  *)
(* by more than the rounding.                                              *)
LEMMA LowEncloses ==
  ASSUME DataOK, NEW b \in Blocks, NEW p \in Points,
         NEW cmin \in LeastOf(AllValues), NEW cmax \in LargestOf(AllValues),
         NEW q \in LowCodes(b, cmin, cmax), cmax # cmin
  PROVE  /\ q \in 0 .. Steps
         /\ cmin * Steps + q * (cmax - cmin) <= orig[b][p] * Steps + Rounding
<1> DEFINE S == cmax - cmin
<1>1. PICK v \in LeastOf(ValuesOf(b)) : \E c \in Floor(v - cmin, S) : q = ToU8(c)
  BY DEF LowCodes
<1>2. /\ cmin \in Int /\ cmax \in Int /\ v \in Int /\ orig[b][p] \in Int
      /\ cmin <= v /\ v <= orig[b][p] /\ cmin <= cmax
  BY Extremes DEF DataOK
<1>3. S \in Nat \ {0} /\ v - cmin \in Nat
  BY <1>2
<1>4. PICK c \in -1 .. Steps + 1, r \in Noise : q = ToU8(c) /\ c * S <= (v - cmin) * Steps + r
  BY <1>1 DEF Floor
<1>5. c \in Int /\ r \in Int /\ r <= Rounding /\ Steps \in Nat \ {0} /\ Rounding \in Nat
  BY StepsAssumption, <1>4 DEF Noise
<1>6. q \in 0 .. Steps /\ (q <= c \/ q = 0)
  BY <1>4, <1>5 DEF ToU8
<1>7. q * S <= (v - cmin) * Steps + Rounding
  <2>1. CASE q <= c
    <3>1. q * S <= c * S
      BY <2>1, <1>3, <1>5, <1>6, ProductGrows
    <3> QED
      BY <3>1, <1>2, <1>3, <1>4, <1>5, <1>6
  <2>2. CASE q = 0
    <3>1. 0 * Steps <= (v - cmin) * Steps
      BY <1>3, <1>5, ProductGrows
    <3> QED
      BY <3>1, <2>2, <1>3, <1>5
  <2> QED
    BY <1>6, <2>1, <2>2
<1>8. v * Steps <= orig[b][p] * Steps
  BY <1>2, <1>5, ProductGrows
<1> QED
  BY <1>2, <1>3, <1>5, <1>6, <1>7, <1>8

(* A stored upper offset, multiplied back, is below no value of its block  *)
(* by more than the rounding.                                              *)
LEMMA HighEncloses ==
  ASSUME DataOK, NEW b \in Blocks, NEW p \in Points,
         NEW cmin \in LeastOf(AllValues), NEW cmax \in LargestOf(AllValues),
         NEW q \in HighCodes(b, cmin, cmax), cmax # cmin
  PROVE  /\ q \in 0 .. Steps
         /\ orig[b][p] * Steps <= cmin * Steps + q * (cmax - cmin) + Rounding
<1> DEFINE S == cmax - cmin
<1>1. PICK v \in LargestOf(ValuesOf(b)) : \E c \in Ceil(v - cmin, S) : q = ToU8(c)
  BY DEF HighCodes
<1>2. /\ cmin \in Int /\ cmax \in Int /\ v \in Int /\ orig[b][p] \in Int
      /\ v <= cmax /\ orig[b][p] <= v /\ cmin <= cmax
  BY Extremes DEF DataOK
<1>3. S \in Nat \ {0} /\ v - cmin \in Int /\ v - cmin <= S
  BY <1>2
<1>4. PICK c \in -1 .. Steps + 1, r \in Noise : q = ToU8(c) /\ (v - cmin) * Steps + r <= c * S
  BY <1>1 DEF Ceil
<1>5. c \in Int /\ r \in Int /\ -r <= Rounding /\ Steps \in Nat \ {0} /\ Rounding \in Nat
  BY StepsAssumption, <1>4 DEF Noise
<1>6. q \in 0 .. Steps /\ (c <= q \/ q = Steps)
  BY <1>4, <1>5 DEF ToU8
<1>7. (v - cmin) * Steps <= q * S + Rounding
  <2>1. CASE c <= q
    <3>1. c * S <= q * S
      BY <2>1, <1>3, <1>5, <1>6, ProductGrows
    <3> QED
      BY <3>1, <1>2, <1>3, <1>4, <1>5, <1>6
  <2>2. CASE q = Steps
    <3>1. (v - cmin) * Steps <= S * Steps
      BY <1>3, <1>5, ProductGrows
    <3> QED
      BY <3>1, <2>2, <1>3, <1>5
  <2> QED
    BY <1>6, <2>1, <2>2
<1>8. orig[b][p] * Steps <= v * Steps
  BY <1>2, <1>5, ProductGrows
<1> QED
  BY <1>2, <1>3, <1>5, <1>6, <1>7, <1>8

(* A unit's rounded error and a block's code cover each value's error.     *)
LEMMA CodesCover ==
  ASSUME DataOK, NEW l \in LayerIds, NEW b \in Blocks, NEW p \in Points,
         NEW e \in Eps(l), NEW eps \in Nat, NEW q \in ErrorCodes(b, eps), codec.codes => e = eps
  PROVE  /\ e \in Nat /\ q \in 0 .. CodeSteps
         /\ Abs(orig[b][p] - dec[l][b][p]) * CodeSteps <= e * q
<1> DEFINE err == Abs(orig[b][p] - dec[l][b][p])
<1>1. CodeSteps \in Nat \ {0} /\ EpsRounding \in Nat
  BY StepsAssumption
<1>2. err \in Nat /\ e \in Nat /\ err <= e
  BY LargestError, <1>1 DEF Eps
<1>3. CASE ~codec.codes
  <2>1. q = CodeSteps
    BY <1>3 DEF ErrorCodes
  <2>2. err * CodeSteps <= e * CodeSteps
    BY <1>1, <1>2, ProductGrows
  <2> QED
    BY <1>1, <1>2, <2>1, <2>2
<1>4. CASE codec.codes
  <2>1. l = Last /\ e = eps
    BY <1>4, CodecAssumption DEF LayerIds, Last, DataOK
  <2>2. q \in 0 .. CodeSteps /\ \E w \in LargestOf(BlockErrors(l, b)) : eps * q >= CodeSteps * w
    BY <1>4, <2>1 DEF ErrorCodes
  <2>3. PICK w \in LargestOf(BlockErrors(l, b)) : eps * q >= CodeSteps * w
    BY <2>2
  <2>4. w \in Nat /\ err <= w
    BY LargestError
  <2>5. err * CodeSteps <= w * CodeSteps
    BY <1>1, <1>2, <2>4, ProductGrows
  <2> QED
    BY <1>1, <1>2, <2>1, <2>2, <2>3, <2>4, <2>5
<1> QED
  BY <1>3, <1>4

-----------------------------------------------------------------------------
(* Initially *)

LEMMA InitTyped == Init => TypeOK
<1> SUFFICES ASSUME Init PROVE TypeOK
  OBVIOUS
<1>1. orig \in [Blocks -> [Points -> Int]] /\ codec \in Codecs
  BY UnitAssumption DEF Init
<1>2. PICK err \in [LayerIds -> [Blocks -> [Points -> UNION {Errors[codec][l] : l \in LayerIds}]]] :
        dec = [l \in LayerIds |-> [b \in Blocks |-> [p \in Points |-> orig[b][p] + err[l][b][p]]]]
  BY DEF Init
<1>3. \A l \in LayerIds, b \in Blocks, p \in Points : err[l][b][p] \in Int
  <2> SUFFICES ASSUME NEW l \in LayerIds, NEW b \in Blocks, NEW p \in Points
               PROVE  err[l][b][p] \in Int
    OBVIOUS
  <2>1. err[l][b][p] \in UNION {Errors[codec][k] : k \in LayerIds}
    <3> DEFINE Any == UNION {Errors[codec][k] : k \in LayerIds}
    <3>1. err \in [LayerIds -> [Blocks -> [Points -> Any]]]
      BY <1>2
    <3> HIDE DEF Any
    <3>2. err[l] \in [Blocks -> [Points -> Any]]
      BY <3>1
    <3>3. err[l][b] \in [Points -> Any]
      BY <3>2
    <3>4. err[l][b][p] \in Any
      BY <3>3
    <3> QED
      BY <3>4 DEF Any
  <2>2. PICK k \in LayerIds : err[l][b][p] \in Errors[codec][k]
    BY <2>1
  <2>3. Errors[codec] \in [0 .. codec.layers - 1 -> SUBSET Int]
    BY <1>1, CodecAssumption
  <2>4. Errors[codec][k] \subseteq Int
    BY <2>3 DEF LayerIds
  <2> QED
    BY <2>2, <2>4
<1>4. dec \in [LayerIds -> [Blocks -> [Points -> Int]]]
  BY <1>1, <1>2, <1>3
<1> QED
  BY <1>1, <1>4 DEF Init, TypeOK

LEMMA InitIInv == Init => IInv
  BY InitTyped DEF Init, IInv, RecordEncloses, Recorded, InIsSound, OutIsSound

-----------------------------------------------------------------------------
(* Building the record *)

(* What the record encloses, in terms of a record. *)
Encloses(r) ==
  \A b \in Blocks, p \in Points :
    /\ r.cmax = r.cmin => orig[b][p] = r.cmin
    /\ r.cmax # r.cmin =>
         /\ r.cmin * Steps + r.lows[b] * (r.cmax - r.cmin) <= orig[b][p] * Steps + Rounding
         /\ orig[b][p] * Steps <= r.cmin * Steps + r.highs[b] * (r.cmax - r.cmin) + Rounding
    /\ \A l \in LayerIds : Abs(orig[b][p] - dec[l][b][p]) * CodeSteps <= r.eps[l] * r.codes[b]

LEMMA BuildEncloses ==
  ASSUME TypeOK, Build
  PROVE  rec' \in Record /\ Encloses(rec')
<1>1. DataOK
  BY DEF TypeOK, DataOK
<1>2. PICK cmin \in LeastOf(AllValues), cmax \in LargestOf(AllValues), eps \in [LayerIds -> AllEps] :
        /\ \A l \in LayerIds : eps[l] \in Eps(l)
        /\ \E lows \in Choices([b \in Blocks |-> LowCodes(b, cmin, cmax)]),
              highs \in Choices([b \in Blocks |-> HighCodes(b, cmin, cmax)]),
              codes \in Choices([b \in Blocks |-> ErrorCodes(b, eps[Last])]) :
             rec' = [cmin |-> cmin, cmax |-> cmax, eps |-> eps,
                     lows |-> lows, highs |-> highs, codes |-> codes]
  BY DEF Build
<1>3. PICK lows \in Choices([b \in Blocks |-> LowCodes(b, cmin, cmax)]),
           highs \in Choices([b \in Blocks |-> HighCodes(b, cmin, cmax)]),
           codes \in Choices([b \in Blocks |-> ErrorCodes(b, eps[Last])]) :
        rec' = [cmin |-> cmin, cmax |-> cmax, eps |-> eps,
                lows |-> lows, highs |-> highs, codes |-> codes]
  BY <1>2
<1>4. /\ lows = [b \in Blocks |-> lows[b]] /\ \A b \in Blocks : lows[b] \in LowCodes(b, cmin, cmax)
      /\ highs = [b \in Blocks |-> highs[b]] /\ \A b \in Blocks : highs[b] \in HighCodes(b, cmin, cmax)
      /\ codes = [b \in Blocks |-> codes[b]] /\ \A b \in Blocks : codes[b] \in ErrorCodes(b, eps[Last])
  BY DEF Choices
<1>5. PICK b0 \in Blocks, p0 \in Points : TRUE
  BY UnitAssumption
<1>6. cmin \in Int /\ cmax \in Int /\ Last \in LayerIds
  BY <1>1, <1>5, Extremes, CodecAssumption DEF LayerIds, Last, DataOK
<1>7. \A l \in LayerIds : eps[l] \in Nat
  BY <1>1, <1>2, <1>5, LargestError, StepsAssumption DEF Eps
<1>8. ASSUME NEW b \in Blocks, NEW p \in Points, cmax # cmin
      PROVE  /\ lows[b] \in 0 .. Steps /\ highs[b] \in 0 .. Steps
             /\ cmin * Steps + lows[b] * (cmax - cmin) <= orig[b][p] * Steps + Rounding
             /\ orig[b][p] * Steps <= cmin * Steps + highs[b] * (cmax - cmin) + Rounding
  BY <1>1, <1>4, <1>8, LowEncloses, HighEncloses
<1>9. ASSUME NEW b \in Blocks, NEW p \in Points, cmax = cmin
      PROVE  lows[b] \in 0 .. Steps /\ highs[b] \in 0 .. Steps /\ orig[b][p] = cmin
  <2>1. lows[b] = 0 /\ highs[b] = 0
    BY <1>4, <1>9 DEF LowCodes, HighCodes
  <2>2. cmin <= orig[b][p] /\ orig[b][p] <= cmax /\ orig[b][p] \in Int
    BY <1>1, Extremes DEF DataOK
  <2> QED
    BY <1>6, <1>9, <2>1, <2>2, StepsAssumption
<1>10. ASSUME NEW b \in Blocks, NEW p \in Points, NEW l \in LayerIds
       PROVE  /\ codes[b] \in 0 .. CodeSteps
              /\ Abs(orig[b][p] - dec[l][b][p]) * CodeSteps <= eps[l] * codes[b]
  <2>1. codec.codes => l = Last
    BY <1>1, CodecAssumption DEF LayerIds, Last, DataOK
  <2>2. eps[l] \in Eps(l) /\ eps[Last] \in Nat /\ codes[b] \in ErrorCodes(b, eps[Last])
    BY <1>2, <1>4, <1>6, <1>7
  <2>3. codec.codes => eps[l] = eps[Last]
    BY <2>1
  <2> QED
    BY <1>1, <2>2, <2>3, CodesCover
<1>11. rec' \in Record
  <2>1. lows \in [Blocks -> 0 .. Steps] /\ highs \in [Blocks -> 0 .. Steps]
    BY <1>4, <1>5, <1>8, <1>9
  <2>2. codes \in [Blocks -> 0 .. CodeSteps]
    BY <1>4, <1>5, <1>6, <1>10
  <2>3. eps \in [LayerIds -> Nat]
    BY <1>7
  <2> QED
    BY <1>3, <1>6, <2>1, <2>2, <2>3 DEF Record
<1>12. Encloses(rec')
  BY <1>3, <1>8, <1>9, <1>10 DEF Encloses
<1> QED
  BY <1>11, <1>12

(* The slack covers the rounding of both sides. *)
LEMMA EnclosesBounds ==
  ASSUME DataOK, rec \in Record, Encloses(rec)
  PROVE  RecordEncloses
<1> SUFFICES ASSUME NEW b \in Blocks, NEW p \in Points
             PROVE  /\ \A bmin \in LowerBounds(b) : bmin <= orig[b][p] * Steps
                    /\ \A bmax \in UpperBounds(b) : orig[b][p] * Steps <= bmax
                    /\ \A l \in LayerIds :
                         Abs(orig[b][p] - dec[l][b][p]) * CodeSteps <= BlockError(l, b)
  BY DEF RecordEncloses
<1>1. /\ rec.cmin \in Int /\ rec.cmax \in Int /\ rec.lows[b] \in Nat /\ rec.highs[b] \in Nat
      /\ orig[b][p] \in Int
  BY StepsAssumption DEF Record, DataOK
<1>2. /\ Rounding \in Nat /\ Slack \in Nat /\ 2 * Rounding <= Slack /\ Steps \in Nat
  BY StepsAssumption, SlackAssumption
<1>3. /\ Span = 0 <=> rec.cmax = rec.cmin
      /\ Span = rec.cmax - rec.cmin /\ Span \in Int
  BY <1>1 DEF Span
<1>4. \A l \in LayerIds : Abs(orig[b][p] - dec[l][b][p]) * CodeSteps <= BlockError(l, b)
  BY DEF Encloses, BlockError
<1>5. CASE Span = 0
  BY <1>1, <1>2, <1>3, <1>4, <1>5 DEF Encloses, LowerBounds, UpperBounds
<1>6. CASE Span # 0
  <2> DEFINE low == rec.lows[b] * Span
             high == rec.highs[b] * Span
             base == rec.cmin * Steps
             value == orig[b][p] * Steps
  <2>1. low \in Int /\ high \in Int /\ base \in Int /\ value \in Int
    BY <1>1, <1>2, <1>3
  <2>2. base + low <= value + Rounding /\ value <= base + high + Rounding
    BY <1>3, <1>6 DEF Encloses
  <2>3. ASSUME NEW r \in Noise
        PROVE  base + low + r - Slack <= value /\ value <= base + high + r + Slack
    <3>1. r \in Int /\ r <= Rounding /\ -r <= Rounding
      BY <1>2 DEF Noise
    <3> HIDE DEF low, high, base, value
    <3> QED
      BY <1>2, <2>1, <2>2, <3>1
  <2> QED
    BY <1>4, <1>6, <2>3 DEF LowerBounds, UpperBounds
<1> QED
  BY <1>5, <1>6

LEMMA BuildStep ==
  ASSUME IInv, Build
  PROVE  IInv'
<1>1. rec' \in Record /\ Encloses(rec')
  BY BuildEncloses DEF IInv
<1>2. phase' = "query" /\ UNCHANGED <<codec, orig, dec, query, class>>
  BY DEF Build
<1>3. TypeOK' /\ DataOK'
  BY <1>1, <1>2 DEF IInv, TypeOK, DataOK, Record, LayerIds
<1>4. (rec \in Record)' /\ Encloses(rec)'
  BY <1>1, <1>2 DEF Record, Encloses, LayerIds
<1>5. RecordEncloses'
  BY <1>3, <1>4, EnclosesBounds, PTL
<1> QED
  BY <1>2, <1>3, <1>5 DEF IInv, InIsSound, OutIsSound

-----------------------------------------------------------------------------
(* Classifying a block *)

(* A decoded value lies within the block's widened bounds. *)
LEMMA WithinBounds ==
  ASSUME TypeOK, RecordEncloses, phase = "query",
         NEW l \in LayerIds, NEW b \in Blocks, NEW p \in Points,
         NEW bmin \in LowerBounds(b), NEW bmax \in UpperBounds(b)
  PROVE  /\ Widened(bmin, -BlockError(l, b)) \in Int /\ Widened(bmax, BlockError(l, b)) \in Int
         /\ Widened(bmin, -BlockError(l, b)) <= Scaled(dec[l][b][p])
         /\ Scaled(dec[l][b][p]) <= Widened(bmax, BlockError(l, b))
<1> DEFINE x == orig[b][p]
           y == dec[l][b][p]
           e == BlockError(l, b)
<1>1. x \in Int /\ y \in Int
  BY DEF TypeOK
<1>2. rec \in Record
  BY DEF TypeOK, Record
<1>3. e \in Int
  BY <1>2, StepsAssumption DEF Record, BlockError
<1>4. Steps \in Nat /\ CodeSteps \in Nat /\ Slack \in Nat /\ Rounding \in Nat
  BY StepsAssumption
<1>5. bmin \in Int /\ bmax \in Int
  <2>1. /\ rec.cmin \in Int /\ rec.cmax \in Int /\ rec.lows[b] \in Int /\ rec.highs[b] \in Int
    BY <1>2, <1>4 DEF Record
  <2>2. Span \in Int
    BY <2>1 DEF Span
  <2>3. rec.cmin * Steps \in Int /\ rec.cmax * Steps \in Int /\ rec.lows[b] * Span \in Int /\ rec.highs[b] * Span \in Int
    BY <1>4, <2>1, <2>2
  <2>4. Noise \subseteq Int
    BY <1>4 DEF Noise
  <2> QED
    BY <1>4, <2>3, <2>4 DEF LowerBounds, UpperBounds
<1>6. bmin <= x * Steps /\ x * Steps <= bmax /\ Abs(x - y) * CodeSteps <= e
  BY DEF RecordEncloses, Recorded
<1>7. (x - y) * CodeSteps <= e /\ (y - x) * CodeSteps <= e
  <2>1. Abs(x - y) \in Int /\ x - y <= Abs(x - y) /\ y - x <= Abs(x - y)
    BY <1>1 DEF Abs
  <2>2. (x - y) * CodeSteps <= Abs(x - y) * CodeSteps /\ (y - x) * CodeSteps <= Abs(x - y) * CodeSteps
    BY <1>1, <1>4, <2>1, ProductGrows
  <2> QED
    BY <1>1, <1>3, <1>4, <1>6, <2>1, <2>2
<1> HIDE DEF x, y, e
<1>8. bmin * CodeSteps <= (x * Steps) * CodeSteps /\ (x * Steps) * CodeSteps <= bmax * CodeSteps
  BY <1>1, <1>4, <1>5, <1>6, ProductGrows
<1>9. ((x - y) * CodeSteps) * Steps <= e * Steps /\ ((y - x) * CodeSteps) * Steps <= e * Steps
  BY <1>1, <1>3, <1>4, <1>7, ProductGrows
<1>10. /\ ((x - y) * CodeSteps) * Steps = (x * Steps) * CodeSteps - (y * Steps) * CodeSteps
       /\ ((y - x) * CodeSteps) * Steps = (y * Steps) * CodeSteps - (x * Steps) * CodeSteps
  BY <1>1, <1>4
<1>11. /\ bmin * CodeSteps + (-e) * Steps <= (y * Steps) * CodeSteps
       /\ (y * Steps) * CodeSteps <= bmax * CodeSteps + e * Steps
  BY <1>1, <1>3, <1>4, <1>5, <1>8, <1>9, <1>10
<1>12. bmin * CodeSteps + (-e) * Steps \in Int /\ bmax * CodeSteps + e * Steps \in Int
  BY <1>3, <1>4, <1>5
<1> QED
  BY <1>11, <1>12 DEF Widened, Scaled, x, y, e

(* Scaling keeps the order. *)
LEMMA ScaledOrder ==
  ASSUME NEW a \in Int, NEW b \in Int
  PROVE  /\ Scaled(a) \in Int
         /\ Scaled(a) < Scaled(b) => a < b
         /\ Scaled(a) <= Scaled(b) => a <= b
<1>1. Steps \in Nat \ {0} /\ CodeSteps \in Nat \ {0}
  BY StepsAssumption
<1>2. ASSUME b < a PROVE Scaled(b) < Scaled(a)
  <2>1. b * Steps < a * Steps
    BY <1>1, <1>2
  <2>2. (b * Steps) * CodeSteps < (a * Steps) * CodeSteps
    BY <1>1, <2>1
  <2> QED
    BY <2>2 DEF Scaled
<1>3. ASSUME b <= a PROVE Scaled(b) <= Scaled(a)
  BY <1>1, <1>2, <1>3 DEF Scaled
<1>4. Scaled(a) \in Int /\ Scaled(b) \in Int
  BY <1>1 DEF Scaled
<1> QED
  BY <1>2, <1>3, <1>4

LEMMA ClassifyStep ==
  ASSUME IInv, NEW l \in LayerIds, NEW b \in Blocks, NEW lo \in Bounds, NEW hi \in Bounds,
         Classify(l, b, lo, hi)
  PROVE  IInv'
<1>1. /\ phase = "query" /\ phase' = "classified"
      /\ query' = [layer |-> l, block |-> b, lo |-> lo, hi |-> hi]
      /\ UNCHANGED <<codec, orig, dec, rec>>
  BY DEF Classify
<1>2. PICK bmin \in LowerBounds(b), bmax \in UpperBounds(b) :
        class' = Classified(bmin, bmax, BlockError(l, b), lo, hi)
  BY DEF Classify
<1>3. lo \in Int /\ hi \in Int
  BY UnitAssumption
<1>4. TypeOK'
  <2>1. class' \in {"IN", "OUT", "MAYBE"}
    BY <1>2 DEF Classified
  <2> QED
    BY <1>1, <1>3, <2>1 DEF IInv, TypeOK, LayerIds
<1>5. RecordEncloses'
  BY <1>1 DEF IInv, RecordEncloses, Recorded, LowerBounds, UpperBounds, Span, BlockError, LayerIds
<1>6. ASSUME NEW p \in Points
      PROVE  /\ class' = "IN" => lo < dec[l][b][p] /\ dec[l][b][p] <= hi
             /\ class' = "OUT" => ~(lo < dec[l][b][p] /\ dec[l][b][p] <= hi)
  <2> DEFINE y == dec[l][b][p]
             low == Widened(bmin, -BlockError(l, b))
             high == Widened(bmax, BlockError(l, b))
  <2>1. low \in Int /\ high \in Int /\ low <= Scaled(y) /\ Scaled(y) <= high
    BY <1>1, WithinBounds DEF IInv
  <2>2. y \in Int
    BY DEF IInv, TypeOK
  <2>3. /\ Scaled(lo) \in Int /\ Scaled(hi) \in Int /\ Scaled(y) \in Int
        /\ Scaled(lo) < Scaled(y) => lo < y
        /\ Scaled(y) <= Scaled(hi) => y <= hi
        /\ Scaled(y) <= Scaled(lo) => y <= lo
        /\ Scaled(hi) < Scaled(y) => hi < y
    BY <1>3, <2>2, ScaledOrder
  <2>4. /\ class' = "IN" => low > Scaled(lo) /\ high <= Scaled(hi)
        /\ class' = "OUT" => high <= Scaled(lo) \/ low > Scaled(hi)
    BY <1>2 DEF Classified
  <2> HIDE DEF y, low, high
  <2>5. /\ class' = "IN" => lo < y /\ y <= hi
        /\ class' = "OUT" => ~(lo < y /\ y <= hi)
    BY <1>3, <2>1, <2>2, <2>3, <2>4
  <2> QED
    BY <2>5 DEF y
<1>7. InIsSound' /\ OutIsSound'
  BY <1>1, <1>6 DEF InIsSound, OutIsSound
<1> QED
  BY <1>4, <1>5, <1>7 DEF IInv

-----------------------------------------------------------------------------
(* The theorems *)

THEOREM Invariance == Spec => []IInv
<1>1. IInv /\ [Next]_vars => IInv'
  <2> SUFFICES ASSUME IInv, [Next]_vars PROVE IInv'
    OBVIOUS
  <2>1. CASE Build
    BY <2>1, BuildStep
  <2>2. CASE \E l \in LayerIds, b \in Blocks, lo, hi \in Bounds : Classify(l, b, lo, hi)
    BY <2>2, ClassifyStep
  <2>3. CASE UNCHANGED vars
    <3>1. UNCHANGED <<codec, phase, orig, dec, rec, query, class>>
      BY <2>3 DEF vars
    <3>2. TypeOK'
      BY <3>1 DEF IInv, TypeOK, LayerIds
    <3>3. RecordEncloses'
      BY <3>1 DEF IInv, RecordEncloses, Recorded, LowerBounds, UpperBounds, Span,
                  BlockError, LayerIds
    <3>4. InIsSound' /\ OutIsSound'
      BY <3>1 DEF IInv, InIsSound, OutIsSound
    <3> QED
      BY <3>2, <3>3, <3>4 DEF IInv
  <2> QED
    BY <2>1, <2>2, <2>3 DEF Next
<1> QED
  BY InitIInv, <1>1, PTL DEF Spec

(* The record always has its type: offsets fit 0 .. Steps and error codes  *)
(* 0 .. CodeSteps, as the bytes and nibbles they are stored in.            *)
THEOREM TypeCorrect == Spec => []TypeOK
  BY Invariance, PTL DEF IInv

(* Whatever the data, the codec and the rounding that the slack covers,    *)
(* the bounds a query rebuilds enclose every value of the block.           *)
THEOREM RecordAlwaysEncloses == Spec => []RecordEncloses
  BY Invariance, PTL DEF IInv

(* A block counted without being read holds only matching values.          *)
THEOREM InIsAlwaysSound == Spec => []InIsSound
  BY Invariance, PTL DEF IInv

(* A block skipped without being read holds no matching value.             *)
THEOREM OutIsAlwaysSound == Spec => []OutIsSound
  BY Invariance, PTL DEF IInv

(* A block that is not read is counted exactly, whatever its class.        *)
THEOREM ClassIsAlwaysSound == Spec => []ClassIsSound
  BY InIsAlwaysSound, OutIsAlwaysSound, PTL DEF ClassIsSound

-----------------------------------------------------------------------------
(* Every block has a code *)

(* A set of natural numbers has a least element. *)
LEMMA LeastExists ==
  ASSUME NEW T, T \subseteq Nat, T # {}
  PROVE  \E x \in T : \A y \in T : x <= y
<1>1. PICK x \in T : \A y \in T : ~(<<y, x>> \in OpToRel(<, Nat))
  BY WFMin, NatLessThanWellFounded, Zenon
<1>2. \A y \in T : ~(y < x)
  <2> SUFFICES ASSUME NEW y \in T, y < x PROVE FALSE
    OBVIOUS
  <2>1. <<y, x>> \in OpToRel(<, Nat)
    BY DEF OpToRel
  <2> QED
    BY <1>1, <2>1
<1> QED
  BY <1>2

(* A set of natural numbers with an upper bound has a largest element. *)
LEMMA LargestExists ==
  ASSUME NEW T, T \subseteq Nat, T # {}, NEW e \in Nat, \A x \in T : x <= e
  PROVE  \E x \in T : x \in LargestOf(T)
<1> DEFINE Distances == {e - x : x \in T}
<1>1. Distances \subseteq Nat /\ Distances # {}
  OBVIOUS
<1>2. PICK d \in Distances : \A y \in Distances : d <= y
  BY <1>1, LeastExists
<1>3. PICK x \in T : d = e - x
  BY <1>2
<1>4. ASSUME NEW y \in T
      PROVE  x >= y
  <2>1. e - y \in Distances
    BY <1>4
  <2>2. e - x <= e - y
    BY <1>2, <1>3, <2>1
  <2> QED
    BY <1>3, <1>4, <2>2
<1> QED
  BY <1>4 DEF LargestOf

(* CodeSteps covers every error that eps covers, so some code is the first *)
(* that does.                                                              *)
LEMMA FirstCode ==
  ASSUME NEW err \in Nat, NEW eps \in Nat, err <= eps
  PROVE  \E q \in 0 .. CodeSteps :
           /\ eps * q >= CodeSteps * err
           /\ eps * (q - 2) < CodeSteps * err \/ q = 0
<1>1. CodeSteps \in Nat \ {0}
  BY StepsAssumption
<1> DEFINE Covering == {q \in Nat : eps * q >= CodeSteps * err}
<1>2. CodeSteps \in Covering
  <2>1. err * CodeSteps <= eps * CodeSteps
    BY <1>1, ProductGrows
  <2> QED
    BY <1>1, <2>1
<1>3. PICK q \in Covering : \A p \in Covering : q <= p
  BY <1>2, LeastExists
<1>4. q \in 0 .. CodeSteps /\ eps * q >= CodeSteps * err
  BY <1>1, <1>2, <1>3
<1>5. ASSUME q # 0
      PROVE  eps * (q - 2) < CodeSteps * err
  <2>1. q - 1 \in Nat /\ q - 1 \notin Covering
    BY <1>3, <1>4, <1>5
  <2>2. eps * (q - 1) < CodeSteps * err
    BY <1>1, <2>1
  <2>3. (q - 2) * eps <= (q - 1) * eps
    BY <1>4, ProductGrows
  <2> QED
    BY <1>1, <1>4, <2>2, <2>3
<1> QED
  BY <1>4, <1>5

LEMMA CodesFromType == TypeOK => CodesExist
<1> SUFFICES ASSUME TypeOK, NEW b \in Blocks, NEW eps \in Eps(Last)
             PROVE  ErrorCodes(b, eps) # {}
  BY DEF CodesExist
<1>1. CASE ~codec.codes
  BY <1>1 DEF ErrorCodes
<1>2. CASE codec.codes
  <2>1. DataOK /\ Last \in LayerIds
    BY <1>2, CodecAssumption DEF TypeOK, DataOK, Last, LayerIds
  <2>2. PICK e \in LargestOf(UnitErrors(Last)), d \in 0 .. EpsRounding : eps = e + d
    BY DEF Eps
  <2>3. PICK p \in Points : TRUE
    BY UnitAssumption
  <2>4. e \in Nat /\ eps \in Nat /\ e <= eps
    BY <2>1, <2>2, <2>3, LargestError, StepsAssumption
  <2>5. /\ BlockErrors(Last, b) \subseteq Nat /\ BlockErrors(Last, b) # {}
        /\ \A x \in BlockErrors(Last, b) : x <= e
    <3>1. \A r \in Points : /\ Abs(orig[b][r] - dec[Last][b][r]) \in Nat
                            /\ Abs(orig[b][r] - dec[Last][b][r]) <= e
      BY <2>1, <2>2, LargestError
    <3> QED
      BY <2>3, <3>1 DEF BlockErrors
  <2>6. PICK err \in BlockErrors(Last, b) : err \in LargestOf(BlockErrors(Last, b))
    BY <2>4, <2>5, LargestExists
  <2>7. PICK q \in 0 .. CodeSteps :
          /\ eps * q >= CodeSteps * err
          /\ eps * (q - 2) < CodeSteps * err \/ q = 0
    BY <2>4, <2>5, <2>6, FirstCode
  <2>8. q \in ErrorCodes(b, eps)
    BY <1>2, <2>6, <2>7 DEF ErrorCodes
  <2> QED
    BY <2>8
<1> QED
  BY <1>1, <1>2

(* A record fits its bytes and nibbles, and no block's error is beyond the *)
(* codes: block_error_codes never raises.                                  *)
THEOREM CodesAlwaysFit == Spec => []CodesFit
<1>1. TypeOK => CodesFit
  BY CodesFromType DEF CodesFit
<1> QED
  BY <1>1, TypeCorrect, PTL

-----------------------------------------------------------------------------
(* Nothing is read needlessly *)

(* A stored lower offset is less than a step, and the rounding, too low. *)
LEMMA LowIsTight ==
  ASSUME DataOK, NEW b \in Blocks, NEW p \in Points,
         NEW cmin \in LeastOf(AllValues), NEW cmax \in LargestOf(AllValues),
         NEW q \in LowCodes(b, cmin, cmax), cmax # cmin, q \in 0 .. Steps
  PROVE  \E v \in ValuesOf(b) :
           v * Steps - (cmax - cmin) - Rounding <= cmin * Steps + q * (cmax - cmin)
<1> DEFINE S == cmax - cmin
<1>1. PICK v \in LeastOf(ValuesOf(b)) : \E c \in Floor(v - cmin, S) : q = ToU8(c)
  BY DEF LowCodes
<1>2. /\ cmin \in Int /\ cmax \in Int /\ v \in Int /\ v \in ValuesOf(b)
      /\ cmin <= v /\ v <= cmax /\ cmin <= cmax
  <2>1. orig[b][p] \in Int /\ cmin <= orig[b][p] /\ orig[b][p] <= cmax /\ cmin \in Int /\ cmax \in Int
    BY Extremes DEF DataOK
  <2>2. v \in Int /\ cmin <= v /\ v <= cmax
    BY Extremes
  <2> QED
    BY <2>1, <2>2 DEF LeastOf
<1>3. S \in Nat \ {0} /\ v - cmin \in Nat /\ v - cmin <= S
  BY <1>2
<1>4. PICK c \in -1 .. Steps + 1, r \in Noise : q = ToU8(c) /\ (v - cmin) * Steps + r < (c + 1) * S
  BY <1>1 DEF Floor
<1>5. c \in Int /\ r \in Int /\ -r <= Rounding /\ Steps \in Nat \ {0} /\ Rounding \in Nat
  BY StepsAssumption, <1>4 DEF Noise
<1>6. q \in Nat /\ (c <= q \/ q = Steps)
  BY <1>4, <1>5 DEF ToU8
<1>7. (v - cmin) * Steps <= q * S + S + Rounding
  <2>1. CASE c <= q
    <3>1. c * S <= q * S
      BY <2>1, <1>3, <1>5, <1>6, ProductGrows
    <3>2. (c + 1) * S = c * S + S
      BY <1>3, <1>5
    <3> QED
      BY <3>1, <3>2, <1>2, <1>3, <1>4, <1>5, <1>6
  <2>2. CASE q = Steps
    <3>1. (v - cmin) * Steps <= S * Steps
      BY <1>3, <1>5, ProductGrows
    <3>2. S * Steps = q * S
      BY <2>2, <1>3, <1>5
    <3> QED
      BY <3>1, <3>2, <1>3, <1>5, <1>6
  <2> QED
    BY <1>6, <2>1, <2>2
<1>8. (v - cmin) * Steps = v * Steps - cmin * Steps
  BY <1>2, <1>5
<1>9. v * Steps \in Int /\ cmin * Steps \in Int /\ q * S \in Int
  BY <1>2, <1>3, <1>5, <1>6
<1>10. v * Steps - S - Rounding <= cmin * Steps + q * S
  BY <1>3, <1>5, <1>7, <1>8, <1>9
<1> QED
  BY <1>2, <1>10

(* A stored upper offset is less than a step, and the rounding, too high. *)
LEMMA HighIsTight ==
  ASSUME DataOK, NEW b \in Blocks, NEW p \in Points,
         NEW cmin \in LeastOf(AllValues), NEW cmax \in LargestOf(AllValues),
         NEW q \in HighCodes(b, cmin, cmax), cmax # cmin, q \in 0 .. Steps
  PROVE  \E w \in ValuesOf(b) :
           cmin * Steps + q * (cmax - cmin) <= w * Steps + (cmax - cmin) + Rounding
<1> DEFINE S == cmax - cmin
<1>1. PICK w \in LargestOf(ValuesOf(b)) : \E c \in Ceil(w - cmin, S) : q = ToU8(c)
  BY DEF HighCodes
<1>2. /\ cmin \in Int /\ cmax \in Int /\ w \in Int /\ w \in ValuesOf(b)
      /\ cmin <= w /\ w <= cmax /\ cmin <= cmax
  <2>1. orig[b][p] \in Int /\ cmin <= orig[b][p] /\ orig[b][p] <= cmax /\ cmin \in Int /\ cmax \in Int
    BY Extremes DEF DataOK
  <2>2. w \in Int /\ cmin <= w /\ w <= cmax
    BY Extremes
  <2> QED
    BY <2>1, <2>2 DEF LargestOf
<1>3. S \in Nat \ {0} /\ w - cmin \in Nat
  BY <1>2
<1>4. PICK c \in -1 .. Steps + 1, r \in Noise : q = ToU8(c) /\ (c - 1) * S < (w - cmin) * Steps + r
  BY <1>1 DEF Ceil
<1>5. c \in Int /\ r \in Int /\ r <= Rounding /\ Steps \in Nat \ {0} /\ Rounding \in Nat
  BY StepsAssumption, <1>4 DEF Noise
<1>6. q \in Nat /\ (q <= c \/ q = 0)
  BY <1>4, <1>5 DEF ToU8
<1>7. q * S <= (w - cmin) * Steps + S + Rounding
  <2>1. CASE q <= c
    <3>1. q * S <= c * S
      BY <2>1, <1>3, <1>5, <1>6, ProductGrows
    <3>2. (c - 1) * S = c * S - S
      BY <1>3, <1>5
    <3> QED
      BY <3>1, <3>2, <1>2, <1>3, <1>4, <1>5, <1>6
  <2>2. CASE q = 0
    <3>1. 0 * Steps <= (w - cmin) * Steps
      BY <1>3, <1>5, ProductGrows
    <3> QED
      BY <3>1, <2>2, <1>3, <1>5
  <2> QED
    BY <1>6, <2>1, <2>2
<1>8. (w - cmin) * Steps = w * Steps - cmin * Steps
  BY <1>2, <1>5
<1>9. w * Steps \in Int /\ cmin * Steps \in Int /\ q * S \in Int
  BY <1>2, <1>3, <1>5, <1>6
<1>10. cmin * Steps + q * S <= w * Steps + S + Rounding
  BY <1>3, <1>5, <1>7, <1>8, <1>9
<1> QED
  BY <1>2, <1>10

(* How far a query's bounds may be from the block's values. *)
Reach == IF Span = 0 THEN 0 ELSE Span + Slack + 2 * Rounding

(* The bounds of every block are near a value of it. *)
RecordTight ==
  Recorded => \A b \in Blocks :
    /\ \E v \in ValuesOf(b) : \A bmin \in LowerBounds(b) : v * Steps - Reach <= bmin
    /\ \E w \in ValuesOf(b) : \A bmax \in UpperBounds(b) : bmax <= w * Steps + Reach

(* What the record is near to, in terms of a record. *)
Tight(r) ==
  \A b \in Blocks :
    /\ r.cmax = r.cmin => \E v \in ValuesOf(b) : v = r.cmin
    /\ r.cmax # r.cmin =>
         /\ \E v \in ValuesOf(b) : v * Steps - (r.cmax - r.cmin) - Rounding
                                     <= r.cmin * Steps + r.lows[b] * (r.cmax - r.cmin)
         /\ \E w \in ValuesOf(b) : r.cmin * Steps + r.highs[b] * (r.cmax - r.cmin)
                                     <= w * Steps + (r.cmax - r.cmin) + Rounding

LEMMA BuildTight ==
  ASSUME TypeOK, Build
  PROVE  Tight(rec')
<1>1. DataOK /\ rec' \in Record /\ Encloses(rec')
  BY BuildEncloses DEF TypeOK, DataOK
<1>2. PICK cmin \in LeastOf(AllValues), cmax \in LargestOf(AllValues) :
        \E eps \in [LayerIds -> AllEps] :
          \E lows \in Choices([b \in Blocks |-> LowCodes(b, cmin, cmax)]),
             highs \in Choices([b \in Blocks |-> HighCodes(b, cmin, cmax)]),
             codes \in Choices([b \in Blocks |-> ErrorCodes(b, eps[Last])]) :
            rec' = [cmin |-> cmin, cmax |-> cmax, eps |-> eps,
                    lows |-> lows, highs |-> highs, codes |-> codes]
  BY DEF Build
<1>3. /\ rec'.cmin = cmin /\ rec'.cmax = cmax
      /\ \A b \in Blocks : rec'.lows[b] \in LowCodes(b, cmin, cmax)
      /\ \A b \in Blocks : rec'.highs[b] \in HighCodes(b, cmin, cmax)
  BY <1>2 DEF Choices
<1>4. \A b \in Blocks : rec'.lows[b] \in 0 .. Steps /\ rec'.highs[b] \in 0 .. Steps
  BY <1>1 DEF Record
<1>5. PICK p \in Points : TRUE
  BY UnitAssumption
<1> SUFFICES ASSUME NEW b \in Blocks
             PROVE
    /\ cmax = cmin => \E v \in ValuesOf(b) : v = cmin
    /\ cmax # cmin =>
         /\ \E v \in ValuesOf(b) : v * Steps - (cmax - cmin) - Rounding
                                     <= cmin * Steps + rec'.lows[b] * (cmax - cmin)
         /\ \E w \in ValuesOf(b) : cmin * Steps + rec'.highs[b] * (cmax - cmin)
                                     <= w * Steps + (cmax - cmin) + Rounding
  BY <1>3 DEF Tight
<1>6. cmax = cmin => orig[b][p] = cmin
  BY <1>1, <1>3 DEF Encloses
<1>7. orig[b][p] \in ValuesOf(b)
  BY DEF ValuesOf
<1> QED
  BY <1>1, <1>3, <1>4, <1>6, <1>7, LowIsTight, HighIsTight

LEMMA TightBounds ==
  ASSUME DataOK, rec \in Record, Tight(rec)
  PROVE  RecordTight
<1> SUFFICES ASSUME NEW b \in Blocks
             PROVE
    /\ \E v \in ValuesOf(b) : \A bmin \in LowerBounds(b) : v * Steps - Reach <= bmin
    /\ \E w \in ValuesOf(b) : \A bmax \in UpperBounds(b) : bmax <= w * Steps + Reach
  BY DEF RecordTight
<1>1. /\ rec.cmin \in Int /\ rec.cmax \in Int /\ rec.lows[b] \in Nat /\ rec.highs[b] \in Nat
      /\ ValuesOf(b) \subseteq Int
  BY StepsAssumption DEF Record, DataOK, ValuesOf
<1>2. /\ Rounding \in Nat /\ Slack \in Nat /\ Steps \in Nat
  BY StepsAssumption
<1>3. /\ Span = 0 <=> rec.cmax = rec.cmin
      /\ Span = rec.cmax - rec.cmin /\ Span \in Int
  BY <1>1 DEF Span
<1>4. CASE Span = 0
  <2>1. PICK v \in ValuesOf(b) : v = rec.cmin
    BY <1>3, <1>4 DEF Tight
  <2> QED
    BY <1>1, <1>2, <1>3, <1>4, <2>1 DEF LowerBounds, UpperBounds, Reach
<1>5. CASE Span # 0
  <2> DEFINE low == rec.lows[b] * Span
             high == rec.highs[b] * Span
             base == rec.cmin * Steps
  <2>1. low \in Int /\ high \in Int /\ base \in Int
    BY <1>1, <1>2, <1>3
  <2>2. PICK v \in ValuesOf(b) : v * Steps - Span - Rounding <= base + low
    BY <1>3, <1>5 DEF Tight
  <2>3. PICK w \in ValuesOf(b) : base + high <= w * Steps + Span + Rounding
    BY <1>3, <1>5 DEF Tight
  <2>4. v * Steps \in Int /\ w * Steps \in Int
    BY <1>1, <1>2
  <2>5. ASSUME NEW r \in Noise
        PROVE  /\ v * Steps - (Span + Slack + 2 * Rounding) <= base + low + r - Slack
               /\ base + high + r + Slack <= w * Steps + (Span + Slack + 2 * Rounding)
    <3>1. r \in Int /\ r <= Rounding /\ -r <= Rounding
      BY <1>2 DEF Noise
    <3> DEFINE vs == v * Steps
               ws == w * Steps
    <3> HIDE DEF low, high, base, vs, ws
    <3>2. vs \in Int /\ ws \in Int /\ vs - Span - Rounding <= base + low
          /\ base + high <= ws + Span + Rounding
      BY <2>2, <2>3, <2>4 DEF vs, ws
    <3>3. /\ vs - (Span + Slack + 2 * Rounding) <= base + low + r - Slack
          /\ base + high + r + Slack <= ws + (Span + Slack + 2 * Rounding)
      BY <1>2, <1>3, <2>1, <3>1, <3>2
    <3> QED
      BY <3>3 DEF vs, ws
  <2>6. \A bmin \in LowerBounds(b) : v * Steps - Reach <= bmin
    BY <1>5, <2>5 DEF LowerBounds, Reach
  <2>7. \A bmax \in UpperBounds(b) : bmax <= w * Steps + Reach
    BY <1>5, <2>5 DEF UpperBounds, Reach
  <2> QED
    BY <2>6, <2>7
<1> QED
  BY <1>4, <1>5

(* A block that is neither IN nor OUT meets a bound. *)
LEMMA MaybeStep ==
  ASSUME IInv, RecordTight,
         NEW l \in LayerIds, NEW b \in Blocks, NEW lo \in Bounds, NEW hi \in Bounds,
         Classify(l, b, lo, hi)
  PROVE  MaybeIsNear'
<1>1. /\ phase = "query" /\ phase' = "classified"
      /\ query' = [layer |-> l, block |-> b, lo |-> lo, hi |-> hi]
      /\ UNCHANGED <<codec, orig, dec, rec>>
  BY DEF Classify
<1> DEFINE e == BlockError(l, b)
<1>2. PICK bmin \in LowerBounds(b), bmax \in UpperBounds(b) :
        class' = Classified(bmin, bmax, e, lo, hi)
  BY DEF Classify
<1>3. PICK v \in ValuesOf(b) : v * Steps - Reach <= bmin
  BY <1>1, <1>2 DEF RecordTight, Recorded
<1>4. PICK w \in ValuesOf(b) : bmax <= w * Steps + Reach
  BY <1>1, <1>2 DEF RecordTight, Recorded
<1>5. PICK p \in Points : TRUE
  BY UnitAssumption
<1>6. /\ Widened(bmin, -e) \in Int /\ Widened(bmax, e) \in Int
      /\ Widened(bmin, -e) <= Widened(bmax, e)
  <2>1. /\ Widened(bmin, -e) \in Int /\ Widened(bmax, e) \in Int
        /\ Widened(bmin, -e) <= Scaled(dec[l][b][p])
        /\ Scaled(dec[l][b][p]) <= Widened(bmax, e)
    BY <1>1, WithinBounds DEF IInv
  <2>2. Scaled(dec[l][b][p]) \in Int
    BY ScaledOrder DEF IInv, TypeOK
  <2> QED
    BY <2>1, <2>2
<1>7. /\ v \in Int /\ w \in Int /\ Steps \in Nat /\ CodeSteps \in Nat /\ e \in Int
      /\ rec.cmin \in Int /\ rec.cmax \in Int /\ rec.lows[b] \in Int /\ rec.highs[b] \in Int
      /\ Slack \in Int /\ Rounding \in Nat
  BY <1>1, StepsAssumption DEF IInv, TypeOK, ValuesOf, BlockError
<1>8. bmin \in Int /\ bmax \in Int /\ Reach \in Int /\ v * Steps \in Int /\ w * Steps \in Int
  <2>1. Span \in Int
    BY <1>7 DEF Span
  <2>2. /\ rec.cmin * Steps \in Int /\ rec.cmax * Steps \in Int
        /\ rec.lows[b] * Span \in Int /\ rec.highs[b] * Span \in Int
        /\ v * Steps \in Int /\ w * Steps \in Int
    BY <1>7, <2>1
  <2>3. Noise \subseteq Int
    BY <1>7 DEF Noise
  <2> QED
    BY <1>7, <2>1, <2>2, <2>3 DEF LowerBounds, UpperBounds, Reach
<1> DEFINE reach == Reach * CodeSteps + e * Steps
<1>9. Scaled(v) - reach <= Widened(bmin, -e)
  <2>1. (v * Steps - Reach) * CodeSteps <= bmin * CodeSteps
    BY <1>3, <1>7, <1>8, ProductGrows
  <2>2. (v * Steps - Reach) * CodeSteps = (v * Steps) * CodeSteps - Reach * CodeSteps
    BY <1>7, <1>8
  <2>3. (-e) * Steps = -(e * Steps)
    BY <1>7
  <2>4. /\ (v * Steps) * CodeSteps \in Int /\ Reach * CodeSteps \in Int
        /\ bmin * CodeSteps \in Int /\ e * Steps \in Int
    BY <1>7, <1>8
  <2>5. (v * Steps) * CodeSteps - (Reach * CodeSteps + e * Steps) <= bmin * CodeSteps + (-e) * Steps
    BY <2>1, <2>2, <2>3, <2>4
  <2> QED
    BY <2>5 DEF Scaled, Widened
<1>10. Widened(bmax, e) <= Scaled(w) + reach
  <2>1. bmax * CodeSteps <= (w * Steps + Reach) * CodeSteps
    BY <1>4, <1>7, <1>8, ProductGrows
  <2>2. (w * Steps + Reach) * CodeSteps = (w * Steps) * CodeSteps + Reach * CodeSteps
    BY <1>7, <1>8
  <2>3. /\ (w * Steps) * CodeSteps \in Int /\ Reach * CodeSteps \in Int
        /\ bmax * CodeSteps \in Int /\ e * Steps \in Int
    BY <1>7, <1>8
  <2>4. bmax * CodeSteps + e * Steps <= (w * Steps) * CodeSteps + (Reach * CodeSteps + e * Steps)
    BY <2>1, <2>2, <2>3
  <2> QED
    BY <2>4 DEF Scaled, Widened
<1>11. /\ Scaled(lo) \in Int /\ Scaled(hi) \in Int /\ Scaled(v) \in Int /\ Scaled(w) \in Int
       /\ reach \in Int
  <2>1. lo \in Int /\ hi \in Int
    BY UnitAssumption
  <2>2. Reach * CodeSteps \in Int /\ e * Steps \in Int
    BY <1>7, <1>8
  <2> QED
    BY <1>7, <2>1, <2>2, ScaledOrder
<1>12. class' = "MAYBE" =>
         \E bound \in {lo, hi} : Scaled(v) - reach <= Scaled(bound) /\ Scaled(bound) <= Scaled(w) + reach
  <2> SUFFICES ASSUME class' = "MAYBE"
               PROVE  \E bound \in {lo, hi} :
                        Scaled(v) - reach <= Scaled(bound) /\ Scaled(bound) <= Scaled(w) + reach
    OBVIOUS
  <2> HIDE DEF e, reach
  <2>1. /\ ~(Widened(bmin, -e) > Scaled(lo) /\ Widened(bmax, e) <= Scaled(hi))
        /\ ~(Widened(bmax, e) <= Scaled(lo) \/ Widened(bmin, -e) > Scaled(hi))
    BY <1>2 DEF Classified
  <2>2. CASE Widened(bmin, -e) <= Scaled(lo)
    <3>1. Scaled(v) - reach <= Scaled(lo) /\ Scaled(lo) <= Scaled(w) + reach
      BY <2>1, <2>2, <1>6, <1>9, <1>10, <1>11
    <3> QED
      BY <3>1
  <2>3. CASE Widened(bmax, e) > Scaled(hi)
    <3>1. Scaled(v) - reach <= Scaled(hi) /\ Scaled(hi) <= Scaled(w) + reach
      BY <2>1, <2>3, <1>6, <1>9, <1>10, <1>11
    <3> QED
      BY <3>1
  <2> QED
    BY <2>1, <2>2, <2>3, <1>6, <1>11
<1> QED
  BY <1>1, <1>12 DEF MaybeIsNear, Reach, Span, ValuesOf, BlockError

(* A block is read only when the bounds of its values, moved apart by one  *)
(* step, the rounding and twice its error bound, meet the range.           *)
THEOREM MaybeIsAlwaysNear == Spec => []MaybeIsNear
<1>1. Init => RecordTight /\ MaybeIsNear
  BY DEF Init, RecordTight, Recorded, MaybeIsNear
<1>2. IInv /\ RecordTight /\ MaybeIsNear /\ [Next]_vars => RecordTight' /\ MaybeIsNear'
  <2> SUFFICES ASSUME IInv, RecordTight, MaybeIsNear, [Next]_vars
               PROVE  RecordTight' /\ MaybeIsNear'
    OBVIOUS
  <2>1. CASE Build
    <3>1. /\ rec' \in Record /\ Tight(rec') /\ phase' = "query"
          /\ UNCHANGED <<codec, orig, dec, query, class>>
      BY <2>1, BuildEncloses, BuildTight DEF IInv, Build
    <3>2. DataOK' /\ (rec \in Record)' /\ Tight(rec)'
      BY <3>1 DEF IInv, TypeOK, DataOK, Record, LayerIds, Tight, ValuesOf
    <3>3. RecordTight'
      BY <3>2, TightBounds, PTL
    <3> QED
      BY <3>1, <3>3 DEF MaybeIsNear
  <2>2. CASE \E l \in LayerIds, b \in Blocks, lo, hi \in Bounds : Classify(l, b, lo, hi)
    <3>1. phase = "query" /\ UNCHANGED <<codec, orig, dec, rec>>
      BY <2>2 DEF Classify
    <3>2. RecordTight'
      BY <3>1 DEF RecordTight, Recorded, LowerBounds, UpperBounds, Span, Reach, ValuesOf
    <3> QED
      BY <2>2, <3>2, MaybeStep
  <2>3. CASE UNCHANGED vars
    <3>1. UNCHANGED <<codec, phase, orig, dec, rec, query, class>>
      BY <2>3 DEF vars
    <3>2. RecordTight'
      BY <3>1 DEF RecordTight, Recorded, LowerBounds, UpperBounds, Span, Reach, ValuesOf
    <3>3. MaybeIsNear'
      BY <3>1 DEF MaybeIsNear, Span, ValuesOf, BlockError
    <3> QED
      BY <3>2, <3>3
  <2> QED
    BY <2>1, <2>2, <2>3 DEF Next
<1> QED
  BY <1>1, <1>2, Invariance, PTL DEF Spec
=============================================================================
