--------------------------- MODULE AlgorithmsProofs ---------------------------
(***************************************************************************)
(* Proofs about the algorithms that work on their own: the predicate's     *)
(* bounds, the codec's configuration, the packing of zone map records,     *)
(* what is estimated from bounds, point queries, quantiles and the tools   *)
(* that other stores are compared with.                                    *)
(*                                                                         *)
(* RangeBounds: the step of one call.  The algorithms of Algorithms are    *)
(* inputs in initial states: what is proved is a fact about the operators, *)
(* for every input of the kind the code is given.                          *)
(***************************************************************************)
EXTENDS Algorithms, Lemmas

-----------------------------------------------------------------------------
(* The predicate (RangeBounds), for any set of floats and any bounds *)

(* A double that is rounded keeps its order with every float. *)
LEMMA RoundingKeepsOrder ==
  ASSUME NEW x \in Int, NEW f \in ToF32(x), NEW v \in F32
  PROVE  /\ f \in Int /\ v \in Int
         /\ f < x => ((f < v) <=> (x <= v))
         /\ f >= x => ((f <= v) <=> (x <= v))
<1>1. f \in F32 /\ ~(x <= v /\ v < f) /\ ~(f < v /\ v <= x)
  BY DEF ToF32
<1>2. f \in Int /\ v \in Int
  BY <1>1, NumbersAssumption
<1>3. ~(x <= f /\ f < f) /\ (f < x => x # v)
  BY <1>1, <1>2
<1> QED
  BY <1>1, <1>2, <1>3

(* Above the largest float below x are the floats from x on: moving an     *)
(* inclusive lower bound, or an exclusive upper one, loses no float.       *)
LEMMA BelowIsExact ==
  ASSUME NEW x \in Doubles, NEW a \in Below(x), NEW v \in Float32
  PROVE  a \in Int /\ ((a < v) <=> (x <= v))
<1>1. v \in F32 /\ x \in Int /\ v \in Int /\ MinusInfinity \in Int /\ MinusInfinity < v
  BY NumbersAssumption DEF F32
<1>2. CASE a \in ToF32(x) /\ a < x
  BY <1>1, <1>2, RoundingKeepsOrder
<1>3. CASE \E f \in ToF32(x) : f >= x /\ a \in NextDown(f)
  <2>1. PICK f \in ToF32(x) : f >= x /\ a \in NextDown(f)
    BY <1>3
  <2>2. f \in Int /\ ((f <= v) <=> (x <= v))
    BY <1>1, <2>1, RoundingKeepsOrder
  <2>3. CASE f = MinusInfinity
    <3>1. a = f
      BY <2>1, <2>3 DEF NextDown
    <3> QED
      BY <1>1, <2>2, <2>3, <3>1
  <2>4. CASE f # MinusInfinity
    <3>1. a \in F32 /\ a < f /\ (v < f => v <= a)
      BY <1>1, <2>1, <2>4 DEF NextDown
    <3>2. a \in Int
      BY <3>1, NumbersAssumption
    <3> QED
      BY <1>1, <2>2, <3>1, <3>2
  <2> QED
    BY <2>3, <2>4
<1> QED
  BY <1>2, <1>3 DEF Below

(* range_bounds selects what its own arguments say. *)
LEMMA RangeIsExact ==
  ASSUME NEW lo \in Doubles \cup {NaN, None}, NEW hi \in Doubles \cup {NaN, None},
         NEW p \in BOOLEAN, NEW q \in BOOLEAN,
         NEW r \in range_bounds(lo, hi, p, q), ~r.raises,
         NEW v \in Float32
  PROVE  (r.a < v /\ v <= r.b) <=>
           (lo # None => AtLeast(lo, v, p)) /\ (hi # None => AtLeast(v, hi, q))
<1>1. r # Raises
  BY DEF Raises
<1>2. lo # NaN /\ hi # NaN
  BY <1>1 DEF range_bounds
<1>3. PICK a \in IF lo = None THEN {MinusInfinity} ELSE IF p THEN Below(lo) ELSE {lo},
           b \in IF hi = None THEN {Infinity} ELSE IF q THEN {hi} ELSE Below(hi) :
        r = Bounds(a, b)
  BY <1>1, <1>2 DEF range_bounds
<1>4. r.a = a /\ r.b = b
  BY <1>3 DEF Bounds
<1>5. v \in Int /\ MinusInfinity < v /\ v < Infinity /\ MinusInfinity \in Int /\ Infinity \in Int
  BY NumbersAssumption DEF F32
<1>6. a < v <=> (lo # None => AtLeast(lo, v, p))
  <2>1. CASE lo = None
    BY <1>3, <1>5, <2>1
  <2>2. CASE lo # None /\ p
    BY <1>2, <1>3, <2>2, BelowIsExact DEF AtLeast
  <2>3. CASE lo # None /\ ~p
    BY <1>3, <2>3 DEF AtLeast
  <2> QED
    BY <2>1, <2>2, <2>3
<1>7. v <= b <=> (hi # None => AtLeast(v, hi, q))
  <2>1. CASE hi = None
    BY <1>3, <1>5, <2>1
  <2>2. CASE hi # None /\ q
    BY <1>3, <2>2 DEF AtLeast
  <2>3. CASE hi # None /\ ~q
    <3>1. hi \in Doubles /\ hi \in Int /\ b \in Below(hi)
      BY <1>2, <1>3, <2>3, NumbersAssumption
    <3>2. b \in Int /\ (b < v <=> hi <= v)
      BY <3>1, BelowIsExact
    <3> QED
      BY <1>5, <2>3, <3>1, <3>2 DEF AtLeast
  <2> QED
    BY <2>1, <2>2, <2>3
<1> QED
  BY <1>4, <1>6, <1>7

(* query_gt, query_lt, query_range and the aggregates select exactly the   *)
(* decoded values the caller asked for, whatever the bounds.               *)
THEOREM RangesAreExact == CallSpec => []BoundsExact
<1> DEFINE Inv == call \in Calls /\ BoundsExact
<1>1. CallInit => Inv
  BY DEF CallInit, BoundsExact
<1>2. Inv /\ [Call]_callVars => Inv'
  <2> SUFFICES ASSUME Inv, [Call]_callVars PROVE Inv'
    OBVIOUS
  <2>1. CASE UNCHANGED callVars
    BY <2>1 DEF callVars, BoundsExact
  <2>2. CASE Call
    <3>1. call' = call /\ result' \in Outcomes(call)
      BY <2>2 DEF Call
    <3> SUFFICES ASSUME ~result'.raises, NEW v \in Float32
                 PROVE  (result'.a < v /\ v <= result'.b) <=> Asked(call, v)
      BY <3>1 DEF BoundsExact
    <3>2. CASE call.fn = "gt"
      <4>1. call.threshold \in Given /\ call.inclusive \in BOOLEAN
        BY <3>2 DEF Calls
      <4>2. result' \in range_bounds(call.threshold, None, call.inclusive, TRUE)
        BY <3>1, <3>2 DEF Outcomes, query_gt
      <4>3. call.threshold # None
        BY <4>1, OthersAssumption DEF Given
      <4>4. (result'.a < v /\ v <= result'.b) <=> AtLeast(call.threshold, v, call.inclusive)
        <5>1. call.threshold \in Doubles \cup {NaN, None} /\ None \in Doubles \cup {NaN, None}
          BY <4>1 DEF Given
        <5>2. (result'.a < v /\ v <= result'.b) <=>
                /\ call.threshold # None => AtLeast(call.threshold, v, call.inclusive)
                /\ None # None => AtLeast(v, None, TRUE)
          BY <4>1, <4>2, <5>1, RangeIsExact, TRUE \in BOOLEAN, Zenon
        <5> QED
          BY <4>3, <5>2, Zenon
      <4> QED
        BY <3>2, <4>4, Zenon DEF Asked
    <3>3. CASE call.fn = "lt"
      <4>1. call.threshold \in Given /\ call.inclusive \in BOOLEAN
        BY <3>3 DEF Calls
      <4>2. result' \in range_bounds(None, call.threshold, FALSE, call.inclusive)
        BY <3>1, <3>3 DEF Outcomes, query_lt
      <4>3. call.threshold # None
        BY <4>1, OthersAssumption DEF Given
      <4>4. (result'.a < v /\ v <= result'.b) <=> AtLeast(v, call.threshold, call.inclusive)
        <5>1. call.threshold \in Doubles \cup {NaN, None} /\ None \in Doubles \cup {NaN, None}
          BY <4>1 DEF Given
        <5>2. (result'.a < v /\ v <= result'.b) <=>
                /\ None # None => AtLeast(None, v, FALSE)
                /\ call.threshold # None => AtLeast(v, call.threshold, call.inclusive)
          BY <4>1, <4>2, <5>1, RangeIsExact
        <5> QED
          BY <4>3, <5>2, Zenon
      <4> QED
        BY <3>3, <4>4, Zenon DEF Asked
    <3>4. CASE call.fn = "range"
      <4>1. /\ call.lo \in Given \cup {None} /\ call.hi \in Given \cup {None}
            /\ call.lo_inclusive \in BOOLEAN /\ call.hi_inclusive \in BOOLEAN
        BY <3>4 DEF Calls
      <4>2. /\ call.lo # None /\ call.hi # None
            /\ result' \in range_bounds(call.lo, call.hi, call.lo_inclusive, call.hi_inclusive)
        BY <3>1, <3>4 DEF Outcomes, query_range, Raises
      <4>3. (result'.a < v /\ v <= result'.b) <=>
              AtLeast(call.lo, v, call.lo_inclusive) /\ AtLeast(v, call.hi, call.hi_inclusive)
        <5>1. call.lo \in Doubles \cup {NaN, None} /\ call.hi \in Doubles \cup {NaN, None}
          BY <4>1 DEF Given
        <5> QED
          BY <4>1, <4>2, <5>1, RangeIsExact
      <4> QED
        BY <3>4, <4>3, Zenon DEF Asked
    <3> QED
      BY <3>2, <3>3, <3>4 DEF Calls
  <2> QED
    BY <2>1, <2>2
<1> QED
  BY <1>1, <1>2, PTL DEF CallSpec

-----------------------------------------------------------------------------
(* The inputs of Algorithms *)

(* The inductive invariant: what is in input is one of Inputs. *)
GivenInput == input = None \/ input \in Inputs
THEOREM InputsAreGiven == AlgorithmsSpec => []GivenInput
<1>1. AlgorithmsInit => GivenInput
  BY DEF AlgorithmsInit, GivenInput
<1>2. GivenInput /\ [AlgorithmsNext]_<<input, callVars>> => GivenInput'
  BY DEF AlgorithmsNext, GivenInput
<1> QED
  BY <1>1, <1>2, PTL DEF AlgorithmsSpec

-----------------------------------------------------------------------------
(* The codec's configuration (CodecConfig) *)

(* An accepted codec's rates are whole bytes: twice a number of half bytes. *)
LEMMA HalfOf ==
  ASSUME NEW r \in Int, r % 2 = 0
  PROVE  r \div 2 \in Int /\ r = 2 * (r \div 2)
  OBVIOUS

(* What __post_init__ makes of valid arguments. *)
LEMMA CodecIs ==
  ASSUME NEW args, AreArguments(args), Valid(args)
  PROVE  LET c == Codec(args)
             n == Len(c.layers)
         IN  /\ AreArguments(c) /\ Valid(c)
             /\ n \in Nat \ {0} /\ DOMAIN c.layers = 1 .. n
             /\ \A j \in 1 .. n : c.layers[j] \in Int /\ c.layers[j] > 0 /\ c.layers[j] % 2 = 0
             /\ \A j \in 1 .. n - 1 : c.layers[j] < c.layers[j + 1]
             /\ c.layers[n] = c.rate /\ c.rate \in Int /\ c.rate > 0 /\ c.rate % 2 = 0
             /\ c.sub_chunk = args.sub_chunk
<1> DEFINE L == IF args.layers = <<>> THEN <<args.rate>> ELSE args.layers
           c == Codec(args)
           n == Len(L)
<1>1. /\ args.rate \in Int /\ args.layers \in Seq(Int)
      /\ args \in [rate : Int, block_dim : Int, layers : Seq(Int), block_order : Seq(Int),
                   sub_chunk : Seq(Int), block_error_bits : Int]
  BY DEF AreArguments
<1>2. /\ args.rate > 0 /\ args.rate % 2 = 0
      /\ \A r \in ToSet(args.layers) : r % 2 = 0
      /\ args.layers # <<>> => /\ Increasing(args.layers) /\ Last(args.layers) = args.rate
                               /\ \A i \in DOMAIN args.layers : args.layers[i] > 0
  BY DEF Valid, WholeBytes
<1>3. L \in Seq(Int) /\ n \in Nat \ {0} /\ DOMAIN L = 1 .. n
  <2>1. CASE args.layers = <<>>
    BY <1>1, <2>1
  <2>2. CASE args.layers # <<>>
    BY <1>1, <2>2
  <2> QED
    BY <2>1, <2>2
<1>4. /\ c \in [rate : Int, block_dim : Int, layers : Seq(Int), block_order : Seq(Int),
                sub_chunk : Seq(Int), block_error_bits : Int]
      /\ c.layers = L /\ c.rate = args.rate /\ c.block_dim = args.block_dim
      /\ c.block_order = args.block_order /\ c.sub_chunk = args.sub_chunk
      /\ c.block_error_bits = args.block_error_bits
  <2> HIDE DEF L
  <2>1. c = [args EXCEPT !.layers = L]
    BY DEF Codec, L
  <2> QED
    BY <1>1, <1>3, <2>1
<1>5. /\ \A j \in 1 .. n : L[j] \in Int /\ L[j] > 0 /\ L[j] % 2 = 0
      /\ \A j \in 1 .. n - 1 : L[j] < L[j + 1]
      /\ L[n] = args.rate
  <2>1. CASE args.layers = <<>>
    BY <1>1, <1>2, <2>1
  <2>2. CASE args.layers # <<>>
    <3>1. L = args.layers
      BY <2>2
    <3>2. \A j \in 1 .. n : L[j] \in ToSet(args.layers)
      BY <1>3, <3>1 DEF ToSet
    <3> HIDE DEF L, c
    <3>3. \A j \in 1 .. n : L[j] \in Int
      BY <1>3
    <3>4. \A j \in 1 .. n : L[j] > 0 /\ L[j] % 2 = 0
      BY <1>2, <1>3, <2>2, <3>1, <3>2
    <3>5. \A j \in 1 .. n - 1 : L[j] < L[j + 1]
      BY <1>2, <2>2, <3>1 DEF Increasing
    <3>6. L[n] = args.rate
      BY <1>2, <2>2, <3>1 DEF Last
    <3> QED
      BY <3>3, <3>4, <3>5, <3>6
  <2> QED
    BY <2>1, <2>2
<1> HIDE DEF L, c
<1>6. ToSet(L) = {L[j] : j \in 1 .. n}
  BY <1>3 DEF ToSet
<1>7. Valid(c)
  <2>1. c.rate > 0 /\ c.block_dim = BlockDim
    BY <1>2, <1>4 DEF Valid
  <2>2. Increasing(c.layers) /\ Last(c.layers) = c.rate /\ \A i \in DOMAIN c.layers : c.layers[i] > 0
    BY <1>3, <1>4, <1>5 DEF Increasing, Last
  <2>3. \A r \in {c.rate} \cup ToSet(c.layers) : WholeBytes(r)
    BY <1>2, <1>4, <1>5, <1>6 DEF WholeBytes
  <2>4. Len(c.block_order) = 3 /\ ToSet(c.block_order) = {0, 1, 2}
    BY <1>4 DEF Valid
  <2>5. c.sub_chunk # <<>> =>
          Len(c.sub_chunk) = 3
            /\ \A i \in 1 .. 3 : c.sub_chunk[i] > 0 /\ c.sub_chunk[i] % BlockDim = 0
    BY <1>4 DEF Valid
  <2>6. c.block_error_bits \in {0, 4}
    BY <1>4 DEF Valid
  <2>7. c.block_error_bits = 4 => Len(c.layers) < 2
    <3>1. CASE args.layers = <<>>
      BY <1>4, <3>1 DEF L
    <3>2. CASE args.layers # <<>>
      BY <1>4, <3>2 DEF L, Valid
    <3> QED
      BY <3>1, <3>2
  <2> QED
    BY <2>1, <2>2, <2>3, <2>4, <2>5, <2>6, <2>7 DEF Valid
<1> QED
  BY <1>2, <1>3, <1>4, <1>5, <1>7, <1>1 DEF c, AreArguments

(* A codec is the same again when zarr reads it. *)
LEMMA CodecKept ==
  ASSUME NEW c, AreArguments(c), Valid(c), c.layers # <<>>
  PROVE  from_dict(to_dict(c)) = c
<1> DEFINE d == to_dict(c)
           e == [rate |-> c.rate, block_dim |-> c.block_dim, layers |-> c.layers,
                 block_order |-> c.block_order, sub_chunk |-> c.sub_chunk,
                 block_error_bits |-> c.block_error_bits]
<1>1. c \in [rate : Int, block_dim : Int, layers : Seq(Int), block_order : Seq(Int),
             sub_chunk : Seq(Int), block_error_bits : Int]
  BY DEF AreArguments
<1>2. /\ d.rate = c.rate /\ d.block_dim = c.block_dim /\ d.layers = c.layers
      /\ d.block_order = c.block_order /\ d.sub_chunk = c.sub_chunk
      /\ d.block_error_bits = IF c.block_error_bits = 0 THEN Absent ELSE 4
  BY DEF to_dict
<1> HIDE DEF d
<1>3. Get(d.rate, 128) = c.rate /\ Get(d.block_dim, 4) = c.block_dim
  BY <1>1, <1>2, AbsentAssumption DEF Get
<1>4. GetOr(d.layers, <<>>) = c.layers /\ GetOr(d.sub_chunk, <<>>) = c.sub_chunk
  BY <1>1, <1>2, AbsentAssumption DEF GetOr
<1>5. GetOr(d.block_order, <<0, 1, 2>>) = c.block_order
  <2>1. Len(c.block_order) = 3 /\ c.block_order \in Seq(Int)
    BY <1>1 DEF Valid
  <2> QED
    BY <1>2, <2>1, AbsentAssumption DEF GetOr
<1>6. Get(d.block_error_bits, 0) = c.block_error_bits
  BY <1>2, AbsentAssumption DEF Get, Valid
<1>7. from_dict(d) = Codec(e)
  BY <1>3, <1>4, <1>5, <1>6 DEF from_dict
<1>8. e = c
  BY <1>1
<1>9. Codec(c) = c
  BY <1>1 DEF Codec
<1> QED
  BY <1>7, <1>8, <1>9 DEF d

(* Three lengths. *)
LEMMA Lengths ==
  ASSUME NEW S, NEW s \in Seq(S), Len(s) = 3
  PROVE  \A d \in 1 .. 3 : s[d] \in S
  OBVIOUS

(* The lengths of an accepted array, in chunks, units and blocks. *)
LEMMA ShapesFit ==
  ASSUME NEW c, AreArguments(c), Valid(c), NEW dtype, NEW shape, NEW chunk,
         IsArray(shape, chunk), validate(c, dtype, shape, chunk)
  PROVE  /\ Len(shape) = 3 /\ Len(chunk) = 3 /\ DOMAIN chunk = 1 .. 3 /\ dtype = "float32"
         /\ DOMAIN unit(c, chunk) = 1 .. 3
         /\ InBlocks(chunk) /\ Divides(unit(c, chunk), chunk) /\ Divides(chunk, shape)
         /\ \A d \in 1 .. 3 :
              /\ shape[d] \in Nat /\ chunk[d] \in Nat \ {0} /\ unit(c, chunk)[d] \in Nat \ {0}
              /\ shape[d] % chunk[d] = 0 /\ chunk[d] % unit(c, chunk)[d] = 0
              /\ chunk[d] % BlockDim = 0 /\ unit(c, chunk)[d] % BlockDim = 0
<1>1. shape \in Seq(Nat) /\ chunk \in Seq(Nat \ {0}) /\ Len(chunk) = Len(shape)
  BY DEF IsArray
<1>2. Len(shape) = 3 /\ dtype = "float32"
  BY DEF validate
<1>3. Len(chunk) = 3 /\ DOMAIN chunk = 1 .. 3 /\ DOMAIN shape = 1 .. 3
  BY <1>1, <1>2
<1>4. InBlocks(chunk) /\ Divides(unit(c, chunk), chunk) /\ Divides(chunk, shape)
  BY <1>3 DEF validate
<1>5. \A d \in 1 .. 3 : /\ chunk[d] % BlockDim = 0 /\ chunk[d] % unit(c, chunk)[d] = 0
                        /\ shape[d] % chunk[d] = 0
  BY <1>3, <1>4 DEF InBlocks, Divides
<1>6. \A d \in 1 .. 3 : shape[d] \in Nat /\ chunk[d] \in Nat \ {0}
  <2>1. \A d \in 1 .. 3 : shape[d] \in Nat
    BY <1>1, <1>2, Lengths
  <2>2. \A d \in 1 .. 3 : chunk[d] \in Nat \ {0}
    <3> DEFINE S == Nat \ {0}
    <3>1. chunk \in Seq(S) /\ Len(chunk) = 3
      BY <1>1, <1>3
    <3> HIDE DEF S
    <3>2. \A d \in 1 .. 3 : chunk[d] \in S
      BY <3>1, Lengths
    <3> QED
      BY <3>2 DEF S
  <2> QED
    BY <2>1, <2>2
<1>7. /\ DOMAIN unit(c, chunk) = 1 .. 3
      /\ \A d \in 1 .. 3 : unit(c, chunk)[d] \in Nat \ {0} /\ unit(c, chunk)[d] % BlockDim = 0
  <2>1. CASE c.sub_chunk = <<>>
    BY <1>3, <1>5, <1>6, <2>1 DEF unit
  <2>2. CASE c.sub_chunk # <<>>
    <3>1. c.sub_chunk \in Seq(Int) /\ Len(c.sub_chunk) = 3
      BY <2>2 DEF AreArguments, Valid
    <3>2. \A d \in 1 .. 3 : c.sub_chunk[d] > 0 /\ c.sub_chunk[d] % BlockDim = 0
      BY <2>2 DEF Valid
    <3>3. unit(c, chunk) = c.sub_chunk
      BY <2>2 DEF unit
    <3>4. \A d \in 1 .. 3 : c.sub_chunk[d] \in Int
      BY <3>1
    <3> QED
      BY <3>1, <3>2, <3>3, <3>4
  <2> QED
    BY <2>1, <2>2
<1> QED
  BY <1>2, <1>3, <1>4, <1>5, <1>6, <1>7

(* What a length is made of. *)
LEMMA Quotients ==
  ASSUME NEW a \in Nat, NEW b \in Nat \ {0}, a % b = 0
  PROVE  a \div b \in Nat /\ a = (a \div b) * b
  BY DivisionOf

(* A length in parts, when the parts are made of blocks. *)
LEMMA PartsInBlocks ==
  ASSUME NEW a \in Nat, NEW b \in Nat \ {0}, NEW u \in Nat \ {0},
         a % u = 0, u % b = 0, a % b = 0
  PROVE  (a \div u) * (u \div b) = a \div b
<1> DEFINE q == a \div u
           w == u \div b
<1>1. q \in Nat /\ a = q * u /\ w \in Nat /\ u = w * b
  BY Quotients
<1> HIDE DEF q, w
<1>2. a = (q * w) * b + 0 /\ q * w \in Nat
  BY <1>1
<1> DEFINE p == q * w
<1>3. p \in Nat /\ a = p * b + 0
  BY <1>2
<1> HIDE DEF p
<1>4. a \div b = p
  BY <1>3, Division
<1> QED
  BY <1>4 DEF p, q, w

(* A codec's layers: each adds bytes, and the first j of them add up to    *)
(* half of the rate of the last one.                                       *)
LEMMA LayersAddUp ==
  ASSUME NEW c, NEW n \in Nat \ {0}, DOMAIN c.layers = 1 .. n,
         \A j \in 1 .. n : c.layers[j] \in Int /\ c.layers[j] > 0 /\ c.layers[j] % 2 = 0,
         \A j \in 1 .. n - 1 : c.layers[j] < c.layers[j + 1]
  PROVE  /\ \A j \in 1 .. n : layer_bytes(c)[j] \in Int /\ layer_bytes(c)[j] > 0
         /\ SumFunctionOnSet(layer_bytes(c), 1 .. n - 1) \in Int
         /\ SumFunctionOnSet(layer_bytes(c), 1 .. n - 1) + layer_bytes(c)[n] = c.layers[n] \div 2
<1> DEFINE L == c.layers
           b == layer_bytes(c)
           half(j) == L[j] \div 2
<1>1. \A j \in 1 .. n : half(j) \in Int /\ L[j] = 2 * half(j) /\ half(j) > 0
  <2> SUFFICES ASSUME NEW j \in 1 .. n PROVE half(j) \in Int /\ L[j] = 2 * half(j) /\ half(j) > 0
    OBVIOUS
  <2>1. L[j] \in Int /\ L[j] > 0 /\ L[j] % 2 = 0
    OBVIOUS
  <2>2. half(j) \in Int /\ L[j] = 2 * half(j)
    BY <2>1, HalfOf
  <2> HIDE DEF half, L
  <2> QED
    BY <2>1, <2>2
<1>2. b = [j \in 1 .. n |-> (L[j] - IF j = 1 THEN 0 ELSE L[j - 1]) \div 2]
  BY DEF layer_bytes
<1>3. b[1] = half(1)
  <2>1. b[1] = (L[1] - 0) \div 2 /\ L[1] \in Int
    BY <1>2
  <2> QED
    BY <2>1
<1>4. ASSUME NEW j \in 2 .. n
      PROVE  b[j] = half(j) - half(j - 1) /\ half(j - 1) < half(j)
  <2>1. j - 1 \in 1 .. n - 1 /\ j \in 1 .. n /\ j - 1 \in 1 .. n /\ (j - 1) + 1 = j /\ j # 1
    OBVIOUS
  <2>2. b[j] = (L[j] - L[j - 1]) \div 2
    BY <1>2, <2>1
  <2>3. L[j - 1] < L[j]
    <3>1. L[j - 1] < L[(j - 1) + 1]
      BY <2>1
    <3> QED
      BY <2>1, <3>1
  <2>4. L[j] = 2 * half(j) /\ L[j - 1] = 2 * half(j - 1) /\ half(j) \in Int /\ half(j - 1) \in Int
    BY <1>1, <2>1
  <2> DEFINE x == half(j)
             y == half(j - 1)
  <2>5. x \in Int /\ y \in Int /\ 2 * y < 2 * x /\ b[j] = (2 * x - 2 * y) \div 2
    BY <2>2, <2>3, <2>4
  <2> HIDE DEF x, y
  <2>6. (2 * x - 2 * y) \div 2 = x - y /\ y < x
    <3>1. x - y \in Nat /\ y < x /\ 0 \in 0 .. 2 - 1
      BY <2>5
    <3>2. ((x - y) * 2 + 0) \div 2 = x - y
      BY <3>1, Division
    <3>3. 2 * x - 2 * y = (x - y) * 2 + 0
      BY <2>5
    <3> QED
      BY <3>1, <3>2, <3>3
  <2> QED
    BY <2>5, <2>6 DEF x, y
<1> HIDE DEF L, b, half
<1>5. \A j \in 1 .. n : b[j] \in Int /\ b[j] > 0
  <2> SUFFICES ASSUME NEW j \in 1 .. n PROVE b[j] \in Int /\ b[j] > 0
    OBVIOUS
  <2>1. CASE j = 1
    BY <1>1, <1>3, <2>1
  <2>2. CASE j # 1
    <3>1. j \in 2 .. n /\ j - 1 \in 1 .. n
      BY <2>2
    <3>2. half(j) \in Int /\ half(j - 1) \in Int
      BY <1>1, <3>1
    <3> QED
      BY <1>4, <3>1, <3>2
  <2> QED
    BY <2>1, <2>2
<1>6. \A j \in 0 .. n - 1 : /\ IsFiniteSet(1 .. j) /\ Integers(b, 1 .. j) /\ Integers(b, 1 .. j + 1)
                           /\ 1 .. j + 1 = (1 .. j) \cup {j + 1} /\ j + 1 \notin 1 .. j
  <2> SUFFICES ASSUME NEW j \in 0 .. n - 1
               PROVE  /\ IsFiniteSet(1 .. j) /\ Integers(b, 1 .. j) /\ Integers(b, 1 .. j + 1)
                      /\ 1 .. j + 1 = (1 .. j) \cup {j + 1} /\ j + 1 \notin 1 .. j
    OBVIOUS
  <2>1. IsFiniteSet(1 .. j)
    BY FS_Interval
  <2>2. 1 .. j + 1 \subseteq 1 .. n /\ 1 .. j \subseteq 1 .. n
    OBVIOUS
  <2>3. Integers(b, 1 .. j) /\ Integers(b, 1 .. j + 1)
    BY <1>5, <2>2 DEF Integers
  <2> QED
    BY <2>1, <2>3
<1>7. ASSUME NEW j \in 0 .. n - 1
      PROVE  SumOf(b, 1 .. j + 1) = b[j + 1] + SumOf(b, 1 .. j)
  <2>1. /\ IsFiniteSet(1 .. j) /\ Integers(b, (1 .. j) \cup {j + 1})
        /\ 1 .. j + 1 = (1 .. j) \cup {j + 1} /\ j + 1 \notin 1 .. j
    BY <1>6
  <2>2. SumOf(b, (1 .. j) \cup {j + 1}) = b[j + 1] + SumOf(b, 1 .. j)
    BY <2>1, SumJoin
  <2> QED
    BY <2>1, <2>2
<1> DEFINE T == {j \in 1 .. n : SumOf(b, 1 .. j) # half(j)}
<1>8. T = {}
  <2> SUFFICES ASSUME T # {} PROVE FALSE
    OBVIOUS
  <2>1. T \subseteq Nat
    OBVIOUS
  <2>2. PICK j \in T : \A i \in T : j <= i
    <3> HIDE DEF T
    <3> QED
      BY <2>1, LeastExists
  <2>3. j \in 1 .. n /\ SumOf(b, 1 .. j) # half(j) /\ j - 1 \in 0 .. n - 1 /\ (j - 1) + 1 = j
    BY <2>2
  <2>4. SumOf(b, 1 .. (j - 1) + 1) = b[(j - 1) + 1] + SumOf(b, 1 .. j - 1)
    BY <1>7, <2>3
  <2>5. SumOf(b, 1 .. j) = b[j] + SumOf(b, 1 .. j - 1)
    BY <2>3, <2>4
  <2>6. CASE j = 1
    <3>1. 1 .. j - 1 = {} /\ SumOf(b, {}) = 0
      BY <2>6, SumOfNone
    <3>2. half(1) \in Int /\ 1 \in 1 .. n
      BY <1>1
    <3> QED
      BY <1>3, <2>3, <2>5, <2>6, <3>1, <3>2
  <2>7. CASE j # 1
    <3>1. j - 1 \in 1 .. n /\ j \in 2 .. n /\ ~(j <= j - 1)
      BY <2>3, <2>7
    <3>2. SumOf(b, 1 .. j - 1) = half(j - 1)
      BY <2>2, <3>1
    <3>3. b[j] = half(j) - half(j - 1) /\ half(j) \in Int /\ half(j - 1) \in Int
      BY <1>1, <1>4, <2>3, <3>1
    <3> QED
      BY <2>3, <2>5, <3>2, <3>3
  <2> QED
    BY <2>6, <2>7
<1>9. SumOf(b, 1 .. n) = half(n)
  BY <1>8
<1>10. n - 1 \in 0 .. n - 1 /\ (n - 1) + 1 = n /\ n \in 1 .. n
  OBVIOUS
<1>11. SumOf(b, 1 .. (n - 1) + 1) = b[(n - 1) + 1] + SumOf(b, 1 .. n - 1)
  BY <1>7, <1>10
<1>12. SumOf(b, 1 .. n) = b[n] + SumOf(b, 1 .. n - 1)
  BY <1>10, <1>11
<1>13. SumOf(b, 1 .. n - 1) \in Int /\ b[n] \in Int
  BY <1>5, <1>6, <1>10, SumType
<1>14. SumOf(b, 1 .. n - 1) = SumFunctionOnSet(b, 1 .. n - 1)
  BY DEF SumOf
<1> QED
  BY <1>5, <1>9, <1>12, <1>13, <1>14 DEF b, half, L

(* A product over an axis each. *)
LEMMA ProductsMeet ==
  ASSUME NEW g1 \in Int, NEW g2 \in Int, NEW g3 \in Int,
         NEW a1 \in Int, NEW a2 \in Int, NEW a3 \in Int,
         NEW w1 \in Int, NEW w2 \in Int, NEW w3 \in Int
  PROVE  ((g1 * a1) * (g2 * a2) * (g3 * a3)) * (w1 * w2 * w3)
           = (g1 * g2 * g3) * ((a1 * w1) * (a2 * w2) * (a3 * w3))
<1>1. \A x, y, z \in Int : (x * y) * z = x * (y * z) /\ x * y = y * x
  OBVIOUS
<1> QED
  BY <1>1

(* The blocks of a chunk, and what its payload holds of each. *)
LEMMA BlocksOf ==
  ASSUME NEW chunk, DOMAIN chunk = 1 .. 3,
         \A d \in 1 .. 3 : chunk[d] \in Nat \ {0} /\ chunk[d] % BlockDim = 0
  PROVE  /\ \A d \in 1 .. 3 : chunk[d] \div BlockDim \in Nat \ {0}
         /\ blocks(chunk)
              = (chunk[1] \div BlockDim) * (chunk[2] \div BlockDim) * (chunk[3] \div BlockDim)
         /\ blocks(chunk) \in Nat \ {0}
<1>1. \A d \in 1 .. 3 : chunk[d] \div BlockDim \in Nat \ {0}
  <2> SUFFICES ASSUME NEW d \in 1 .. 3 PROVE chunk[d] \div BlockDim \in Nat \ {0}
    OBVIOUS
  <2> DEFINE a == chunk[d]
             q == a \div BlockDim
  <2>1. a \in Nat /\ a # 0 /\ a % BlockDim = 0 /\ BlockDim \in Nat \ {0}
    BY BlockDimAssumption
  <2>2. q \in Nat /\ a = q * BlockDim
    BY <2>1, Quotients
  <2> HIDE DEF a, q
  <2>3. q # 0
    BY <2>1, <2>2
  <2> QED
    BY <2>2, <2>3 DEF q, a
<1> DEFINE q(d) == chunk[d] \div BlockDim
<1>2. blocks(chunk) = q(1) * q(2) * q(3)
  BY DEF blocks, Product
<1>3. q(1) \in Nat \ {0} /\ q(2) \in Nat \ {0} /\ q(3) \in Nat \ {0}
  BY <1>1
<1>4. q(1) * q(2) * q(3) \in Nat \ {0}
  <2> HIDE DEF q
  <2>1. q(1) * q(2) \in Nat \ {0}
    BY <1>3
  <2> DEFINE p == q(1) * q(2)
  <2>2. p \in Nat \ {0}
    BY <2>1
  <2> HIDE DEF p
  <2>3. p * q(3) \in Nat \ {0}
    BY <1>3, <2>2
  <2> QED
    BY <2>3 DEF p
<1> QED
  BY <1>1, <1>2, <1>4

(* The payload is the same number of bytes for each block. *)
LEMMA PayloadInBlocks ==
  ASSUME NEW n \in Nat \ {0}, NEW r \in Int, r > 0, r % 2 = 0
  PROVE  /\ (n * r) \div 2 = n * (r \div 2) /\ (n * r) \div 2 > 0
         /\ ((n * r) \div 2) % n = 0 /\ ((n * r) \div 2) \div n = r \div 2
<1> DEFINE h == r \div 2
           p == n * h
<1>1. h \in Int /\ r = 2 * h
  BY HalfOf
<1> HIDE DEF h
<1>2. h > 0 /\ h \in Nat
  BY <1>1
<1>3. p \in Nat /\ p > 0 /\ n * r = 2 * p
  BY <1>1, <1>2
<1>4. p = h * n + 0
  BY <1>2
<1> HIDE DEF p
<1>5. (n * r) \div 2 = p
  BY <1>3
<1>6. p % n = 0 /\ p \div n = h
  BY <1>2, <1>3, <1>4, Division
<1> QED
  BY <1>3, <1>5, <1>6 DEF p, h

(* What ZFP writes of n blocks fits their payload exactly if it takes no   *)
(* more bits for a block than the rate gives, and fills its last word.     *)
LEMMA FitsWhen ==
  ASSUME NEW n \in Nat \ {0}, NEW r \in Int, r > 0, r % 2 = 0
  PROVE  InBuffer(n, r) <=> (4 * r >= LeastBits /\ (n * 4 * r) % WordBits = 0)
<1> DEFINE h == r \div 2
           z == zfp_bits(r)
           b == n * z
           p == n * (4 * r)
           w == WordBits
           q == (b + w - 1) \div w
<1>1. h \in Int /\ r = 2 * h /\ w \in Nat \ {0} /\ LeastBits \in Nat
  BY HalfOf, BitsAssumption
<1>2. z \in Nat /\ z >= 4 * r /\ (z = 4 * r <=> 4 * r >= LeastBits)
  BY <1>1 DEF zfp_bits
<1>3. 8 * ((n * r) \div 2) = p /\ (n * 4 * r) = p
  <2>1. (n * r) \div 2 = n * h
    BY PayloadInBlocks
  <2> DEFINE x == n * h
  <2>2. x \in Int /\ p = 8 * x
    BY <1>1
  <2>3. n * 4 * r = p
    BY <1>1
  <2> QED
    BY <2>1, <2>2, <2>3
<1>4. b \in Nat /\ p \in Nat /\ b >= p /\ (b = p <=> z = 4 * r)
  <2> DEFINE d == z - 4 * r
  <2>1. d \in Nat /\ z = 4 * r + d
    BY <1>2
  <2>2. b = p + n * d
    BY <2>1
  <2>3. n * d \in Nat /\ (n * d = 0 <=> d = 0)
    BY <2>1
  <2>4. b \in Int /\ p \in Nat
    BY <1>2
  <2> QED
    BY <2>1, <2>2, <2>3, <2>4
<1>5. InBuffer(n, r) <=> q * w <= p
  BY <1>3 DEF InBuffer, zfp_compressed
<1> HIDE DEF z, b, p, w, q, h
<1>6. q \in Nat /\ q * w \in Nat /\ q * w >= b /\ (b % w = 0 => q * w = b) /\ (q * w = b => b % w = 0)
  <2>1. b + w - 1 \in Nat
    BY <1>1, <1>4
  <2>2. /\ q \in Nat /\ (b + w - 1) % w \in 0 .. w - 1
        /\ b + w - 1 = q * w + ((b + w - 1) % w)
    BY <1>1, <2>1, DivisionOf DEF q
  <2>3. q * w \in Nat
    BY <1>1, <2>2
  <2>4. q * w >= b
    BY <1>1, <1>4, <2>2, <2>3
  <2>5. ASSUME b % w = 0 PROVE q * w = b
    <3> DEFINE k == b \div w
    <3>0. k \in Nat /\ b = k * w + (b % w)
      BY <1>1, <1>4, DivisionOf
    <3> HIDE DEF k
    <3>1. k \in Nat /\ b = k * w
      BY <1>1, <2>5, <3>0
    <3>2. b + w - 1 = k * w + (w - 1) /\ w - 1 \in 0 .. w - 1
      BY <1>1, <1>4, <3>1
    <3>3. (b + w - 1) \div w = k
      BY <1>1, <3>1, <3>2, Division
    <3> QED
      BY <3>1, <3>3 DEF q
  <2>6. ASSUME q * w = b PROVE b % w = 0
    <3>1. b = q * w + 0 /\ 0 \in 0 .. w - 1
      BY <1>1, <1>4, <2>6
    <3> QED
      BY <1>1, <2>2, <3>1, Division
  <2> QED
    BY <2>2, <2>3, <2>4, <2>5, <2>6
<1>7. q * w <= p <=> (b = p /\ p % w = 0)
  <2>1. ASSUME q * w <= p PROVE b = p /\ p % w = 0
    <3>1. b = p /\ q * w = b
      BY <1>4, <1>6, <2>1
    <3> QED
      BY <1>6, <3>1
  <2>2. ASSUME b = p, p % w = 0 PROVE q * w <= p
    BY <1>4, <1>6, <2>2
  <2> QED
    BY <2>1, <2>2
<1> QED
  BY <1>2, <1>3, <1>4, <1>5, <1>7 DEF w

(* A grid of blocks or chunks has one if it has a length of each. *)
LEMMA NoneEmpty ==
  ASSUME NEW x \in Nat, NEW y \in Nat, NEW z \in Nat
  PROVE  x * y * z > 0 <=> (x > 0 /\ y > 0 /\ z > 0)
<1> DEFINE p == x * y
<1>1. p \in Nat /\ (p > 0 <=> (x > 0 /\ y > 0))
  OBVIOUS
<1> HIDE DEF p
<1>2. p * z > 0 <=> (p > 0 /\ z > 0)
  BY <1>1
<1> QED
  BY <1>1, <1>2 DEF p

(* What an accepted array's layout adds up to. *)
LEMMA AcceptedReads ==
  ASSUME NEW args, AreArguments(args), NEW dtype, NEW shape, NEW chunk, IsArray(shape, chunk)
  PROVE  AcceptedIsReadable(args, dtype, shape, chunk)
<1> SUFFICES ASSUME Valid(args), validate(Codec(args), dtype, shape, chunk)
             PROVE  AcceptedIsReadable(args, dtype, shape, chunk)
  BY DEF AcceptedIsReadable
<1> DEFINE c == Codec(args)
           lt == Layout(c, shape, chunk)
           n == Len(c.layers)
           u == unit(c, chunk)
           B == blocks(chunk)
<1>1. /\ AreArguments(c) /\ Valid(c)
      /\ n \in Nat \ {0} /\ DOMAIN c.layers = 1 .. n
      /\ \A j \in 1 .. n : c.layers[j] \in Int /\ c.layers[j] > 0 /\ c.layers[j] % 2 = 0
      /\ \A j \in 1 .. n - 1 : c.layers[j] < c.layers[j + 1]
      /\ c.layers[n] = c.rate /\ c.rate \in Int /\ c.rate > 0 /\ c.rate % 2 = 0
  BY CodecIs
<1>2. validate(c, dtype, shape, chunk)
  OBVIOUS
<1> HIDE DEF c
<1>3. c.layers # <<>>
  BY <1>1
<1>4. from_dict(to_dict(c)) = c /\ SourceCodecMatches(c)
  BY <1>1, <1>3, CodecKept DEF SourceCodecMatches
<1>5. /\ Len(shape) = 3 /\ Len(chunk) = 3 /\ DOMAIN chunk = 1 .. 3 /\ dtype = "float32"
      /\ DOMAIN u = 1 .. 3
      /\ InBlocks(chunk) /\ Divides(u, chunk) /\ Divides(chunk, shape)
      /\ \A d \in 1 .. 3 :
           /\ shape[d] \in Nat /\ chunk[d] \in Nat \ {0} /\ u[d] \in Nat \ {0}
           /\ shape[d] % chunk[d] = 0 /\ chunk[d] % u[d] = 0
           /\ chunk[d] % BlockDim = 0 /\ u[d] % BlockDim = 0
  BY <1>1, <1>2, ShapesFit
<1> HIDE DEF u, B, n
<1>6. /\ B \in Nat \ {0}
      /\ B = (chunk[1] \div BlockDim) * (chunk[2] \div BlockDim) * (chunk[3] \div BlockDim)
      /\ blocks(u) = (u[1] \div BlockDim) * (u[2] \div BlockDim) * (u[3] \div BlockDim)
      /\ \A d \in 1 .. 3 : chunk[d] \div BlockDim \in Nat \ {0} /\ u[d] \div BlockDim \in Nat \ {0}
  <2>1. \A d \in 1 .. 3 : chunk[d] \in Nat \ {0} /\ chunk[d] % BlockDim = 0
    BY <1>5
  <2>2. \A d \in 1 .. 3 : u[d] \in Nat \ {0} /\ u[d] % BlockDim = 0
    BY <1>5
  <2>3. DOMAIN chunk = 1 .. 3 /\ DOMAIN u = 1 .. 3
    BY <1>5
  <2> QED
    BY <2>1, <2>2, <2>3, BlocksOf DEF B
<1>7. /\ data_size(c, chunk) = B * (c.rate \div 2) /\ data_size(c, chunk) > 0
      /\ data_size(c, chunk) % B = 0 /\ data_size(c, chunk) \div B = c.rate \div 2
      /\ c.rate \div 2 \in Int
  <2>1. data_size(c, chunk) = (B * c.rate) \div 2
    BY DEF data_size, B
  <2>2. c.rate \in Int /\ c.rate > 0 /\ c.rate % 2 = 0 /\ B \in Nat \ {0}
    BY <1>1, <1>6
  <2>3. c.rate \div 2 \in Int
    BY <2>2
  <2>4. /\ (B * c.rate) \div 2 = B * (c.rate \div 2) /\ (B * c.rate) \div 2 > 0
        /\ ((B * c.rate) \div 2) % B = 0 /\ ((B * c.rate) \div 2) \div B = c.rate \div 2
    BY <2>2, PayloadInBlocks
  <2> QED
    BY <2>1, <2>3, <2>4
<1>8. chunk_shape_ok(c, dtype, chunk)
  BY <1>5 DEF chunk_shape_ok, u
<1>9. query_ok(c, shape, chunk)
  <2>1. c.block_dim > 0
    BY <1>1, BlockDimAssumption DEF Valid
  <2>2. data_size(c, chunk) % blocks(chunk) = 0 /\ blocks(chunk) > 0
    BY <1>6, <1>7 DEF B
  <2> QED
    BY <1>1, <1>5, <1>7, <2>1, <2>2 DEF query_ok
<1>10. /\ \A j \in 1 .. n : layer_bytes(c)[j] \in Int /\ layer_bytes(c)[j] > 0
       /\ SumFunctionOnSet(layer_bytes(c), 1 .. n - 1) \in Int
       /\ SumFunctionOnSet(layer_bytes(c), 1 .. n - 1) + layer_bytes(c)[n] = c.layers[n] \div 2
  <2>1. /\ n \in Nat \ {0} /\ DOMAIN c.layers = 1 .. n
        /\ \A j \in 1 .. n : c.layers[j] \in Int /\ c.layers[j] > 0 /\ c.layers[j] % 2 = 0
        /\ \A j \in 1 .. n - 1 : c.layers[j] < c.layers[j + 1]
    BY <1>1 DEF n
  <2> QED
    BY <2>1, LayersAddUp
<1>11. n \in Nat \ {0} /\ DOMAIN c.layers = 1 .. n /\ c.layers[n] = c.rate
  BY <1>1 DEF n
<1>12. lt.layer_starts[n] + B * layer_bytes(c)[n] = data_size(c, chunk)
  <2> DEFINE s == SumFunctionOnSet(layer_bytes(c), 1 .. n - 1)
             l == layer_bytes(c)[n]
             h == c.rate \div 2
  <2>1. lt.layer_starts = [j \in DOMAIN c.layers |->
                             B * SumFunctionOnSet(layer_bytes(c), 1 .. j - 1)]
    BY DEF Layout, B
  <2>2. n \in DOMAIN c.layers
    BY <1>11
  <2>3. lt.layer_starts[n] = B * s
    BY <2>1, <2>2
  <2>4. s \in Int /\ l \in Int /\ h \in Int /\ s + l = h /\ B \in Nat
    <3>1. n \in 1 .. n
      BY <1>11
    <3> QED
      BY <1>6, <1>7, <1>10, <1>11, <3>1
  <2>5. data_size(c, chunk) = B * h
    BY <1>7
  <2> HIDE DEF s, l, h, lt
  <2>6. B * s + B * l = B * h
    BY <2>4
  <2> QED
    BY <2>3, <2>5, <2>6 DEF l
<1>13. lt.block_size * B = data_size(c, chunk)
  <2> DEFINE h == c.rate \div 2
  <2>1. lt.block_size = h
    BY <1>7 DEF Layout, B
  <2>2. h \in Int /\ B \in Nat /\ data_size(c, chunk) = B * h
    BY <1>6, <1>7
  <2> HIDE DEF h, lt
  <2> QED
    BY <2>1, <2>2
<1>14. Product(lt.unit_grid) * lt.blocks_per_unit = Product(lt.grid_shape) * B
  <2> DEFINE g(d) == shape[d] \div chunk[d]
             a(d) == chunk[d] \div u[d]
             w(d) == u[d] \div BlockDim
             q(d) == chunk[d] \div BlockDim
  <2>1. lt.unit_grid = [d \in 1 .. 3 |-> g(d) * a(d)]
    BY <1>5 DEF Layout, u
  <2>2. lt.grid_shape = [d \in 1 .. 3 |-> g(d)]
    BY <1>5 DEF Layout
  <2>3. lt.blocks_per_unit = w(1) * w(2) * w(3)
    BY <1>6 DEF Layout, u
  <2>4. \A d \in 1 .. 3 : /\ g(d) \in Int /\ a(d) \in Int /\ w(d) \in Int
                           /\ a(d) * w(d) = q(d)
    <3> SUFFICES ASSUME NEW d \in 1 .. 3
                 PROVE  g(d) \in Int /\ a(d) \in Int /\ w(d) \in Int /\ a(d) * w(d) = q(d)
      OBVIOUS
    <3>1. /\ shape[d] \in Nat /\ chunk[d] \in Nat \ {0} /\ u[d] \in Nat \ {0}
          /\ chunk[d] \in Nat /\ u[d] \in Nat
          /\ shape[d] % chunk[d] = 0 /\ chunk[d] % u[d] = 0
          /\ chunk[d] % BlockDim = 0 /\ u[d] % BlockDim = 0 /\ BlockDim \in Nat \ {0}
      BY <1>5, BlockDimAssumption
    <3>2. g(d) \in Int
      BY <3>1, Quotients
    <3>3. a(d) \in Int
      BY <3>1, Quotients
    <3>4. w(d) \in Int
      BY <3>1, Quotients
    <3>5. a(d) * w(d) = q(d)
      BY <3>1, PartsInBlocks
    <3> QED
      BY <3>2, <3>3, <3>4, <3>5
  <2>5. B = q(1) * q(2) * q(3)
    BY <1>6
  <2> HIDE DEF g, a, w, q, lt
  <2>6. Product(lt.unit_grid) = (g(1) * a(1)) * (g(2) * a(2)) * (g(3) * a(3))
    BY <2>1 DEF Product
  <2>7. Product(lt.grid_shape) = g(1) * g(2) * g(3)
    BY <2>2 DEF Product
  <2>8. ((g(1) * a(1)) * (g(2) * a(2)) * (g(3) * a(3))) * (w(1) * w(2) * w(3))
          = (g(1) * g(2) * g(3)) * ((a(1) * w(1)) * (a(2) * w(2)) * (a(3) * w(3)))
    BY <2>4, ProductsMeet
  <2>9. a(1) * w(1) = q(1) /\ a(2) * w(2) = q(2) /\ a(3) * w(3) = q(3)
    BY <2>4
  <2> QED
    BY <2>3, <2>5, <2>6, <2>7, <2>8, <2>9, Zenon
<1> HIDE DEF lt
<1>15. \A j \in DOMAIN c.layers : layer_bytes(c)[j] > 0
  BY <1>10, <1>11
<1>16. encode_ok(c, u) /\ meta_ok(c, u) <=> Keeps(c, u)
  <2> DEFINE b == blocks(u)
             R == ToSet(c.layers)
  <2>1. b \in Nat \ {0}
    <3>1. \A d \in 1 .. 3 : u[d] \in Nat \ {0} /\ u[d] % BlockDim = 0
      BY <1>5
    <3> QED
      BY <1>5, <3>1, BlocksOf
  <2>2. (\A r \in R : r \in Int /\ r > 0 /\ r % 2 = 0) /\ c.rate \in R
    BY <1>1, <1>11 DEF ToSet, n
  <2>3. data_size(c, u) % b = 0 /\ 2 * (data_size(c, u) \div b) = c.rate
    <3>1. ((b * c.rate) \div 2) % b = 0 /\ ((b * c.rate) \div 2) \div b = c.rate \div 2
      BY <2>1, <2>2, PayloadInBlocks
    <3>2. c.rate = 2 * (c.rate \div 2)
      BY <2>2, HalfOf
    <3> QED
      BY <3>1, <3>2 DEF data_size
  <2> HIDE DEF b, R
  <2>4. \A r \in R : InBuffer(b, r) <=> (4 * r >= LeastBits /\ (b * 4 * r) % WordBits = 0)
    <3> SUFFICES ASSUME NEW r \in R
                 PROVE  InBuffer(b, r) <=> (4 * r >= LeastBits /\ (b * 4 * r) % WordBits = 0)
      OBVIOUS
    <3>1. r \in Int /\ r > 0 /\ r % 2 = 0
      BY <2>2
    <3> QED
      BY <2>1, <3>1, FitsWhen
  <2>5. encode_ok(c, u) <=> InBuffer(b, c.rate)
    BY <2>3 DEF encode_ok, b
  <2>6. meta_ok(c, u) <=> \A r \in R : InBuffer(b, r)
    BY DEF meta_ok, b, R
  <2>7. Keeps(c, u) <=> \A r \in R : 4 * r >= LeastBits /\ (b * 4 * r) % WordBits = 0
    BY DEF Keeps, b, R
  <2> QED
    BY <2>2, <2>4, <2>5, <2>6, <2>7, Zenon
<1>17. plan_ok(lt) <=> \A d \in DOMAIN shape : shape[d] > 0
  <2> DEFINE g(d) == shape[d] \div chunk[d]
  <2>1. lt.grid_shape = [d \in 1 .. 3 |-> g(d)]
    BY <1>5 DEF Layout, lt
  <2>2. \A d \in 1 .. 3 : g(d) \in Nat /\ (g(d) > 0 <=> shape[d] > 0)
    <3> SUFFICES ASSUME NEW d \in 1 .. 3 PROVE g(d) \in Nat /\ (g(d) > 0 <=> shape[d] > 0)
      OBVIOUS
    <3>1. shape[d] \in Nat /\ chunk[d] \in Nat \ {0} /\ shape[d] % chunk[d] = 0
      BY <1>5
    <3>2. g(d) \in Nat /\ shape[d] = g(d) * chunk[d]
      BY <3>1, Quotients
    <3> HIDE DEF g
    <3>3. g(d) * chunk[d] > 0 <=> g(d) > 0
      BY <3>1, <3>2
    <3> QED
      BY <3>1, <3>2, <3>3
  <2>3. DOMAIN shape = 1 .. 3
    BY <1>5 DEF IsArray
  <2> HIDE DEF g, lt
  <2>4. Product(lt.grid_shape) = g(1) * g(2) * g(3)
    BY <2>1 DEF Product
  <2>5. g(1) * g(2) * g(3) > 0 <=> (g(1) > 0 /\ g(2) > 0 /\ g(3) > 0)
    BY <2>2, NoneEmpty
  <2> QED
    BY <2>2, <2>3, <2>4, <2>5 DEF plan_ok
<1> QED
  BY <1>1, <1>4, <1>8, <1>9, <1>12, <1>13, <1>14, <1>15, <1>16, <1>17
     DEF AcceptedIsReadable, c, lt, n, B, u

(* What __post_init__ and validate accept, chunk_shape, the query's layout *)
(* and its arithmetic on units, layers and blocks accept too; ZFP keeps    *)
(* its units within their payload, and the planner takes its grid, exactly *)
(* if rates, units and lengths are as Keeps and plan_ok say.  This for     *)
(* every codec, data type, array shape and chunk shape.                    *)
THEOREM AcceptedAlwaysReadable == AlgorithmsSpec => []AcceptedReadable
<1>1. GivenInput => AcceptedReadable
  <2> SUFFICES ASSUME GivenInput, Is("config") PROVE AcceptedReadable
    BY DEF AcceptedReadable
  <2>1. AreArguments(input.c) /\ IsArray(input.shape, input.chunk)
    BY ConfigAssumption DEF GivenInput, Is
  <2> QED
    BY <2>1, AcceptedReads DEF AcceptedReadable
<1> QED
  BY <1>1, InputsAreGiven, PTL

-----------------------------------------------------------------------------
(* Bytes and codes *)

(* Quotient and remainder of any number. *)
LEMMA Remainder ==
  ASSUME NEW d \in Nat \ {0}, NEW n \in Int
  PROVE  n \div d \in Int /\ n % d \in 0 .. d - 1 /\ n = (n \div d) * d + (n % d)
  OBVIOUS
LEMMA RemainderIs ==
  ASSUME NEW d \in Nat \ {0}, NEW q \in Int, NEW r \in 0 .. d - 1
  PROVE  (q * d + r) % d = r
  OBVIOUS

(* A byte is its own remainder. *)
LEMMA ByteIs ==
  /\ ByteValues \in Nat \ {0} /\ 0 \in Bytes
  /\ \A y \in Bytes : y \in Int /\ Mod(y) = y
<1>1. ByteValues \in Nat \ {0}
  <2>1. CodeValues * CodeValues \in Nat \ {0} /\ ByteValues = CodeValues * CodeValues
    BY BytesAssumption, Positive
  <2> QED
    BY <2>1
<1>2. ASSUME NEW y \in Bytes PROVE y \in Int /\ Mod(y) = y
  <2>1. y \in 0 .. ByteValues - 1 /\ y = 0 * ByteValues + y
    BY <1>1 DEF Bytes
  <2>2. (0 * ByteValues + y) % ByteValues = y
    BY <1>1, <2>1, RemainderIs
  <2> QED
    BY <1>1, <2>1, <2>2 DEF Mod
<1> QED
  BY <1>1, <1>2 DEF Bytes

(* A byte is found again from what was added to it, modulo the bytes. *)
LEMMA ByteSteps ==
  ASSUME NEW s \in Int, NEW y \in Bytes, NEW z \in Bytes, Mod(s) = y
  PROVE  /\ Mod(z - y) \in Int /\ Mod(z - y) \in Bytes
         /\ Mod(s + Mod(z - y)) = z /\ Mod(Mod(z - y) + s) = z
<1> DEFINE V == ByteValues
           j == s \div V
           w == z - y
           k == w \div V
           r == w % V
<1>1. V \in Nat \ {0} /\ z \in 0 .. V - 1 /\ y \in Int /\ z \in Int /\ w \in Int
  BY ByteIs DEF Bytes
<1>2. Mod(w) = r /\ s % V = y
  BY DEF Mod
<1> HIDE DEF V, w
<1>3. j \in Int /\ s = j * V + y
  BY <1>1, <1>2, Remainder
<1>4. k \in Int /\ r \in 0 .. V - 1 /\ w = k * V + r
  BY <1>1, Remainder
<1> HIDE DEF j, k, r
<1>5. r \in Int /\ s + r = (j - k) * V + z /\ r + s = s + r
  <2>1. z - y = k * V + r
    BY <1>4 DEF w
  <2>2. (j - k) * V = j * V - k * V /\ j * V \in Int /\ k * V \in Int /\ r \in Int
    BY <1>1, <1>3, <1>4
  <2> QED
    BY <1>1, <1>3, <2>1, <2>2
<1>6. ((j - k) * V + z) % V = z
  <2>1. j - k \in Int
    BY <1>3, <1>4
  <2> QED
    BY <1>1, <2>1, RemainderIs
<1>7. (s + r) % V = z /\ (r + s) % V = z
  BY <1>5, <1>6
<1> QED
  BY <1>2, <1>4, <1>5, <1>7 DEF Mod, Bytes, V, w

(* Codes are found again in the bytes that two of them share. *)
LEMMA CodesUnpack ==
  ASSUME NEW q \in Seq(Codes)
  PROVE  /\ pack_codes(q) \in Seq(Int) /\ Len(pack_codes(q)) = (Len(q) + 1) \div 2
         /\ unpack_codes(pack_codes(q), Len(q)) = q
<1> DEFINE n == Len(q)
           p == pack_codes(q)
           w == unpack_codes(p, n)
<1>1. CodeValues \in Nat \ {0} /\ n \in Nat /\ DOMAIN q = 1 .. n
  BY BytesAssumption
<1>2. \A i \in Int : Code(q, i) \in Nat /\ Code(q, i) \in 0 .. CodeValues - 1
  BY <1>1 DEF Code, Codes
<1>3. \A i \in 1 .. n : Code(q, i) = q[i]
  BY <1>1 DEF Code
<1>4. p = [i \in 1 .. (n + 1) \div 2 |-> Code(q, 2 * i - 1) + CodeValues * Code(q, 2 * i)]
  BY DEF pack_codes
<1>5. ASSUME NEW a \in 0 .. CodeValues - 1, NEW b \in 0 .. CodeValues - 1
      PROVE  /\ a + CodeValues * b \in Int
             /\ (a + CodeValues * b) % CodeValues = a
             /\ (a + CodeValues * b) \div CodeValues = b
  <2>1. a \in Nat /\ b \in Nat /\ a + CodeValues * b = b * CodeValues + a
    BY <1>1
  <2>2. (b * CodeValues + a) \div CodeValues = b /\ (b * CodeValues + a) % CodeValues = a
    BY <1>1, <2>1, Division
  <2>3. a + CodeValues * b \in Int
    BY <1>1, <2>1
  <2> QED
    BY <2>1, <2>2, <2>3
<1> DEFINE m == (n + 1) \div 2
<1>6. m \in Nat /\ \A i \in 1 .. m : i \in Int /\ 2 * i - 1 \in Int /\ 2 * i \in Int
  BY <1>1
<1> HIDE DEF p, n
<1>7. \A i \in 1 .. m : /\ p[i] \in Int
                         /\ p[i] % CodeValues = Code(q, 2 * i - 1)
                         /\ p[i] \div CodeValues = Code(q, 2 * i)
  <2> SUFFICES ASSUME NEW i \in 1 .. m
               PROVE  /\ p[i] \in Int
                      /\ p[i] % CodeValues = Code(q, 2 * i - 1)
                      /\ p[i] \div CodeValues = Code(q, 2 * i)
    OBVIOUS
  <2> DEFINE a == Code(q, 2 * i - 1)
             b == Code(q, 2 * i)
  <2>1. p[i] = a + CodeValues * b
    BY <1>4
  <2>2. a \in 0 .. CodeValues - 1 /\ b \in 0 .. CodeValues - 1
    BY <1>2, <1>6
  <2> HIDE DEF a, b
  <2>3. /\ a + CodeValues * b \in Int
        /\ (a + CodeValues * b) % CodeValues = a
        /\ (a + CodeValues * b) \div CodeValues = b
    BY <1>5, <2>2
  <2>4. p[i] \in Int /\ p[i] % CodeValues = a /\ p[i] \div CodeValues = b
    BY <2>1, <2>3
  <2> QED
    BY <2>4 DEF a, b
<1>8. p \in Seq(Int) /\ Len(p) = m
  <2> DEFINE v(i) == Code(q, 2 * i - 1) + CodeValues * Code(q, 2 * i)
  <2>1. p = [i \in 1 .. m |-> v(i)]
    BY <1>4
  <2>2. \A i \in 1 .. m : v(i) \in Int
    BY <1>7, <1>4
  <2> HIDE DEF v, m
  <2>3. [i \in 1 .. m |-> v(i)] \in Seq(Int) /\ Len([i \in 1 .. m |-> v(i)]) = m
    BY <1>6, <2>2
  <2> QED
    BY <2>1, <2>3
<1>9. w = q
  <2>1. w = [i \in 1 .. n |-> IF i % 2 = 1 THEN p[(i + 1) \div 2] % CodeValues
                              ELSE p[i \div 2] \div CodeValues]
    BY DEF unpack_codes
  <2>2. ASSUME NEW i \in 1 .. n PROVE w[i] = q[i]
    <3>1. CASE i % 2 = 1
      <4>1. (i + 1) \div 2 \in 1 .. m /\ 2 * ((i + 1) \div 2) - 1 = i
        BY <1>1, <3>1 DEF n
      <4>2. w[i] = p[(i + 1) \div 2] % CodeValues
        BY <2>1, <3>1
      <4>3. p[(i + 1) \div 2] % CodeValues = Code(q, 2 * ((i + 1) \div 2) - 1)
        BY <1>7, <4>1
      <4>4. Code(q, i) = q[i]
        BY <1>3 DEF n
      <4> QED
        BY <4>1, <4>2, <4>3, <4>4
    <3>2. CASE i % 2 # 1
      <4>1. i \div 2 \in 1 .. m /\ 2 * (i \div 2) = i
        BY <1>1, <3>2 DEF n
      <4>2. w[i] = p[i \div 2] \div CodeValues
        BY <2>1, <3>2
      <4>3. p[i \div 2] \div CodeValues = Code(q, 2 * (i \div 2))
        BY <1>7, <4>1
      <4>4. Code(q, i) = q[i]
        BY <1>3 DEF n
      <4> QED
        BY <4>1, <4>2, <4>3, <4>4
    <3> QED
      BY <3>1, <3>2
  <2> DEFINE v(i) == IF i % 2 = 1 THEN p[(i + 1) \div 2] % CodeValues
                     ELSE p[i \div 2] \div CodeValues
  <2>3. w = [i \in 1 .. n |-> w[i]] /\ q = [i \in 1 .. n |-> q[i]]
    <3>1. w = [i \in 1 .. n |-> v(i)]
      BY <2>1
    <3> HIDE DEF v, w
    <3>2. w = [i \in 1 .. n |-> w[i]]
      BY <3>1
    <3>3. q = [i \in 1 .. n |-> q[i]]
      BY <1>1 DEF n
    <3> QED
      BY <3>2, <3>3
  <2> HIDE DEF w
  <2> QED
    BY <2>2, <2>3
<1> QED
  BY <1>8, <1>9 DEF p, n, w

(* A first minimum and differences of bytes add up to each minimum again. *)
StepsOf(dmin, q, B, o) ==
  /\ B \in Nat /\ o \in Nat
  /\ \A b \in 1 .. B : q[b] \in Bytes /\ dmin[o + b] = Mod(q[b] - IF b = 1 THEN 0 ELSE q[b - 1])
LEMMA MinimaFold ==
  ASSUME NEW B, NEW o, NEW dmin, NEW q, StepsOf(dmin, q, B, o)
  PROVE  \A b \in 1 .. B : Mod(SumFunctionOnSet(dmin, o + 1 .. o + b)) = q[b]
<1> /\ B \in Nat /\ o \in Nat
    /\ \A b \in 1 .. B : q[b] \in Bytes
    /\ \A b \in 1 .. B : dmin[o + b] = Mod(q[b] - IF b = 1 THEN 0 ELSE q[b - 1])
  BY DEF StepsOf
<1> DEFINE P(b) == o + 1 .. o + b
           before(b) == IF b = 1 THEN 0 ELSE q[b - 1]
           T == {b \in 1 .. B : Mod(SumOf(dmin, P(b))) # q[b]}
<1>1. ByteValues \in Nat \ {0} /\ 0 \in Bytes /\ Mod(0) = 0
  BY ByteIs
<1>2. \A b \in 1 .. B : before(b) \in Bytes
  <2> SUFFICES ASSUME NEW b \in 1 .. B PROVE before(b) \in Bytes
    OBVIOUS
  <2>1. b # 1 => b - 1 \in 1 .. B
    OBVIOUS
  <2> QED
    BY <1>1, <2>1
<1>3. \A b \in 1 .. B : dmin[o + b] = Mod(q[b] - before(b))
  OBVIOUS
<1> HIDE DEF before
<1>4. \A b \in 1 .. B : dmin[o + b] \in Int
  <2> SUFFICES ASSUME NEW b \in 1 .. B PROVE dmin[o + b] \in Int
    OBVIOUS
  <2>1. Mod(before(b)) = before(b)
    BY <1>2, ByteIs
  <2>2. before(b) \in Int /\ before(b) \in Bytes /\ q[b] \in Bytes
    BY <1>2, ByteIs
  <2> DEFINE y == before(b)
             z == q[b]
  <2>3. y \in Int /\ y \in Bytes /\ z \in Bytes /\ Mod(y) = y
    BY <2>1, <2>2
  <2> HIDE DEF y, z
  <2>4. Mod(z - y) \in Int
    BY <2>3, ByteSteps
  <2> QED
    BY <1>3, <2>4 DEF y, z
<1>5. ASSUME NEW b \in 1 .. B
      PROVE  /\ SumOf(dmin, P(b)) = dmin[o + b] + SumOf(dmin, P(b - 1))
             /\ SumOf(dmin, P(b - 1)) \in Int
  <2>1. P(b) = P(b - 1) \cup {o + b} /\ o + b \notin P(b - 1)
    OBVIOUS
  <2>2. IsFiniteSet(P(b - 1))
    <3>1. o + 1 \in Int /\ o + (b - 1) \in Int
      OBVIOUS
    <3> QED
      BY <3>1, FS_Interval
  <2>3. ASSUME NEW x \in P(b) PROVE dmin[x] \in Int
    <3>1. x - o \in 1 .. B /\ o + (x - o) = x
      OBVIOUS
    <3>2. dmin[o + (x - o)] \in Int
      BY <1>4, <3>1
    <3> QED
      BY <3>1, <3>2
  <2> HIDE DEF P
  <2>4. Integers(dmin, P(b)) /\ Integers(dmin, P(b - 1))
    BY <2>1, <2>3 DEF Integers
  <2> DEFINE S == P(b - 1)
             x == o + b
  <2>5. IsFiniteSet(S) /\ x \notin S /\ Integers(dmin, S \cup {x}) /\ Integers(dmin, S)
    BY <2>1, <2>2, <2>4
  <2>6. P(b) = S \cup {x}
    BY <2>1
  <2> HIDE DEF S, x
  <2>7. SumOf(dmin, S \cup {x}) = dmin[x] + SumOf(dmin, S) /\ SumOf(dmin, S) \in Int
    BY <2>5, SumJoin, SumType
  <2> QED
    BY <2>6, <2>7 DEF S, x
<1>6. T = {}
  <2> SUFFICES ASSUME T # {} PROVE FALSE
    OBVIOUS
  <2>1. T \subseteq Nat
    OBVIOUS
  <2>2. PICK b \in T : \A j \in T : b <= j
    <3> HIDE DEF T
    <3> QED
      BY <2>1, LeastExists
  <2>3. b \in 1 .. B /\ Mod(SumOf(dmin, P(b))) # q[b]
    BY <2>2
  <2> DEFINE s == SumOf(dmin, P(b - 1))
             y == before(b)
             z == q[b]
  <2>4. s \in Int /\ y \in Bytes /\ z \in Bytes
    BY <1>2, <1>5, <2>3
  <2>5. Mod(s) = y
    <3>1. CASE b = 1
      <4>1. P(b - 1) = {}
        BY <3>1
      <4>2. s = 0
        <5> HIDE DEF P
        <5> QED
          BY <4>1, SumOfNone
      <4> HIDE DEF s
      <4> QED
        BY <1>1, <3>1, <4>2 DEF before
    <3>2. CASE b # 1
      <4>1. b - 1 \in 1 .. B /\ ~(b <= b - 1)
        BY <2>3, <3>2
      <4>2. Mod(SumOf(dmin, P(b - 1))) = q[b - 1]
        BY <2>2, <4>1
      <4> QED
        BY <3>2, <4>2 DEF before
    <3> QED
      BY <3>1, <3>2
  <2>6. SumOf(dmin, P(b)) = Mod(z - y) + s
    BY <1>3, <1>5, <2>3
  <2> HIDE DEF s, y, z, T
  <2>7. Mod(Mod(z - y) + s) = z
    BY <2>4, <2>5, ByteSteps
  <2> QED
    BY <2>3, <2>6, <2>7 DEF z
<1>7. \A b \in 1 .. B : Mod(SumOf(dmin, P(b))) = q[b]
  BY <1>6
<1> QED
  BY <1>7 DEF SumOf

-----------------------------------------------------------------------------
(* Records *)

(* Four lists of numbers joined, and the parts that they were. *)
FourJoined(w, a, b, c, d) ==
  /\ w \in Seq(Int) /\ Len(w) = Len(a) + Len(b) + Len(c) + Len(d)
  /\ \A x \in 1 .. Len(a) + 1 : \A y \in x - 1 .. Len(a) : SubSeq(w, x, y) = SubSeq(a, x, y)
  /\ SubSeq(w, Len(a) + 1, Len(a) + Len(b)) = b
  /\ SubSeq(w, Len(a) + Len(b) + 1, Len(a) + Len(b) + Len(c)) = c
  /\ \A x \in 1 .. Len(d) + 1 : \A y \in x - 1 .. Len(d) :
       SubSeq(w, Len(a) + Len(b) + Len(c) + x, Len(a) + Len(b) + Len(c) + y) = SubSeq(d, x, y)
LEMMA FourParts ==
  ASSUME NEW a \in Seq(Int), NEW b \in Seq(Int), NEW c \in Seq(Int), NEW d \in Seq(Int)
  PROVE  FourJoined(((a \o b) \o c) \o d, a, b, c, d)
<1> DEFINE e == a \o b
           f == e \o c
           w == f \o d
<1>1. Len(a) \in Nat /\ Len(b) \in Nat /\ Len(c) \in Nat /\ Len(d) \in Nat
  OBVIOUS
<1>2. e \in Seq(Int) /\ Len(e) = Len(a) + Len(b)
  BY Joined
<1>3. \A x \in 1 .. Len(a) + 1 : \A y \in x - 1 .. Len(a) : SubSeq(e, x, y) = SubSeq(a, x, y)
  BY PartOfFirst
<1>4. SubSeq(e, Len(a) + 1, Len(a) + Len(b)) = b
  <2>1. 1 \in 1 .. Len(b) + 1 /\ Len(b) \in 1 - 1 .. Len(b)
    BY <1>1
  <2>2. SubSeq(a \o b, Len(a) + 1, Len(a) + Len(b)) = SubSeq(b, 1, Len(b))
    BY <2>1, PartOfSecond
  <2> QED
    BY <2>2, AllOfList
<1> HIDE DEF e
<1>5. f \in Seq(Int) /\ Len(f) = Len(e) + Len(c)
  BY <1>2, Joined
<1>6. \A x \in 1 .. Len(e) + 1 : \A y \in x - 1 .. Len(e) : SubSeq(f, x, y) = SubSeq(e, x, y)
  BY <1>2, PartOfFirst
<1>7. SubSeq(f, Len(e) + 1, Len(e) + Len(c)) = c
  <2>1. 1 \in 1 .. Len(c) + 1 /\ Len(c) \in 1 - 1 .. Len(c)
    BY <1>1
  <2>2. SubSeq(e \o c, Len(e) + 1, Len(e) + Len(c)) = SubSeq(c, 1, Len(c))
    BY <1>2, <2>1, PartOfSecond
  <2> QED
    BY <2>2, AllOfList
<1> HIDE DEF f
<1>8. w \in Seq(Int) /\ Len(w) = Len(f) + Len(d)
  BY <1>5, Joined
<1>9. \A x \in 1 .. Len(f) + 1 : \A y \in x - 1 .. Len(f) : SubSeq(w, x, y) = SubSeq(f, x, y)
  BY <1>5, PartOfFirst
<1>10. \A x \in 1 .. Len(d) + 1 : \A y \in x - 1 .. Len(d) :
         SubSeq(w, Len(f) + x, Len(f) + y) = SubSeq(d, x, y)
  BY <1>5, PartOfSecond
<1> HIDE DEF w
<1>11. Len(e) \in Nat /\ Len(f) \in Nat
  BY <1>1, <1>2, <1>5
<1>12. \A x \in 1 .. Len(a) + 1 : \A y \in x - 1 .. Len(a) : SubSeq(w, x, y) = SubSeq(a, x, y)
  <2> SUFFICES ASSUME NEW x \in 1 .. Len(a) + 1, NEW y \in x - 1 .. Len(a)
               PROVE  SubSeq(w, x, y) = SubSeq(a, x, y)
    OBVIOUS
  <2>1. x \in 1 .. Len(e) + 1 /\ y \in x - 1 .. Len(e) /\ x \in 1 .. Len(f) + 1 /\ y \in x - 1 .. Len(f)
    BY <1>1, <1>2, <1>5
  <2> QED
    BY <1>3, <1>6, <1>9, <2>1
<1>13. SubSeq(w, Len(a) + 1, Len(a) + Len(b)) = b
  <2> DEFINE x == Len(a) + 1
             y == Len(a) + Len(b)
  <2>1. x \in 1 .. Len(e) + 1 /\ y \in x - 1 .. Len(e) /\ x \in 1 .. Len(f) + 1 /\ y \in x - 1 .. Len(f)
    BY <1>1, <1>2, <1>5
  <2>2. SubSeq(e, x, y) = b
    BY <1>4
  <2> HIDE DEF x, y
  <2>3. SubSeq(w, x, y) = b
    BY <1>6, <1>9, <2>1, <2>2
  <2> QED
    BY <2>3 DEF x, y
<1>14. SubSeq(w, Len(a) + Len(b) + 1, Len(a) + Len(b) + Len(c)) = c
  <2> DEFINE x == Len(e) + 1
             y == Len(e) + Len(c)
  <2>1. x \in 1 .. Len(f) + 1 /\ y \in x - 1 .. Len(f)
    BY <1>1, <1>5, <1>11
  <2>2. SubSeq(f, x, y) = c
    BY <1>7
  <2>3. x = Len(a) + Len(b) + 1 /\ y = Len(a) + Len(b) + Len(c)
    BY <1>2
  <2> HIDE DEF x, y
  <2>4. SubSeq(w, x, y) = c
    BY <1>9, <2>1, <2>2
  <2> QED
    BY <2>3, <2>4
<1>15. Len(f) = Len(a) + Len(b) + Len(c)
  BY <1>2, <1>5
<1>16. \A x \in 1 .. Len(d) + 1 : \A y \in x - 1 .. Len(d) :
         SubSeq(w, Len(a) + Len(b) + Len(c) + x, Len(a) + Len(b) + Len(c) + y) = SubSeq(d, x, y)
  BY <1>10, <1>15
<1>17. FourJoined(w, a, b, c, d)
  BY <1>8, <1>12, <1>13, <1>14, <1>15, <1>16 DEF FourJoined
<1> QED
  BY <1>17 DEF w, f, e

(* A list is its first, its middle and its last part. *)
MiddleOf(mid, s, a, b, c) ==
  /\ a \in Nat /\ b \in Nat /\ c \in Nat /\ s \in Seq(Int) /\ Len(s) = a + b + c
  /\ mid \in Seq(Int) /\ Len(mid) = b /\ \A k \in 1 .. b : mid[k] = s[a + k]
Threefold(s, mid, a, b, c) == (SubSeq(s, 1, a) \o mid) \o SubSeq(s, a + b + 1, a + b + c)
LEMMA ThreeParts ==
  ASSUME NEW s, NEW a, NEW b, NEW c, NEW mid, MiddleOf(mid, s, a, b, c)
  PROVE  Threefold(s, mid, a, b, c) = s
<1> /\ a \in Nat /\ b \in Nat /\ c \in Nat /\ s \in Seq(Int) /\ Len(s) = a + b + c
    /\ mid \in Seq(Int) /\ Len(mid) = b /\ \A k \in 1 .. b : mid[k] = s[a + k]
  BY DEF MiddleOf
<1> DEFINE p == SubSeq(s, 1, a)
           x == a + b + 1
           y == a + b + c
           q == SubSeq(s, x, y)
           m == p \o mid
           w == m \o q
<1>1. p \in Seq(Int) /\ Len(p) = a /\ \A i \in 1 .. a : p[i] = s[i]
  <2>1. 1 \in 1 .. Len(s) + 1 /\ a \in 1 - 1 .. Len(s)
    OBVIOUS
  <2>2. /\ p \in Seq(Int) /\ Len(p) = a - 1 + 1
        /\ \A i \in 1 .. a - 1 + 1 : p[i] = s[1 - 1 + i]
    BY <2>1, PartOfList
  <2> HIDE DEF p
  <2> QED
    BY <2>2
<1>2. q \in Seq(Int) /\ Len(q) = c /\ \A i \in 1 .. c : q[i] = s[a + b + i]
  <2>1. x \in 1 .. Len(s) + 1 /\ y \in x - 1 .. Len(s) /\ y - x + 1 = c /\ x - 1 = a + b
    OBVIOUS
  <2> HIDE DEF x, y
  <2>2. q \in Seq(Int) /\ Len(q) = y - x + 1 /\ \A i \in 1 .. y - x + 1 : q[i] = s[x - 1 + i]
    <3>1. s \in Seq(Int) /\ x \in 1 .. Len(s) + 1 /\ y \in x - 1 .. Len(s)
      BY <2>1
    <3>2. SubSeq(s, x, y) \in Seq(Int) /\ Len(SubSeq(s, x, y)) = y - x + 1
      BY <3>1, PartOfList
    <3>3. ASSUME NEW i \in 1 .. y - x + 1 PROVE SubSeq(s, x, y)[i] = s[x - 1 + i]
      BY <3>1, PartOfList
    <3> QED
      BY <3>2, <3>3
  <2> HIDE DEF q
  <2> QED
    BY <2>1, <2>2
<1> HIDE DEF p, q
<1>3. /\ m \in Seq(Int) /\ Len(m) = a + b
      /\ \A i \in 1 .. a : m[i] = p[i]
      /\ \A i \in 1 .. b : m[a + i] = mid[i]
  <2>1. /\ m \in Seq(Int) /\ Len(m) = Len(p) + Len(mid) /\ \A i \in 1 .. Len(p) : m[i] = p[i]
        /\ \A i \in 1 .. Len(mid) : m[Len(p) + i] = mid[i]
    <3>1. m \in Seq(Int) /\ Len(m) = Len(p) + Len(mid)
      BY <1>1, Joined
    <3>2. ASSUME NEW i \in 1 .. Len(p) PROVE m[i] = p[i]
      BY <1>1, Joined
    <3>3. ASSUME NEW i \in 1 .. Len(mid) PROVE m[Len(p) + i] = mid[i]
      <4>1. p \in Seq(Int) /\ mid \in Seq(Int)
        BY <1>1
      <4>2. JoinOf(m, p, mid)
        BY <4>1, JoinedNumbers
      <4> HIDE DEF m
      <4> QED
        BY <4>2 DEF JoinOf
    <3> HIDE DEF m
    <3> QED
      BY <3>1, <3>2, <3>3
  <2> QED
    BY <1>1, <2>1
<1> HIDE DEF m
<1>4. /\ w \in Seq(Int) /\ Len(w) = a + b + c
      /\ \A i \in 1 .. a + b : w[i] = m[i]
      /\ \A i \in 1 .. c : w[a + b + i] = q[i]
  <2>1. /\ w \in Seq(Int) /\ Len(w) = Len(m) + Len(q) /\ \A i \in 1 .. Len(m) : w[i] = m[i]
        /\ \A i \in 1 .. Len(q) : w[Len(m) + i] = q[i]
    <3>1. w \in Seq(Int) /\ Len(w) = Len(m) + Len(q)
      BY <1>2, <1>3, Joined
    <3>2. ASSUME NEW i \in 1 .. Len(m) PROVE w[i] = m[i]
      BY <1>2, <1>3, Joined
    <3>3. ASSUME NEW i \in 1 .. Len(q) PROVE w[Len(m) + i] = q[i]
      <4>1. m \in Seq(Int) /\ q \in Seq(Int)
        BY <1>2, <1>3
      <4> QED
        BY <4>1, Joined
    <3> HIDE DEF w
    <3> QED
      BY <3>1, <3>2, <3>3
  <2> QED
    BY <1>2, <1>3, <2>1
<1> HIDE DEF w
<1>5. \A i \in 1 .. Len(w) : w[i] = s[i]
  <2> SUFFICES ASSUME NEW i \in 1 .. a + b + c PROVE w[i] = s[i]
    BY <1>4
  <2>1. CASE i <= a
    BY <1>1, <1>3, <1>4, <2>1
  <2>2. CASE a < i /\ i <= a + b
    <3>1. i - a \in 1 .. b /\ a + (i - a) = i /\ i \in 1 .. a + b
      BY <2>2
    <3>2. m[a + (i - a)] = mid[i - a] /\ mid[i - a] = s[a + (i - a)]
      BY <1>3, <3>1
    <3> QED
      BY <1>4, <3>1, <3>2
  <2>3. CASE a + b < i
    <3>1. i - (a + b) \in 1 .. c /\ a + b + (i - (a + b)) = i
      BY <2>3
    <3>2. w[a + b + (i - (a + b))] = q[i - (a + b)]
      BY <1>4, <3>1
    <3>3. q[i - (a + b)] = s[a + b + (i - (a + b))]
      BY <1>2, <3>1
    <3> QED
      BY <3>1, <3>2, <3>3
  <2> QED
    BY <2>1, <2>2, <2>3
<1>6. w = s
  BY <1>4, <1>5, SameList
<1> QED
  BY <1>6, Zenon DEF Threefold, w, m, p, q, x, y

(* The records of an object, as far as their packing is concerned. *)
AreRecords(rec, n, lead, B, C) ==
  /\ n \in Nat \ {0} /\ lead \in Nat /\ B \in Nat /\ C \in Nat
  /\ rec = [i \in 1 .. n |-> rec[i]] /\ DOMAIN rec = 1 .. n /\ Len(rec) = n
  /\ \A i \in 1 .. n : rec[i] \in Seq(Int) /\ Len(rec[i]) = lead + 2 * B + C
  /\ \A i \in 1 .. n, k \in 1 .. 2 * B : rec[i][lead + k] \in Bytes

(* What the differences and the widths of a record are. *)
DifferencesOf(r, lead, B) ==
  [b \in 1 .. B |-> Mod(Minimum(r, lead, b) - IF b = 1 THEN 0 ELSE Minimum(r, lead, b - 1))]
WidthsOf(r, lead, B) ==
  [b \in 1 .. B |-> Mod(r[lead + 2 * b] - Minimum(r, lead, b))]

(* The bounds of a record's blocks. *)
LEMMA BoundsOfBlocks ==
  ASSUME NEW rec, NEW n, NEW lead, NEW B, NEW C, AreRecords(rec, n, lead, B, C),
         NEW i \in 1 .. n, NEW b \in 1 .. B
  PROVE  /\ Minimum(rec[i], lead, b) \in Bytes
         /\ Minimum(rec[i], lead, b) = rec[i][lead + (2 * b - 1)]
         /\ rec[i][lead + 2 * b] \in Bytes
<1>1. lead \in Nat /\ B \in Nat
  BY DEF AreRecords
<1>2. 2 * b - 1 \in 1 .. 2 * B /\ 2 * b \in 1 .. 2 * B
  BY <1>1
<1>3. lead + 2 * b - 1 = lead + (2 * b - 1)
  BY <1>1
<1>4. Minimum(rec[i], lead, b) = rec[i][lead + (2 * b - 1)]
  BY <1>3 DEF Minimum
<1>5. \A k \in 1 .. 2 * B : rec[i][lead + k] \in Bytes
  BY DEF AreRecords
<1> QED
  BY <1>2, <1>4, <1>5

(* Differences and widths are bytes. *)
LEMMA DifferencesAreBytes ==
  ASSUME NEW rec, NEW n, NEW lead, NEW B, NEW C, AreRecords(rec, n, lead, B, C),
         NEW i \in 1 .. n
  PROVE  /\ DifferencesOf(rec[i], lead, B) \in Seq(Int)
         /\ Len(DifferencesOf(rec[i], lead, B)) = B
         /\ WidthsOf(rec[i], lead, B) \in Seq(Int) /\ Len(WidthsOf(rec[i], lead, B)) = B
<1> DEFINE r == rec[i]
           before(b) == IF b = 1 THEN 0 ELSE Minimum(r, lead, b - 1)
           f(b) == Mod(Minimum(r, lead, b) - before(b))
           g(b) == Mod(r[lead + 2 * b] - Minimum(r, lead, b))
<1>1. B \in Nat
  BY DEF AreRecords
<1>2. \A b \in 1 .. B : Minimum(r, lead, b) \in Bytes /\ r[lead + 2 * b] \in Bytes
  BY BoundsOfBlocks
<1> HIDE DEF r
<1>3. \A b \in 1 .. B : before(b) \in Bytes
  <2> SUFFICES ASSUME NEW b \in 1 .. B PROVE before(b) \in Bytes
    OBVIOUS
  <2>1. b # 1 => b - 1 \in 1 .. B
    BY <1>1
  <2> QED
    BY <1>2, <2>1, ByteIs
<1> HIDE DEF before
<1>4. ASSUME NEW y \in Bytes, NEW z \in Bytes PROVE Mod(z - y) \in Int
  <2>1. y \in Int /\ Mod(y) = y
    BY ByteIs
  <2> QED
    BY <2>1, ByteSteps
<1>5. \A b \in 1 .. B : f(b) \in Int /\ g(b) \in Int
  BY <1>2, <1>3, <1>4
<1>6. DifferencesOf(r, lead, B) = [b \in 1 .. B |-> f(b)]
  BY DEF DifferencesOf, before
<1>7. WidthsOf(r, lead, B) = [b \in 1 .. B |-> g(b)]
  BY DEF WidthsOf
<1> HIDE DEF f, g
<1>8. /\ [b \in 1 .. B |-> f(b)] \in Seq(Int) /\ Len([b \in 1 .. B |-> f(b)]) = B
      /\ [b \in 1 .. B |-> g(b)] \in Seq(Int) /\ Len([b \in 1 .. B |-> g(b)]) = B
  BY <1>1, <1>5
<1> QED
  BY <1>6, <1>7, <1>8 DEF r

(* The four parts of packed records. *)
Leads(rec, lead) == FlattenSeq([i \in DOMAIN rec |-> SubSeq(rec[i], 1, lead)])
AllDifferences(rec, lead, B) == FlattenSeq([i \in DOMAIN rec |-> DifferencesOf(rec[i], lead, B)])
AllWidths(rec, lead, B) == FlattenSeq([i \in DOMAIN rec |-> WidthsOf(rec[i], lead, B)])
Tails(rec, lead, B) ==
  FlattenSeq([i \in DOMAIN rec |-> SubSeq(rec[i], lead + 2 * B + 1, Len(rec[i]))])

(* Packing joins them. *)
LEMMA PackingIs ==
  ASSUME NEW rec, NEW lead, NEW B
  PROVE  pack_meta(rec, lead, B)
           = ((Leads(rec, lead) \o AllDifferences(rec, lead, B)) \o AllWidths(rec, lead, B))
               \o Tails(rec, lead, B)
<1>1. Column(rec, 1, lead) = Leads(rec, lead)
  BY Zenon DEF Column, Leads
<1> DEFINE d(r) == [b \in 1 .. B |->
                      Mod(Minimum(r, lead, b) - IF b = 1 THEN 0 ELSE Minimum(r, lead, b - 1))]
           w(r) == [b \in 1 .. B |-> Mod(r[lead + 2 * b] - Minimum(r, lead, b))]
<1>2. /\ FlattenSeq([i \in DOMAIN rec |-> d(rec[i])]) = AllDifferences(rec, lead, B)
      /\ FlattenSeq([i \in DOMAIN rec |-> w(rec[i])]) = AllWidths(rec, lead, B)
  BY Zenon DEF AllDifferences, DifferencesOf, AllWidths, WidthsOf
<1>3. pack_meta(rec, lead, B)
        = Column(rec, 1, lead) \o FlattenSeq([i \in DOMAIN rec |-> d(rec[i])])
            \o FlattenSeq([i \in DOMAIN rec |-> w(rec[i])])
            \o FlattenSeq([i \in DOMAIN rec |-> SubSeq(rec[i], lead + 2 * B + 1, Len(rec[i]))])
  BY Zenon DEF pack_meta
<1> HIDE DEF d, w
<1> QED
  BY <1>1, <1>2, <1>3, Zenon DEF Tails

(* What stands where in them. *)
PartsAre(a, b, c, d, rec, n, lead, B, C) ==
  /\ a \in Seq(Int) /\ Len(a) = n * lead /\ b \in Seq(Int) /\ Len(b) = n * B
  /\ c \in Seq(Int) /\ Len(c) = n * B /\ d \in Seq(Int) /\ Len(d) = n * C
  /\ \A i \in 1 .. n :
       /\ SubSeq(a, (i - 1) * lead + 1, i * lead) = SubSeq(rec[i], 1, lead)
       /\ SubSeq(d, (i - 1) * C + 1, i * C) = SubSeq(rec[i], lead + 2 * B + 1, lead + 2 * B + C)
       /\ \A k \in 1 .. B :
            /\ b[(i - 1) * B + k] = DifferencesOf(rec[i], lead, B)[k]
            /\ c[(i - 1) * B + k] = WidthsOf(rec[i], lead, B)[k]
LEMMA PartsOfPacking ==
  ASSUME NEW rec, NEW n, NEW lead, NEW B, NEW C, AreRecords(rec, n, lead, B, C)
  PROVE  PartsAre(Leads(rec, lead), AllDifferences(rec, lead, B), AllWidths(rec, lead, B),
                  Tails(rec, lead, B), rec, n, lead, B, C)
<1>1. /\ n \in Nat \ {0} /\ lead \in Nat /\ B \in Nat /\ C \in Nat /\ DOMAIN rec = 1 .. n
      /\ \A i \in 1 .. n : rec[i] \in Seq(Int) /\ Len(rec[i]) = lead + 2 * B + C
  BY DEF AreRecords
<1> DEFINE fa == [i \in 1 .. n |-> SubSeq(rec[i], 1, lead)]
           fb == [i \in 1 .. n |-> DifferencesOf(rec[i], lead, B)]
           fc == [i \in 1 .. n |-> WidthsOf(rec[i], lead, B)]
           fd == [i \in 1 .. n |-> SubSeq(rec[i], lead + 2 * B + 1, Len(rec[i]))]
<1>2. /\ DOMAIN fa = 1 .. n /\ Len(fa) = n /\ DOMAIN fb = 1 .. n /\ Len(fb) = n
      /\ DOMAIN fc = 1 .. n /\ Len(fc) = n /\ DOMAIN fd = 1 .. n /\ Len(fd) = n
  BY <1>1
<1>3. \A i \in 1 .. n :
        /\ fa[i] = SubSeq(rec[i], 1, lead) /\ fb[i] = DifferencesOf(rec[i], lead, B)
        /\ fc[i] = WidthsOf(rec[i], lead, B)
        /\ fd[i] = SubSeq(rec[i], lead + 2 * B + 1, lead + 2 * B + C)
  BY <1>1
<1>4. /\ Leads(rec, lead) = FlattenSeq(fa) /\ AllDifferences(rec, lead, B) = FlattenSeq(fb)
      /\ AllWidths(rec, lead, B) = FlattenSeq(fc) /\ Tails(rec, lead, B) = FlattenSeq(fd)
  BY <1>1, Zenon DEF Leads, AllDifferences, AllWidths, Tails
<1> HIDE DEF fa, fb, fc, fd
<1>5. \A i \in 1 .. n : fa[i] \in Seq(Int) /\ Len(fa[i]) = lead
  <2> SUFFICES ASSUME NEW i \in 1 .. n PROVE fa[i] \in Seq(Int) /\ Len(fa[i]) = lead
    OBVIOUS
  <2> DEFINE r == rec[i]
  <2>1. r \in Seq(Int) /\ 1 \in 1 .. Len(r) + 1 /\ lead \in 1 - 1 .. Len(r) /\ lead - 1 + 1 = lead
    BY <1>1
  <2> HIDE DEF r
  <2>2. SubSeq(r, 1, lead) \in Seq(Int) /\ Len(SubSeq(r, 1, lead)) = lead - 1 + 1
    BY <2>1, PartOfList
  <2> QED
    BY <1>3, <2>1, <2>2 DEF r
<1>6. \A i \in 1 .. n : fd[i] \in Seq(Int) /\ Len(fd[i]) = C
  <2> SUFFICES ASSUME NEW i \in 1 .. n PROVE fd[i] \in Seq(Int) /\ Len(fd[i]) = C
    OBVIOUS
  <2> DEFINE r == rec[i]
             x == lead + 2 * B + 1
             y == lead + 2 * B + C
  <2>1. r \in Seq(Int) /\ x \in 1 .. Len(r) + 1 /\ y \in x - 1 .. Len(r) /\ y - x + 1 = C
    BY <1>1
  <2>2. fd[i] = SubSeq(r, x, y)
    BY <1>3
  <2> HIDE DEF r, x, y
  <2>3. SubSeq(r, x, y) \in Seq(Int) /\ Len(SubSeq(r, x, y)) = y - x + 1
    BY <2>1, PartOfList
  <2> QED
    BY <2>1, <2>2, <2>3
<1>7. \A i \in 1 .. n : /\ fb[i] \in Seq(Int) /\ Len(fb[i]) = B
                         /\ fc[i] \in Seq(Int) /\ Len(fc[i]) = B
  BY <1>3, DifferencesAreBytes
<1>8. Alike(fa, n, lead) /\ Alike(fb, n, B) /\ Alike(fc, n, B) /\ Alike(fd, n, C)
  BY <1>1, <1>2, <1>5, <1>6, <1>7 DEF Alike
<1>9. /\ InARow(Leads(rec, lead), fa, n, lead) /\ InARow(AllDifferences(rec, lead, B), fb, n, B)
      /\ InARow(AllWidths(rec, lead, B), fc, n, B) /\ InARow(Tails(rec, lead, B), fd, n, C)
  BY <1>4, <1>8, FlattenedInARow
<1> DEFINE a == Leads(rec, lead)
           b == AllDifferences(rec, lead, B)
           c == AllWidths(rec, lead, B)
           d == Tails(rec, lead, B)
<1> HIDE DEF a, b, c, d
<1>10. /\ a \in Seq(Int) /\ Len(a) = n * lead /\ b \in Seq(Int) /\ Len(b) = n * B
       /\ c \in Seq(Int) /\ Len(c) = n * B /\ d \in Seq(Int) /\ Len(d) = n * C
  BY <1>9 DEF InARow, a, b, c, d
<1>11. ASSUME NEW i \in 1 .. n
       PROVE  /\ SubSeq(a, (i - 1) * lead + 1, i * lead) = fa[i]
              /\ SubSeq(d, (i - 1) * C + 1, i * C) = fd[i]
              /\ \A k \in 1 .. B :
                   b[(i - 1) * B + k] = fb[i][k] /\ c[(i - 1) * B + k] = fc[i][k]
  BY <1>9, Zenon DEF InARow, a, b, c, d
<1>12. ASSUME NEW i \in 1 .. n
       PROVE  /\ SubSeq(a, (i - 1) * lead + 1, i * lead) = SubSeq(rec[i], 1, lead)
              /\ SubSeq(d, (i - 1) * C + 1, i * C)
                   = SubSeq(rec[i], lead + 2 * B + 1, lead + 2 * B + C)
              /\ \A k \in 1 .. B :
                   /\ b[(i - 1) * B + k] = DifferencesOf(rec[i], lead, B)[k]
                   /\ c[(i - 1) * B + k] = WidthsOf(rec[i], lead, B)[k]
  BY <1>3, <1>11, Zenon
<1>13. PartsAre(a, b, c, d, rec, n, lead, B, C)
  BY <1>10, <1>12, Zenon DEF PartsAre
<1> QED
  BY <1>13 DEF a, b, c, d

(* A record's bounds are read back from its differences and widths. *)
LEMMA BoundsFold ==
  ASSUME NEW rec, NEW n, NEW lead, NEW B, NEW C, AreRecords(rec, n, lead, B, C),
         NEW i \in 1 .. n, NEW dmin, NEW width,
         \A b \in 1 .. B : /\ dmin[(i - 1) * B + b] = DifferencesOf(rec[i], lead, B)[b]
                           /\ width[(i - 1) * B + b] = WidthsOf(rec[i], lead, B)[b]
  PROVE  \A b \in 1 .. B :
           /\ MinimumFolded(dmin, B, i, b) = rec[i][lead + (2 * b - 1)]
           /\ Mod(MinimumFolded(dmin, B, i, b) + width[(i - 1) * B + b]) = rec[i][lead + 2 * b]
<1> DEFINE q == [b \in 1 .. B |-> Minimum(rec[i], lead, b)]
           o == (i - 1) * B
<1>1. B \in Nat /\ n \in Nat /\ o \in Nat
  <2>1. B \in Nat /\ n \in Nat
    BY DEF AreRecords
  <2>2. i - 1 \in Nat
    BY <2>1
  <2> QED
    BY <2>1, <2>2
<1>2. \A b \in 1 .. B : /\ q[b] \in Bytes /\ q[b] = rec[i][lead + (2 * b - 1)]
                         /\ q[b] = Minimum(rec[i], lead, b) /\ rec[i][lead + 2 * b] \in Bytes
  BY BoundsOfBlocks
<1> HIDE DEF q, o
<1>3. ASSUME NEW b \in 1 .. B
      PROVE  dmin[o + b] = Mod(q[b] - IF b = 1 THEN 0 ELSE q[b - 1])
  <2>1. dmin[o + b] = DifferencesOf(rec[i], lead, B)[b]
    BY DEF o
  <2>2. DifferencesOf(rec[i], lead, B)[b]
          = Mod(Minimum(rec[i], lead, b) - IF b = 1 THEN 0 ELSE Minimum(rec[i], lead, b - 1))
    BY DEF DifferencesOf
  <2>3. b # 1 => q[b - 1] = Minimum(rec[i], lead, b - 1)
    <3>1. b # 1 => b - 1 \in 1 .. B
      BY <1>1
    <3> QED
      BY <1>2, <3>1
  <2>4. CASE b = 1
    BY <1>2, <2>1, <2>2, <2>4
  <2>5. CASE b # 1
    BY <1>2, <2>1, <2>2, <2>3, <2>5
  <2> QED
    BY <2>4, <2>5
<1>4. \A b \in 1 .. B : Mod(SumFunctionOnSet(dmin, o + 1 .. o + b)) = q[b]
  <2>1. StepsOf(dmin, q, B, o)
    BY <1>1, <1>2, <1>3 DEF StepsOf
  <2> QED
    BY <2>1, MinimaFold
<1>5. ASSUME NEW b \in 1 .. B
      PROVE  /\ MinimumFolded(dmin, B, i, b) = q[b]
             /\ Mod(q[b] + width[o + b]) = rec[i][lead + 2 * b]
  <2>1. MinimumFolded(dmin, B, i, b) = q[b]
    BY <1>4 DEF MinimumFolded, o
  <2> DEFINE y == q[b]
             z == rec[i][lead + 2 * b]
  <2>2. width[o + b] = Mod(z - y)
    BY <1>2 DEF WidthsOf, o
  <2>3. y \in Bytes /\ z \in Bytes
    BY <1>2
  <2> HIDE DEF y, z
  <2>4. y \in Int /\ Mod(y) = y
    BY <2>3, ByteIs
  <2>5. Mod(y + Mod(z - y)) = z
    BY <2>3, <2>4, ByteSteps
  <2>6. Mod(y + width[o + b]) = z
    BY <2>2, <2>5
  <2> QED
    BY <2>1, <2>6 DEF y, z
<1> QED
  BY <1>2, <1>5 DEF o

(* A row that unpack_meta makes. *)
UnpackedRow(buf, size, n, lead, B, i) ==
  LET tail == size - lead - 2 * B
      dmin == SubSeq(buf, n * lead + 1, n * (lead + B))
      width == SubSeq(buf, n * (lead + B) + 1, n * (lead + 2 * B))
      end == n * (lead + 2 * B)
  IN  SubSeq(buf, (i - 1) * lead + 1, i * lead)
        \o [k \in 1 .. 2 * B |->
              LET b == (k + 1) \div 2
              IN  IF k % 2 = 1 THEN MinimumFolded(dmin, B, i, b)
                  ELSE Mod(MinimumFolded(dmin, B, i, b) + width[(i - 1) * B + b])]
        \o SubSeq(buf, end + (i - 1) * tail + 1, end + i * tail)

(* The bytes that unpack_meta looks at are the parts that were joined. *)
FoundIn(buf, b, c, rec, n, lead, B, C) ==
  /\ buf \in Seq(Int) /\ Len(buf) = n * (lead + 2 * B + C)
  /\ SubSeq(buf, n * lead + 1, n * (lead + B)) = b
  /\ SubSeq(buf, n * (lead + B) + 1, n * (lead + 2 * B)) = c
  /\ \A i \in 1 .. n :
       /\ SubSeq(buf, (i - 1) * lead + 1, i * lead) = SubSeq(rec[i], 1, lead)
       /\ SubSeq(buf, n * (lead + 2 * B) + (i - 1) * C + 1, n * (lead + 2 * B) + i * C)
            = SubSeq(rec[i], lead + 2 * B + 1, lead + 2 * B + C)
LEMMA PartsFound ==
  ASSUME NEW rec, NEW n, NEW lead, NEW B, NEW C, AreRecords(rec, n, lead, B, C)
  PROVE  FoundIn(pack_meta(rec, lead, B), AllDifferences(rec, lead, B), AllWidths(rec, lead, B),
                 rec, n, lead, B, C)
<1> DEFINE buf == pack_meta(rec, lead, B)
           a == Leads(rec, lead)
           b == AllDifferences(rec, lead, B)
           c == AllWidths(rec, lead, B)
           d == Tails(rec, lead, B)
<1>1. n \in Nat \ {0} /\ lead \in Nat /\ B \in Nat /\ C \in Nat
  BY DEF AreRecords
<1>2. /\ a \in Seq(Int) /\ Len(a) = n * lead /\ b \in Seq(Int) /\ Len(b) = n * B
      /\ c \in Seq(Int) /\ Len(c) = n * B /\ d \in Seq(Int) /\ Len(d) = n * C
      /\ \A i \in 1 .. n :
           /\ SubSeq(a, (i - 1) * lead + 1, i * lead) = SubSeq(rec[i], 1, lead)
           /\ SubSeq(d, (i - 1) * C + 1, i * C)
                = SubSeq(rec[i], lead + 2 * B + 1, lead + 2 * B + C)
  <2>1. PartsAre(a, b, c, d, rec, n, lead, B, C)
    BY PartsOfPacking
  <2> HIDE DEF a, b, c, d
  <2> QED
    BY <2>1, Zenon DEF PartsAre
<1>3. buf = ((a \o b) \o c) \o d
  BY PackingIs
<1> HIDE DEF buf, a, b, c, d
<1> DEFINE x == Len(a) + Len(b) + Len(c)
<1>4. FourJoined(buf, a, b, c, d)
  <2>1. FourJoined(((a \o b) \o c) \o d, a, b, c, d)
    BY <1>2, FourParts
  <2> QED
    BY <1>3, <2>1, Zenon
<1>5. /\ buf \in Seq(Int) /\ Len(buf) = Len(a) + Len(b) + Len(c) + Len(d)
      /\ SubSeq(buf, Len(a) + 1, Len(a) + Len(b)) = b
      /\ SubSeq(buf, Len(a) + Len(b) + 1, Len(a) + Len(b) + Len(c)) = c
      /\ \A y \in 1 .. Len(a) + 1 : \A z \in y - 1 .. Len(a) : SubSeq(buf, y, z) = SubSeq(a, y, z)
  BY <1>4 DEF FourJoined
<1>6. ASSUME NEW y \in 1 .. Len(d) + 1, NEW z \in y - 1 .. Len(d)
      PROVE  SubSeq(buf, x + y, x + z) = SubSeq(d, y, z)
  BY <1>4, Zenon DEF FourJoined
<1>7. /\ n * (lead + B) = n * lead + n * B /\ n * (lead + 2 * B) = n * lead + n * B + n * B
      /\ n * (lead + 2 * B + C) = n * lead + n * B + n * B + n * C
      /\ n * lead \in Nat /\ n * B \in Nat /\ n * C \in Nat
  BY <1>1
<1>8. x = n * (lead + 2 * B)
  BY <1>2, <1>7
<1>9. ASSUME NEW l \in Nat, NEW i \in 1 .. n
      PROVE  /\ (i - 1) * l + 1 \in 1 .. n * l + 1
             /\ i * l \in (i - 1) * l + 1 - 1 .. n * l
  <2>1. i * l <= n * l /\ 0 * l <= (i - 1) * l
    BY <1>1, ProductGrows
  <2>2. i * l = (i - 1) * l + l /\ (i - 1) * l \in Int /\ n * l \in Int /\ 0 * l = 0
    BY <1>1
  <2> DEFINE u == (i - 1) * l
             v == i * l
             w == n * l
  <2>3. u \in Int /\ w \in Int /\ v = u + l /\ v <= w /\ 0 <= u
    BY <2>1, <2>2
  <2> HIDE DEF u, v, w
  <2>4. u + 1 \in 1 .. w + 1 /\ v \in u + 1 - 1 .. w
    BY <2>3
  <2> QED
    BY <2>4 DEF u, v, w
<1>10. ASSUME NEW i \in 1 .. n
       PROVE  SubSeq(buf, (i - 1) * lead + 1, i * lead) = SubSeq(rec[i], 1, lead)
  <2> DEFINE y == (i - 1) * lead + 1
             z == i * lead
  <2>1. y \in 1 .. Len(a) + 1 /\ z \in y - 1 .. Len(a)
    BY <1>1, <1>2, <1>9
  <2>2. SubSeq(a, y, z) = SubSeq(rec[i], 1, lead)
    BY <1>2
  <2> HIDE DEF y, z
  <2>3. SubSeq(buf, y, z) = SubSeq(rec[i], 1, lead)
    BY <1>5, <2>1, <2>2
  <2> QED
    BY <2>3 DEF y, z
<1>11. ASSUME NEW i \in 1 .. n
       PROVE  SubSeq(buf, n * (lead + 2 * B) + (i - 1) * C + 1, n * (lead + 2 * B) + i * C)
                = SubSeq(rec[i], lead + 2 * B + 1, lead + 2 * B + C)
  <2> DEFINE y == (i - 1) * C + 1
             z == i * C
  <2>1. y \in 1 .. Len(d) + 1 /\ z \in y - 1 .. Len(d)
    BY <1>1, <1>2, <1>9
  <2>2. SubSeq(d, y, z) = SubSeq(rec[i], lead + 2 * B + 1, lead + 2 * B + C)
    BY <1>2
  <2>3. n * (lead + 2 * B) + (i - 1) * C + 1 = x + y /\ n * (lead + 2 * B) + i * C = x + z
    <3> DEFINE u == (i - 1) * C
    <3>1. u \in Int /\ x \in Int
      BY <1>1, <1>7, <1>8
    <3> HIDE DEF u, x
    <3>2. x + u + 1 = x + (u + 1)
      BY <3>1
    <3> QED
      BY <1>8, <3>2 DEF u
  <2> HIDE DEF x, y, z
  <2>4. SubSeq(buf, x + y, x + z) = SubSeq(d, y, z)
    BY <1>6, <2>1
  <2> QED
    BY <2>2, <2>3, <2>4, Zenon
<1>12. /\ Len(buf) = n * (lead + 2 * B + C)
       /\ SubSeq(buf, n * lead + 1, n * (lead + B)) = b
       /\ SubSeq(buf, n * (lead + B) + 1, n * (lead + 2 * B)) = c
  BY <1>2, <1>5, <1>7
<1>13. FoundIn(buf, b, c, rec, n, lead, B, C)
  BY <1>5, <1>10, <1>11, <1>12, Zenon DEF FoundIn
<1> QED
  BY <1>13 DEF buf, b, c

(* Each row is the record that was packed. *)
LEMMA RowUnpacked ==
  ASSUME NEW rec, NEW n, NEW lead, NEW B, NEW C, AreRecords(rec, n, lead, B, C), NEW i \in 1 .. n
  PROVE  UnpackedRow(pack_meta(rec, lead, B), lead + 2 * B + C, n, lead, B, i) = rec[i]
<1> DEFINE buf == pack_meta(rec, lead, B)
           dmin == AllDifferences(rec, lead, B)
           width == AllWidths(rec, lead, B)
           size == lead + 2 * B + C
           r == rec[i]
           entry(k) == LET b == (k + 1) \div 2
                       IN  IF k % 2 = 1 THEN MinimumFolded(dmin, B, i, b)
                           ELSE Mod(MinimumFolded(dmin, B, i, b) + width[(i - 1) * B + b])
           mid == [k \in 1 .. 2 * B |-> entry(k)]
<1>1. /\ n \in Nat \ {0} /\ lead \in Nat /\ B \in Nat /\ C \in Nat
      /\ r \in Seq(Int) /\ Len(r) = lead + 2 * B + C
      /\ \A k \in 1 .. 2 * B : r[lead + k] \in Bytes
  BY DEF AreRecords
<1>2. size - lead - 2 * B = C
  BY <1>1
<1>3. /\ SubSeq(buf, n * lead + 1, n * (lead + B)) = dmin
      /\ SubSeq(buf, n * (lead + B) + 1, n * (lead + 2 * B)) = width
      /\ SubSeq(buf, (i - 1) * lead + 1, i * lead) = SubSeq(r, 1, lead)
      /\ SubSeq(buf, n * (lead + 2 * B) + (i - 1) * C + 1, n * (lead + 2 * B) + i * C)
           = SubSeq(r, lead + 2 * B + 1, lead + 2 * B + C)
  <2>1. FoundIn(buf, dmin, width, rec, n, lead, B, C)
    BY PartsFound
  <2> HIDE DEF buf, dmin, width
  <2> QED
    BY <2>1, Zenon DEF FoundIn
<1>4. \A b \in 1 .. B : /\ dmin[(i - 1) * B + b] = DifferencesOf(rec[i], lead, B)[b]
                         /\ width[(i - 1) * B + b] = WidthsOf(rec[i], lead, B)[b]
  <2>1. PartsAre(Leads(rec, lead), dmin, width, Tails(rec, lead, B), rec, n, lead, B, C)
    BY PartsOfPacking
  <2> HIDE DEF dmin, width
  <2> QED
    BY <2>1, Zenon DEF PartsAre
<1> HIDE DEF buf, dmin, width, size
<1>5. \A b \in 1 .. B :
        /\ MinimumFolded(dmin, B, i, b) = r[lead + (2 * b - 1)]
        /\ Mod(MinimumFolded(dmin, B, i, b) + width[(i - 1) * B + b]) = r[lead + 2 * b]
  BY <1>4, BoundsFold
<1> HIDE DEF r
<1>6. ASSUME NEW k \in 1 .. 2 * B PROVE entry(k) = r[lead + k]
  <2> DEFINE b == (k + 1) \div 2
  <2>1. b \in 1 .. B
    BY <1>1
  <2>2. CASE k % 2 = 1
    <3>1. 2 * b - 1 = k
      BY <2>2
    <3>2. entry(k) = MinimumFolded(dmin, B, i, b)
      BY <2>2
    <3> HIDE DEF b, entry
    <3> QED
      BY <1>5, <2>1, <3>1, <3>2
  <2>3. CASE k % 2 # 1
    <3>1. 2 * b = k
      BY <2>3
    <3>2. entry(k) = Mod(MinimumFolded(dmin, B, i, b) + width[(i - 1) * B + b])
      BY <2>3
    <3> HIDE DEF b, entry
    <3> QED
      BY <1>5, <2>1, <3>1, <3>2
  <2> QED
    BY <2>2, <2>3
<1>7. UnpackedRow(buf, size, n, lead, B, i)
        = (SubSeq(r, 1, lead) \o mid) \o SubSeq(r, lead + 2 * B + 1, lead + 2 * B + C)
  BY <1>2, <1>3, Zenon DEF UnpackedRow
<1> HIDE DEF entry
<1>8. /\ mid \in Seq(Int) /\ Len(mid) = 2 * B
      /\ \A k \in 1 .. 2 * B : mid[k] = r[lead + k]
  <2> DEFINE m == 2 * B
  <2>1. m \in Nat /\ \A k \in 1 .. m : entry(k) = r[lead + k] /\ r[lead + k] \in Int
    BY <1>1, <1>6, ByteIs
  <2> HIDE DEF m
  <2>2. /\ [k \in 1 .. m |-> entry(k)] \in Seq(Int) /\ Len([k \in 1 .. m |-> entry(k)]) = m
        /\ \A k \in 1 .. m : [j \in 1 .. m |-> entry(j)][k] = r[lead + k]
    BY <2>1
  <2> QED
    BY <2>2 DEF m
<1> HIDE DEF mid
<1>9. (SubSeq(r, 1, lead) \o mid) \o SubSeq(r, lead + 2 * B + 1, lead + 2 * B + C) = r
  <2> DEFINE m == 2 * B
  <2>1. /\ m \in Nat /\ Len(r) = lead + m + C /\ mid \in Seq(Int) /\ Len(mid) = m
        /\ \A k \in 1 .. m : mid[k] = r[lead + k]
    BY <1>1, <1>8
  <2> HIDE DEF m
  <2>2. Threefold(r, mid, lead, m, C) = r
    <3>1. MiddleOf(mid, r, lead, m, C)
      BY <1>1, <2>1 DEF MiddleOf
    <3> QED
      BY <3>1, ThreeParts
  <2> QED
    BY <2>2, Zenon DEF m, Threefold
<1> QED
  BY <1>7, <1>9 DEF buf, size, r

(* Unpacking gives the records back. *)
LEMMA RecordsUnpack ==
  ASSUME NEW rec, NEW n, NEW lead, NEW B, NEW C, AreRecords(rec, n, lead, B, C),
         NEW size \in Nat \ {0}, size = lead + 2 * B + C
  PROVE  /\ pack_meta(rec, lead, B) \in Seq(Int) /\ Len(pack_meta(rec, lead, B)) = n * size
         /\ unpack_meta(pack_meta(rec, lead, B), size, lead, B) = rec
<1> DEFINE buf == pack_meta(rec, lead, B)
<1>1. n \in Nat \ {0} /\ n \in Nat /\ rec = [i \in 1 .. n |-> rec[i]]
  BY DEF AreRecords
<1>2. buf \in Seq(Int) /\ Len(buf) = n * size
  BY PartsFound DEF FoundIn
<1>3. \A i \in 1 .. n : UnpackedRow(buf, size, n, lead, B, i) = rec[i]
  BY RowUnpacked
<1> HIDE DEF buf
<1>4. Len(buf) \div size = n
  <2>1. (n * size + 0) \div size = n
    BY <1>1, Division
  <2>2. n * size + 0 = n * size
    BY <1>1
  <2> QED
    BY <1>2, <2>1, <2>2
<1>5. unpack_meta(buf, size, lead, B)
        = [i \in 1 .. Len(buf) \div size |->
             UnpackedRow(buf, size, Len(buf) \div size, lead, B, i)]
  BY Zenon DEF unpack_meta, UnpackedRow
<1>6. unpack_meta(buf, size, lead, B) = [i \in 1 .. n |-> UnpackedRow(buf, size, n, lead, B, i)]
  BY <1>4, <1>5, Zenon
<1>7. [i \in 1 .. n |-> UnpackedRow(buf, size, n, lead, B, i)] = [i \in 1 .. n |-> rec[i]]
  BY <1>3
<1>8. unpack_meta(buf, size, lead, B) = rec
  BY <1>1, <1>6, <1>7, Zenon
<1> QED
  BY <1>2, <1>8 DEF buf

(* What a query finds behind the bytes that it read. *)
LEMMA RowsAreRecords ==
  ASSUME NEW rec, NEW n, NEW lead, NEW B, NEW C, AreRecords(rec, n, lead, B, C),
         NEW size \in Nat \ {0}, size = lead + 2 * B + C, NEW padding \in Seq(Int)
  PROVE  Rows(SubSeq(unpack_records(pack_meta(rec, lead, B) \o padding, size, n, lead, B),
                     1, n * size), size) = rec
<1> DEFINE p == pack_meta(rec, lead, B)
           stored == p \o padding
           f == FlattenSeq(rec)
           m == n * size
<1>1. n \in Nat \ {0} /\ n \in Nat /\ rec = [i \in 1 .. n |-> rec[i]] /\ m \in Nat
  BY DEF AreRecords
<1>2. p \in Seq(Int) /\ Len(p) = m /\ unpack_meta(p, size, lead, B) = rec
  BY RecordsUnpack
<1>3. Alike(rec, n, size)
  BY DEF AreRecords, Alike
<1>4. InARow(f, rec, n, size)
  BY <1>3, FlattenedInARow
<1> HIDE DEF p, f
<1>5. /\ f \in Seq(Int) /\ Len(f) = m
      /\ \A i \in 1 .. n : SubSeq(f, (i - 1) * size + 1, i * size) = rec[i]
  BY <1>4 DEF InARow
<1> HIDE DEF m
<1>6. SubSeq(stored, 1, m) = p
  <2>1. 1 \in 1 .. Len(p) + 1 /\ m \in 1 - 1 .. Len(p)
    BY <1>1, <1>2
  <2>2. SubSeq(p \o padding, 1, m) = SubSeq(p, 1, m)
    BY <1>2, <2>1, PartOfFirst
  <2>3. SubSeq(p, 1, Len(p)) = p
    BY <1>2, AllOfList
  <2> QED
    BY <1>2, <2>2, <2>3
<1> DEFINE rest == SubSeq(stored, m + 1, Len(stored))
<1>7. rest \in Seq(Int)
  <2>1. JoinOf(stored, p, padding)
    BY <1>2, JoinedNumbers
  <2> HIDE DEF stored
  <2>2. stored \in Seq(Int) /\ Len(stored) = m + Len(padding) /\ Len(padding) \in Nat
    BY <1>2, <2>1 DEF JoinOf
  <2>3. m + 1 \in 1 .. Len(stored) + 1 /\ Len(stored) \in m + 1 - 1 .. Len(stored)
    BY <1>1, <2>2
  <2> QED
    BY <2>2, <2>3, PartOfList
<1>8. unpack_records(stored, size, n, lead, B) = f \o rest
  <2>1. unpack_records(stored, size, n, lead, B)
          = FlattenSeq(unpack_meta(SubSeq(stored, 1, m), size, lead, B)) \o rest
    BY Zenon DEF unpack_records, m
  <2> HIDE DEF rest, stored
  <2> QED
    BY <1>2, <1>6, <2>1, Zenon DEF f
<1> HIDE DEF rest, stored
<1>9. SubSeq(f \o rest, 1, m) = f
  <2>1. 1 \in 1 .. Len(f) + 1 /\ m \in 1 - 1 .. Len(f)
    BY <1>1, <1>5
  <2>2. SubSeq(f \o rest, 1, m) = SubSeq(f, 1, m)
    BY <1>5, <1>7, <2>1, PartOfFirst
  <2>3. SubSeq(f, 1, Len(f)) = f
    BY <1>5, AllOfList
  <2> QED
    BY <1>5, <2>2, <2>3
<1>10. Rows(f, size) = rec
  <2>1. Len(f) \div size = n
    <3>1. (n * size + 0) \div size = n
      BY <1>1, Division
    <3>2. n * size + 0 = n * size
      BY <1>1
    <3> QED
      BY <1>5, <3>1, <3>2 DEF m
  <2>2. Rows(f, size) = [i \in 1 .. n |-> SubSeq(f, (i - 1) * size + 1, i * size)]
    BY <2>1, Zenon DEF Rows
  <2>3. [i \in 1 .. n |-> SubSeq(f, (i - 1) * size + 1, i * size)] = [i \in 1 .. n |-> rec[i]]
    BY <1>5
  <2> QED
    BY <1>1, <2>2, <2>3, Zenon
<1> QED
  BY <1>8, <1>9, <1>10, Zenon DEF stored, p, m

-----------------------------------------------------------------------------
(* Units *)

(* A unit of m layers, B blocks and K codes. *)
UnitIs(u, m, B, K) ==
  /\ m \in Nat \ {0} /\ B \in Nat \ {0} /\ K \in Nat
  /\ u \in [low : Bytes, high : Bytes, eps : Seq(Bytes),
             qmin : Seq(Bytes), qmax : Seq(Bytes), codes : Seq(Codes)]
  /\ Len(u.eps) = m /\ Len(u.qmin) = B /\ Len(u.qmax) = B /\ Len(u.codes) = K

(* Bytes are numbers. *)
LEMMA BytesAreNumbers ==
  ASSUME NEW s \in Seq(Bytes)
  PROVE  s \in Seq(Int) /\ \A i \in 1 .. Len(s) : s[i] \in Bytes
<1>1. Bytes \subseteq Int
  BY ByteIs
<1>2. \A i \in 1 .. Len(s) : s[i] \in Bytes
  OBVIOUS
<1>3. s = [i \in 1 .. Len(s) |-> s[i]] /\ Len(s) \in Nat
  OBVIOUS
<1>4. \A i \in 1 .. Len(s) : s[i] \in Int
  BY <1>1, <1>2
<1> DEFINE n == Len(s)
<1>5. n \in Nat /\ s = [i \in 1 .. n |-> s[i]] /\ \A i \in 1 .. n : s[i] \in Int
  BY <1>3, <1>4
<1> HIDE DEF n
<1>6. [i \in 1 .. n |-> s[i]] \in Seq(Int)
  BY <1>5
<1>7. s \in Seq(Int)
  BY <1>5, <1>6, Zenon
<1> QED
  BY <1>2, <1>7

(* The three parts of a unit's record. *)
LEMMA PartsOfRecord ==
  ASSUME NEW u, NEW m, NEW B, NEW K, UnitIs(u, m, B, K)
  PROVE  /\ <<u.low, u.high>> \in Seq(Int) /\ u.eps \in Seq(Int)
         /\ Lead(u) \in Seq(Int) /\ Len(Lead(u)) = 2 + m
         /\ SubSeq(Lead(u), 1, 2) = <<u.low, u.high>>
         /\ \A l \in 1 .. m : Lead(u)[2 + l] = u.eps[l] /\ u.eps[l] \in Bytes
         /\ Offsets(u) \in Seq(Int) /\ Len(Offsets(u)) = 2 * B
         /\ \A k \in 1 .. 2 * B : Offsets(u)[k] \in Bytes
         /\ pack_codes(u.codes) \in Seq(Int) /\ Len(pack_codes(u.codes)) = (K + 1) \div 2
         /\ unpack_codes(pack_codes(u.codes), K) = u.codes
<1>1. /\ m \in Nat \ {0} /\ B \in Nat \ {0} /\ K \in Nat
      /\ u.low \in Bytes /\ u.high \in Bytes
      /\ u.eps \in Seq(Bytes) /\ u.qmin \in Seq(Bytes) /\ u.qmax \in Seq(Bytes)
      /\ u.codes \in Seq(Codes)
      /\ Len(u.eps) = m /\ Len(u.qmin) = B /\ Len(u.qmax) = B /\ Len(u.codes) = K
  BY DEF UnitIs
<1> DEFINE e == u.eps
           b == <<u.low, u.high>>
           w == Lead(u)
<1>2. e \in Seq(Int) /\ Len(e) = m /\ \A l \in 1 .. m : e[l] \in Bytes
  BY <1>1, BytesAreNumbers
<1>3. b \in Seq(Int) /\ Len(b) = 2
  BY <1>1, ByteIs
<1>4. w = b \o e
  BY DEF Lead
<1> HIDE DEF e, b, w
<1>5. JoinOf(w, b, e)
  <2>1. JoinOf(b \o e, b, e)
    BY <1>2, <1>3, JoinedNumbers
  <2> QED
    BY <1>4, <2>1, Zenon
<1>6. w \in Seq(Int) /\ Len(w) = 2 + m /\ \A l \in 1 .. m : w[2 + l] = e[l]
  BY <1>2, <1>3, <1>5 DEF JoinOf
<1>7. SubSeq(w, 1, 2) = b
  <2>1. 1 \in 1 .. Len(b) + 1 /\ 2 \in 1 - 1 .. Len(b)
    BY <1>3
  <2>2. SubSeq(b \o e, 1, 2) = SubSeq(b, 1, 2)
    BY <1>2, <1>3, <2>1, PartOfFirst
  <2>3. SubSeq(b, 1, Len(b)) = b
    BY <1>3, AllOfList
  <2> QED
    BY <1>3, <1>4, <2>2, <2>3
<1>8. /\ Offsets(u) \in Seq(Int) /\ Len(Offsets(u)) = 2 * B
      /\ \A k \in 1 .. 2 * B : Offsets(u)[k] \in Bytes
  <2> DEFINE q == u.qmin
             r == u.qmax
             n == 2 * B
             entry(k) == IF k % 2 = 1 THEN q[(k + 1) \div 2] ELSE r[k \div 2]
  <2>1. Offsets(u) = [k \in 1 .. n |-> entry(k)]
    BY <1>1 DEF Offsets
  <2>2. \A j \in 1 .. B : q[j] \in Bytes /\ r[j] \in Bytes
    BY <1>1, BytesAreNumbers
  <2> HIDE DEF q, r
  <2>3. \A k \in 1 .. n : entry(k) \in Bytes
    <3> SUFFICES ASSUME NEW k \in 1 .. n PROVE entry(k) \in Bytes
      OBVIOUS
    <3>1. CASE k % 2 = 1
      <4>1. (k + 1) \div 2 \in 1 .. B
        BY <1>1, <3>1
      <4> QED
        BY <2>2, <3>1, <4>1
    <3>2. CASE k % 2 # 1
      <4>1. k \div 2 \in 1 .. B
        BY <1>1, <3>2
      <4> QED
        BY <2>2, <3>2, <4>1
    <3> QED
      BY <3>1, <3>2
  <2>4. n \in Nat
    BY <1>1
  <2> HIDE DEF entry, n
  <2>5. \A k \in 1 .. n : entry(k) \in Int
    BY <2>3, ByteIs
  <2>6. /\ [k \in 1 .. n |-> entry(k)] \in Seq(Int) /\ Len([k \in 1 .. n |-> entry(k)]) = n
        /\ \A k \in 1 .. n : [j \in 1 .. n |-> entry(j)][k] = entry(k)
    BY <2>4, <2>5
  <2>7. Offsets(u) \in Seq(Int) /\ Len(Offsets(u)) = n /\ \A k \in 1 .. n : Offsets(u)[k] \in Bytes
    BY <2>1, <2>3, <2>6
  <2> QED
    BY <2>7 DEF n
<1>9. /\ pack_codes(u.codes) \in Seq(Int) /\ Len(pack_codes(u.codes)) = (K + 1) \div 2
      /\ unpack_codes(pack_codes(u.codes), K) = u.codes
  BY <1>1, CodesUnpack
<1> QED
  BY <1>2, <1>3, <1>6, <1>7, <1>8, <1>9 DEF w, b, e

(* A unit's record, from its parts. *)
LEMMA RecordIs ==
  ASSUME NEW u, NEW m, NEW B, NEW K, UnitIs(u, m, B, K),
         NEW C \in Nat, C = (K + 1) \div 2
  PROVE  /\ RecordOf(u) \in Seq(Int) /\ Len(RecordOf(u)) = 2 + m + 2 * B + C
         /\ \A k \in 1 .. 2 * B : RecordOf(u)[2 + m + k] \in Bytes
         /\ \A l \in 1 .. m : RecordOf(u)[2 + l] = u.eps[l]
         /\ SubSeq(RecordOf(u), 1, 2) = <<u.low, u.high>>
         /\ SubSeq(RecordOf(u), 3 + m, Len(RecordOf(u))) = Offsets(u) \o pack_codes(u.codes)
<1> DEFINE a == Lead(u)
           b == Offsets(u)
           c == pack_codes(u.codes)
           p == u.eps
           lh == <<u.low, u.high>>
           h == a \o b
           t == b \o c
           r == RecordOf(u)
           n == 2 * B
<1>1. m \in Nat \ {0} /\ B \in Nat \ {0} /\ n \in Nat
  BY DEF UnitIs
<1>2. /\ a \in Seq(Int) /\ Len(a) = 2 + m /\ SubSeq(a, 1, 2) = lh
      /\ \A l \in 1 .. m : a[2 + l] = p[l]
      /\ b \in Seq(Int) /\ Len(b) = n /\ \A k \in 1 .. n : b[k] \in Bytes
      /\ c \in Seq(Int) /\ Len(c) = C
  BY PartsOfRecord
<1>3. r = (a \o b) \o c
  BY DEF RecordOf
<1> HIDE DEF a, b, c, p, lh, r, n
<1>4. JoinOf(h, a, b) /\ JoinOf(t, b, c)
  BY <1>2, JoinedNumbers
<1>5. h \in Seq(Int) /\ t \in Seq(Int)
  <2> HIDE DEF h, t
  <2> QED
    BY <1>4 DEF JoinOf
<1>6. JoinOf(r, h, c)
  <2>1. JoinOf(h \o c, h, c)
    <3> HIDE DEF h
    <3> QED
      BY <1>2, <1>5, JoinedNumbers
  <2> QED
    BY <1>3, <2>1, Zenon
<1>7. r = a \o t
  <2>1. a \in Seq(Int) /\ b \in Seq(Int) /\ c \in Seq(Int)
    BY <1>2
  <2>2. (a \o b) \o c = a \o (b \o c)
    BY <2>1, JoinedInTurn, Zenon
  <2> QED
    BY <1>3, <2>2, Zenon
<1>8. JoinOf(r, a, t)
  <2>1. JoinOf(a \o t, a, t)
    <3> HIDE DEF t
    <3> QED
      BY <1>2, <1>5, JoinedNumbers
  <2> QED
    BY <1>7, <2>1, Zenon
<1>9. SubSeq(r, 1, 2) = lh
  <2> HIDE DEF t
  <2>1. 1 \in 1 .. Len(a) + 1 /\ 2 \in 1 - 1 .. Len(a)
    BY <1>1, <1>2
  <2>2. SubSeq(a \o t, 1, 2) = SubSeq(a, 1, 2)
    BY <1>2, <1>5, <2>1, PartOfFirst
  <2> QED
    BY <1>2, <1>7, <2>2, Zenon
<1> HIDE DEF h, t
<1>10. Len(h) = 2 + m + n /\ Len(t) = n + C
  BY <1>2, <1>4 DEF JoinOf
<1>11. r \in Seq(Int) /\ Len(r) = 2 + m + n + C
  BY <1>2, <1>6, <1>10 DEF JoinOf
<1>12. SubSeq(r, 3 + m, Len(r)) = t
  <2>1. 1 \in 1 .. Len(t) + 1 /\ Len(t) \in 1 - 1 .. Len(t)
    BY <1>1, <1>10
  <2>2. SubSeq(a \o t, Len(a) + 1, Len(a) + Len(t)) = SubSeq(t, 1, Len(t))
    BY <1>2, <1>5, <2>1, PartOfSecond
  <2>3. SubSeq(t, 1, Len(t)) = t
    BY <1>5, AllOfList
  <2>4. Len(a) + 1 = 3 + m /\ Len(a) + Len(t) = Len(r)
    BY <1>1, <1>2, <1>10, <1>11
  <2> QED
    BY <1>7, <2>2, <2>3, <2>4, Zenon
<1>13. ASSUME NEW k \in 1 .. n PROVE r[2 + m + k] \in Bytes
  <2>1. k \in 1 .. Len(t) /\ k \in 1 .. Len(b)
    BY <1>1, <1>2, <1>10
  <2>2. r[Len(a) + k] = t[k]
    BY <1>8, <2>1 DEF JoinOf
  <2>3. t[k] = b[k]
    BY <1>4, <2>1 DEF JoinOf
  <2> QED
    BY <1>2, <2>2, <2>3
<1>14. ASSUME NEW l \in 1 .. m PROVE r[2 + l] = p[l]
  <2>1. 2 + l \in 1 .. Len(a)
    BY <1>1, <1>2
  <2>2. r[2 + l] = a[2 + l]
    BY <1>8, <2>1 DEF JoinOf
  <2> QED
    BY <1>2, <2>2
<1>15. SubSeq(r, 3 + m, Len(r)) = b \o c
  BY <1>12 DEF t
<1> QED
  BY <1>9, <1>11, <1>13, <1>14, <1>15 DEF r, n, b, c, p, lh

(* What plan_meta keeps of a record. *)
RowKept(r, m, layer) == SubSeq(r, 1, 2) \o <<r[2 + layer]>> \o SubSeq(r, 3 + m, Len(r))
IsKept(row, u, layer, B, K, C) ==
  /\ row = RecordOf([u EXCEPT !.eps = <<u.eps[layer]>>])
  /\ Len(row) = 3 + 2 * B + C
  /\ unpack_codes(SubSeq(row, 4 + 2 * B, Len(row)), K) = u.codes
LEMMA KeptIsRecord ==
  ASSUME NEW u, NEW m, NEW B, NEW K, UnitIs(u, m, B, K),
         NEW C \in Nat, C = (K + 1) \div 2, NEW layer \in 1 .. m
  PROVE  IsKept(RowKept(RecordOf(u), m, layer), u, layer, B, K, C)
<1> DEFINE b == Offsets(u)
           c == pack_codes(u.codes)
           e == <<u.eps[layer]>>
           lh == <<u.low, u.high>>
           a == lh \o e
           h == a \o b
           row == RowKept(RecordOf(u), m, layer)
           v == [u EXCEPT !.eps = <<u.eps[layer]>>]
           n == 2 * B
<1>1. m \in Nat \ {0} /\ B \in Nat \ {0} /\ n \in Nat
  BY DEF UnitIs
<1>2. /\ lh \in Seq(Int) /\ u.eps[layer] \in Bytes
      /\ b \in Seq(Int) /\ Len(b) = n /\ c \in Seq(Int) /\ Len(c) = C
      /\ unpack_codes(c, K) = u.codes
  BY PartsOfRecord
<1>3. Len(lh) = 2 /\ e \in Seq(Int) /\ Len(e) = 1
  BY <1>2, ByteIs
<1>4. row = (lh \o e) \o (b \o c)
  <2>1. /\ RecordOf(u)[2 + layer] = u.eps[layer]
        /\ SubSeq(RecordOf(u), 1, 2) = lh
        /\ SubSeq(RecordOf(u), 3 + m, Len(RecordOf(u))) = b \o c
    BY RecordIs
  <2> QED
    BY <2>1, Zenon DEF RowKept
<1>5. RecordOf(v) = ((lh \o e) \o b) \o c
  <2>1. /\ v.low = u.low /\ v.high = u.high /\ v.eps = e /\ v.qmin = u.qmin
        /\ v.qmax = u.qmax /\ v.codes = u.codes
    BY DEF UnitIs
  <2> HIDE DEF v
  <2>2. Lead(v) = lh \o e
    BY <2>1, Zenon DEF Lead
  <2>3. Offsets(v) = b
    BY <2>1, Zenon DEF Offsets
  <2>4. pack_codes(v.codes) = c
    BY <2>1, Zenon
  <2> QED
    BY <2>2, <2>3, <2>4, Zenon DEF RecordOf
<1> HIDE DEF lh, e, b, c, row, v, n
<1>6. JoinOf(a, lh, e)
  BY <1>2, <1>3, JoinedNumbers
<1> HIDE DEF a
<1>7. a \in Seq(Int) /\ Len(a) = 3
  BY <1>3, <1>6 DEF JoinOf
<1>8. JoinOf(h, a, b)
  BY <1>2, <1>7, JoinedNumbers
<1>9. row = h \o c
  <2>1. (a \o b) \o c = a \o (b \o c)
    <3>1. a \in Seq(Int) /\ b \in Seq(Int) /\ c \in Seq(Int)
      BY <1>2, <1>7
    <3> QED
      BY <3>1, JoinedInTurn, Zenon
  <2> QED
    BY <1>4, <2>1, Zenon DEF a
<1>10. row = RecordOf(v)
  BY <1>5, <1>9, Zenon DEF a, h
<1> HIDE DEF h
<1>11. h \in Seq(Int) /\ Len(h) = 3 + n
  BY <1>2, <1>7, <1>8 DEF JoinOf
<1>12. JoinOf(row, h, c)
  <2>1. JoinOf(h \o c, h, c)
    BY <1>2, <1>11, JoinedNumbers
  <2> QED
    BY <1>9, <2>1, Zenon
<1>13. Len(row) = 3 + n + C
  BY <1>2, <1>11, <1>12 DEF JoinOf
<1>14. SubSeq(row, 4 + n, Len(row)) = c
  <2>1. 1 \in 1 .. Len(c) + 1 /\ Len(c) \in 1 - 1 .. Len(c)
    BY <1>2
  <2>2. SubSeq(h \o c, Len(h) + 1, Len(h) + Len(c)) = SubSeq(c, 1, Len(c))
    BY <1>2, <1>11, <2>1, PartOfSecond
  <2>3. SubSeq(c, 1, Len(c)) = c
    BY <1>2, AllOfList
  <2>4. Len(h) + 1 = 4 + n /\ Len(h) + Len(c) = Len(row)
    BY <1>1, <1>2, <1>11, <1>13
  <2> QED
    BY <1>9, <2>2, <2>3, <2>4, Zenon
<1>15. unpack_codes(SubSeq(row, 4 + n, Len(row)), K) = u.codes
  BY <1>2, <1>14, Zenon
<1> QED
  BY <1>10, <1>13, <1>15, Zenon DEF IsKept, row, v, n

(* The units of an object are alike. *)
LEMMA UnitsAlike ==
  ASSUME NEW units, AreUnits(units)
  PROVE  LET n == Len(units)
         IN  /\ n \in Nat \ {0} /\ DOMAIN units = 1 .. n
             /\ Len(units[1].codes) \in {0, Len(units[1].qmin)}
             /\ \A i \in 1 .. n :
                  UnitIs(units[i], Len(units[1].eps), Len(units[1].qmin), Len(units[1].codes))
<1> DEFINE R == [low : Bytes, high : Bytes, eps : Seq(Bytes),
                 qmin : Seq(Bytes), qmax : Seq(Bytes), codes : Seq(Codes)]
           n == Len(units)
<1>1. /\ units \in Seq(R) /\ units # <<>>
      /\ Len(units[1].eps) > 0 /\ Len(units[1].qmin) > 0
      /\ Len(units[1].codes) \in {0, Len(units[1].qmin)}
      /\ \A i \in DOMAIN units :
           /\ Len(units[i].eps) = Len(units[1].eps) /\ Len(units[i].codes) = Len(units[1].codes)
           /\ Len(units[i].qmin) = Len(units[1].qmin) /\ Len(units[i].qmax) = Len(units[1].qmin)
  BY DEF AreUnits
<1> HIDE DEF R
<1>2. n \in Nat \ {0} /\ DOMAIN units = 1 .. n /\ \A i \in 1 .. n : units[i] \in R
  BY <1>1
<1>3. \A i \in 1 .. n : /\ units[i].eps \in Seq(Bytes) /\ units[i].qmin \in Seq(Bytes)
                         /\ units[i].codes \in Seq(Codes)
  BY <1>2 DEF R
<1>4. 1 \in 1 .. n
  BY <1>2
<1>5. /\ Len(units[1].eps) \in Nat \ {0} /\ Len(units[1].qmin) \in Nat \ {0}
      /\ Len(units[1].codes) \in Nat
  <2>1. /\ units[1].eps \in Seq(Bytes) /\ units[1].qmin \in Seq(Bytes)
        /\ units[1].codes \in Seq(Codes)
    BY <1>3, <1>4
  <2>2. /\ Len(units[1].eps) \in Nat /\ Len(units[1].qmin) \in Nat
        /\ Len(units[1].codes) \in Nat
    BY <2>1
  <2> QED
    BY <1>1, <2>2
<1>6. ASSUME NEW i \in 1 .. n
      PROVE  UnitIs(units[i], Len(units[1].eps), Len(units[1].qmin), Len(units[1].codes))
  BY <1>1, <1>2, <1>5 DEF UnitIs, R
<1> QED
  BY <1>1, <1>2, <1>6

(* The records of any units are read back, whatever bytes they hold. *)
LEMMA PackedReadBack ==
  ASSUME NEW units, AreUnits(units), NEW padding \in Seq(Bytes)
  PROVE  RecordsReadBack(units, padding)
<1> DEFINE n == Len(units)
           m == Len(units[1].eps)
           B == Len(units[1].qmin)
           K == Len(units[1].codes)
           C == (K + 1) \div 2
           lead == 2 + m
           size == meta_size(m, B, K > 0)
           records == [i \in DOMAIN units |-> RecordOf(units[i])]
           stored == pack_meta(records, lead, B) \o padding
           rows == Rows(SubSeq(unpack_records(stored, size, n, lead, B), 1, n * size), size)
<1>1. /\ n \in Nat \ {0} /\ DOMAIN units = 1 .. n /\ K \in {0, B}
      /\ \A i \in 1 .. n : UnitIs(units[i], m, B, K)
  BY UnitsAlike
<1> HIDE DEF n, m, B, K
<1>2. m \in Nat \ {0} /\ B \in Nat \ {0} /\ K \in Nat
  <2>1. UnitIs(units[1], m, B, K)
    <3>1. 1 \in 1 .. n
      BY <1>1
    <3> QED
      BY <1>1, <3>1
  <2> QED
    BY <2>1 DEF UnitIs
<1>3. C \in Nat /\ size \in Nat \ {0} /\ size = lead + 2 * B + C
  <2>1. CASE K = 0
    <3>1. size = 2 + m + 2 * B + 0 /\ C = 0
      BY <2>1 DEF meta_size
    <3> HIDE DEF size, C
    <3> QED
      BY <1>2, <3>1
  <2>2. CASE K = B
    <3>1. size = 2 + m + 2 * B + C /\ C \in Nat
      BY <1>2, <2>2 DEF meta_size
    <3> HIDE DEF size, C
    <3> QED
      BY <1>2, <3>1
  <2> QED
    BY <1>1, <2>1, <2>2
<1>4. C = (K + 1) \div 2
  OBVIOUS
<1> HIDE DEF C
<1>5. \A i \in 1 .. n : /\ records[i] = RecordOf(units[i])
                         /\ RecordOf(units[i]) \in Seq(Int)
                         /\ Len(RecordOf(units[i])) = lead + 2 * B + C
                         /\ \A k \in 1 .. 2 * B : RecordOf(units[i])[lead + k] \in Bytes
  BY <1>1, <1>3, <1>4, RecordIs
<1>6. AreRecords(records, n, lead, B, C)
  <2>1. records = [i \in 1 .. n |-> RecordOf(units[i])] /\ DOMAIN records = 1 .. n
    BY <1>1
  <2>2. Len(records) = n
    BY <1>1
  <2>3. records = [i \in 1 .. n |-> records[i]]
    BY <1>1
  <2> HIDE DEF records
  <2>4. lead \in Nat
    BY <1>2
  <2> HIDE DEF lead
  <2> QED
    BY <1>1, <1>2, <1>3, <1>5, <2>1, <2>2, <2>3, <2>4 DEF AreRecords
<1> HIDE DEF lead, size
<1>7. rows = records
  <2> HIDE DEF records
  <2>1. padding \in Seq(Int)
    BY BytesAreNumbers
  <2> QED
    BY <1>3, <1>6, <2>1, RowsAreRecords
<1> HIDE DEF rows
<1>8. ASSUME NEW layer \in 1 .. m, NEW i \in 1 .. n
      PROVE  LET u == units[i]
                 row == plan_meta(rows, m, layer)[i]
             IN  /\ row = RecordOf([u EXCEPT !.eps = <<u.eps[layer]>>])
                 /\ Len(row) = size - (m - 1)
                 /\ unpack_codes(SubSeq(row, 4 + 2 * B, Len(row)), Len(u.codes)) = u.codes
  <2> DEFINE u == units[i]
             row == plan_meta(rows, m, layer)[i]
  <2>1. i \in DOMAIN rows /\ rows[i] = RecordOf(u)
    BY <1>1, <1>7
  <2>2. row = RowKept(RecordOf(u), m, layer)
    BY <2>1, Zenon DEF plan_meta, RowKept
  <2>3. UnitIs(u, m, B, K)
    BY <1>1
  <2> HIDE DEF u, row
  <2>4. /\ row = RecordOf([u EXCEPT !.eps = <<u.eps[layer]>>])
        /\ Len(row) = 3 + 2 * B + C
        /\ unpack_codes(SubSeq(row, 4 + 2 * B, Len(row)), K) = u.codes
    <3> DEFINE kept == RowKept(RecordOf(u), m, layer)
    <3>1. IsKept(kept, u, layer, B, K, C)
      BY <1>3, <1>4, <2>3, KeptIsRecord
    <3> HIDE DEF kept
    <3>2. row = kept
      BY <2>2 DEF kept
    <3> QED
      BY <3>1, <3>2, Zenon DEF IsKept
  <2>5. Len(u.codes) = K
    BY <2>3 DEF UnitIs
  <2>6. size - (m - 1) = 3 + 2 * B + C
    BY <1>2, <1>3 DEF lead
  <2> QED
    BY <2>4, <2>5, <2>6, Zenon DEF u, row
<1> QED
  BY <1>1, <1>8, Zenon DEF RecordsReadBack, rows, stored, records, size, lead, n, m, B, K

(* pack_meta and unpack_meta, unpack_records and plan_meta give back every *)
(* record that write_meta packs, whatever its bytes and the padding after  *)
(* them, for every number of units, layers and blocks.                     *)
THEOREM PackingAlwaysExact == AlgorithmsSpec => []PackingExact
<1>1. GivenInput => PackingExact
  <2> SUFFICES ASSUME GivenInput, Is("packing") PROVE PackingExact
    BY DEF PackingExact
  <2>1. AreUnits(input.units) /\ input.padding \in Seq(Bytes)
    BY PackingAssumption DEF GivenInput, Is
  <2> QED
    BY <2>1, PackedReadBack DEF PackingExact
<1> QED
  BY <1>1, InputsAreGiven, PTL

-----------------------------------------------------------------------------
(* The mean above a threshold *)

(* A value, what it may be and where its bounds lie.                       *)
LEMMA ValueIs ==
  ASSUME NEW values, AreValues(values)
  PROVE  /\ Len(values) \in Nat /\ DOMAIN values = 1 .. Len(values)
         /\ \A i \in DOMAIN values :
              /\ i \in Int /\ values[i].a \in Int /\ values[i].rec \in Int /\ values[i].e \in Nat
              /\ Up(values[i]) = values[i].rec + values[i].e
              /\ Down(values[i]) = values[i].rec - values[i].e
              /\ Down(values[i]) <= values[i].a /\ values[i].a <= Up(values[i])
<1>1. Len(values) \in Nat /\ DOMAIN values = 1 .. Len(values)
  BY DEF AreValues
<1>2. ASSUME NEW i \in DOMAIN values
      PROVE  /\ i \in Int /\ values[i].a \in Int /\ values[i].rec \in Int /\ values[i].e \in Nat
             /\ Up(values[i]) = values[i].rec + values[i].e
             /\ Down(values[i]) = values[i].rec - values[i].e
             /\ Down(values[i]) <= values[i].a /\ values[i].a <= Up(values[i])
  <2>1. values[i] \in [a : Int, rec : Int, e : Nat]
    <3> DEFINE R == [a : Int, rec : Int, e : Nat]
    <3>1. values \in Seq(R)
      BY DEF AreValues
    <3> HIDE DEF R
    <3>2. values[i] \in R
      BY <1>1, <3>1
    <3> QED
      BY <3>2 DEF R
  <2>2. values[i].rec - values[i].e <= values[i].a /\ values[i].a <= values[i].rec + values[i].e
    BY DEF AreValues
  <2> QED
    BY <1>1, <2>1, <2>2 DEF Up, Down
<1> QED
  BY <1>1, <1>2

(* Ups lists the ambiguous values by what they may be, largest first.      *)
LEMMA UpsDescend ==
  ASSUME NEW values, AreValues(values), NEW th \in Int
  PROVE  LET A == Ambiguous(values, th)
             u == Ups(values, th)
             n == Cardinality(A)
         IN  /\ n \in Nat /\ DOMAIN u = 1 .. n /\ Len(u) = n
             /\ \E p \in Bijection(1 .. n, A) :
                  /\ \A k \in 1 .. n : u[k] = Up(values[p[k]])
                  /\ \A k, l \in 1 .. n : k < l => u[l] <= u[k]
<1> DEFINE A == Ambiguous(values, th)
           n == Cardinality(A)
           x(i) == Up(values[i])
           Above_(i, j) == x(i) > x(j) \/ (x(i) = x(j) /\ i < j)
           u == [k \in 1 .. n |->
                   x(CHOOSE i \in A : Cardinality({j \in A : Above_(j, i)}) = k - 1)]
           key == [i \in A |-> [chunk |-> -x(i), block |-> i]]
           below == [i \in A |-> {j \in A : Above_(j, i)}]
<1>1. Ups(values, th) = u
  BY DEF Ups
<1>2. IsFiniteSet(A) /\ \A i \in A : i \in Int /\ x(i) \in Int
  <2>1. A \in SUBSET (1 .. Len(values)) /\ Len(values) \in Nat
    BY DEF Ambiguous, AreValues
  <2>2. IsFiniteSet(1 .. Len(values))
    BY <2>1, FS_Interval
  <2>4. \A i \in 1 .. Len(values) : x(i) \in Int
    BY ValueIs
  <2> HIDE DEF A, x
  <2>5. IsFiniteSet(A)
    BY <2>1, <2>2, FS_Subset
  <2> QED
    BY <2>1, <2>4, <2>5
<1> HIDE DEF A, x
<1>3. \A i \in A : key[i].chunk = -x(i) /\ key[i].block = i /\ -x(i) \in Int /\ i \in Int
  BY <1>2
<1>4. key = [i \in A |-> key[i]]
  OBVIOUS
<1>5. \A i, j \in A : key[i].chunk = key[j].chunk /\ key[i].block = key[j].block => i = j
  BY <1>3
<1>6. \A i, j \in A : Before(key[j], key[i]) <=> Above_(j, i)
  BY <1>2, <1>3 DEF Before
<1>7. \A i \in A : below[i] = {j \in A : Before(key[j], key[i])}
  BY <1>6
<1> HIDE DEF key
<1>8. PICK p : ListsByRank(p, A, key, below)
  <2>1. \A i \in A : key[i].chunk \in Int /\ key[i].block \in Int
    BY <1>3
  <2> HIDE DEF below
  <2> QED
    BY <1>2, <1>4, <1>5, <1>7, <2>1, Ranked
<1>9. /\ n \in Nat /\ p \in Bijection(1 .. n, A)
      /\ \A k \in 1 .. n : p[k] \in A /\ Cardinality(below[p[k]]) = k - 1
      /\ \A k \in 1 .. n, i \in A : Cardinality(below[i]) = k - 1 => i = p[k]
      /\ \A k, l \in 1 .. n : k < l => Before(key[p[k]], key[p[l]])
  <2> HIDE DEF below
  <2> QED
    BY <1>8 DEF ListsByRank
<1>10. ASSUME NEW k \in 1 .. n PROVE u[k] = x(p[k])
  <2> DEFINE c == CHOOSE i \in A : Cardinality({j \in A : Above_(j, i)}) = k - 1
  <2>1. \A i \in A : below[i] = {j \in A : Above_(j, i)}
    OBVIOUS
  <2>2. p[k] \in A /\ Cardinality({j \in A : Above_(j, p[k])}) = k - 1
    BY <1>9, <2>1
  <2>3. c \in A /\ Cardinality({j \in A : Above_(j, c)}) = k - 1
    BY <2>2
  <2>4. u[k] = x(c)
    OBVIOUS
  <2> HIDE DEF c
  <2>5. Cardinality(below[c]) = k - 1
    BY <2>1, <2>3
  <2>6. c = p[k]
    BY <1>9, <2>3, <2>5
  <2> QED
    BY <2>4, <2>6
<1>11. ASSUME NEW k \in 1 .. n, NEW l \in 1 .. n, k < l PROVE u[l] <= u[k]
  <2>1. p[k] \in A /\ p[l] \in A /\ Before(key[p[k]], key[p[l]])
    BY <1>9, <1>11
  <2>2. Above_(p[k], p[l])
    BY <1>6, <2>1
  <2>3. x(p[k]) \in Int /\ x(p[l]) \in Int /\ u[k] = x(p[k]) /\ u[l] = x(p[l])
    BY <1>2, <1>10, <2>1
  <2> HIDE DEF u
  <2> QED
    BY <2>2, <2>3
<1>12. DOMAIN u = 1 .. n /\ Len(u) = n
  BY <1>9
<1> HIDE DEF u, below
<1>13. /\ \A k \in 1 .. n : u[k] = Up(values[p[k]])
       /\ \A k, l \in 1 .. n : k < l => u[l] <= u[k]
  BY <1>10, <1>11 DEF x
<1> HIDE DEF n
<1> QED
  BY <1>1, <1>9, <1>12, <1>13 DEF A, n

(* With ambiguous values at the threshold a mean is lower the more it has of them. *)
LEMMA MoreIsLower ==
  ASSUME NEW w \in Nat, NEW d \in Nat, NEW c \in Nat, NEW th \in Int
  PROVE  (w + th * c + d * th) * c <= (w + th * c) * (c + d)
<1> DEFINE x == th * c
<1>1. x \in Int /\ (d * th) * c = x * d
  OBVIOUS
<1>2. (w + x + d * th) * c = w * c + x * c + (d * th) * c
  BY <1>1
<1>3. (w + x) * (c + d) = w * c + x * c + w * d + x * d
  BY <1>1
<1>4. w * d \in Nat /\ w * c \in Int /\ x * c \in Int /\ x * d \in Int
  BY <1>1
<1> HIDE DEF x
<1>5. w * c + x * c + x * d <= w * c + x * c + w * d + x * d
  BY <1>4
<1>6. (w + x + d * th) * c <= (w + x) * (c + d)
  BY <1>1, <1>2, <1>3, <1>5
<1> QED
  BY <1>6 DEF x

(* The lowest mean is that of the certain values as low as they may be and all ambiguous ones. *)
LEMMA LowestMean ==
  ASSUME NEW low \in Int, NEW sa \in Int, NEW sb \in Int, NEW th \in Int,
         NEW nc \in Nat, NEW na \in Nat, NEW m \in 0 .. na,
         low <= sa, th * nc <= low, th * m <= sb
  PROVE  (low + na * th) * (nc + m) <= (sa + sb) * (nc + na)
<1> DEFINE w == low - th * nc
           d == na - m
           c == nc + m
<1>1. /\ w \in Nat /\ d \in Nat /\ c \in Nat /\ c + d = nc + na /\ nc + na \in Nat
      /\ th * nc \in Int /\ th * m \in Int
  OBVIOUS
<1>2. th * c = th * nc + th * m /\ d * th = na * th - th * m
  OBVIOUS
<1>3. w + th * c = low + th * m /\ w + th * c + d * th = low + na * th
  BY <1>1, <1>2
<1>4. (w + th * c + d * th) * c <= (w + th * c) * (c + d)
  <2> HIDE DEF w, d, c
  <2> QED
    BY <1>1, MoreIsLower
<1>5. low + th * m <= sa + sb
  BY <1>1
<1> DEFINE p == low + th * m
           q == sa + sb
           r == nc + na
<1>6. p \in Int /\ q \in Int /\ r \in Nat /\ p <= q
  BY <1>1, <1>5
<1>7. (low + na * th) * c <= p * r
  BY <1>1, <1>3, <1>4
<1> DEFINE v == (low + na * th) * c
<1>8. v \in Int
  BY <1>1
<1> HIDE DEF p, q, r, v, c
<1>9. p * r <= q * r /\ p * r \in Int /\ q * r \in Int
  BY <1>6, ProductGrows
<1>10. v <= q * r
  BY <1>7, <1>8, <1>9 DEF v
<1> QED
  BY <1>10 DEF v, q, r, c

(* stage2's intervals hold what is true of the original values.            *)
LEMMA MeansBetween ==
  ASSUME NEW values, AreValues(values), NEW th \in Int
  PROVE  MeanInside(values, th)
<1> DEFINE D == DOMAIN values
           C == Certain(values, th)
           A == Ambiguous(values, th)
           M == {i \in D : values[i].a > th}
           B == M \ C
           fa == [i \in D |-> values[i].a]
           fu == [i \in D |-> Up(values[i])]
           fd == [i \in D |-> Down(values[i])]
           ft == [i \in D |-> th]
           u == Ups(values, th)
           nc == Cardinality(C)
           na == Cardinality(A)
           m == Cardinality(B)
           n == Cardinality(M)
<1>1. /\ Len(values) \in Nat /\ D = 1 .. Len(values)
      /\ \A i \in D :
           /\ i \in Int /\ values[i].a \in Int /\ values[i].rec \in Int /\ values[i].e \in Nat
           /\ Up(values[i]) = values[i].rec + values[i].e
           /\ Down(values[i]) = values[i].rec - values[i].e
           /\ Down(values[i]) <= values[i].a /\ values[i].a <= Up(values[i])
  BY ValueIs
<1>2. IsFiniteSet(D)
  BY <1>1, FS_Interval
<1>3. \A i \in C : i \in D /\ Down(values[i]) > th
  BY <1>1 DEF Certain
<1>4. \A i \in D : Up(values[i]) > th => i \in C \cup A
  BY <1>1 DEF Ambiguous
<1>5. C \subseteq D /\ A \subseteq D /\ C \cap A = {}
  BY DEF Ambiguous, Certain
<1> HIDE DEF D, C, A
<1>6. C \subseteq M /\ M \subseteq C \cup A
  <2>1. ASSUME NEW i \in C PROVE i \in M
    <3>1. i \in D /\ Down(values[i]) > th
      BY <1>3
    <3>2. Down(values[i]) \in Int /\ values[i].a \in Int /\ Down(values[i]) <= values[i].a
      BY <1>1, <3>1
    <3>3. values[i].a > th
      BY <3>1, <3>2
    <3> QED
      BY <3>1, <3>3
  <2>2. ASSUME NEW i \in M PROVE i \in C \cup A
    <3>1. i \in D /\ values[i].a > th
      OBVIOUS
    <3>2. Up(values[i]) \in Int /\ values[i].a \in Int /\ values[i].a <= Up(values[i])
      BY <1>1, <3>1
    <3>3. Up(values[i]) > th
      BY <3>1, <3>2
    <3> QED
      BY <1>4, <3>1, <3>3
  <2> QED
    BY <2>1, <2>2
<1>7. M = C \cup B /\ C \cap B = {} /\ B \subseteq A /\ M \subseteq D /\ B \subseteq D
  BY <1>5, <1>6
<1>8. /\ IsFiniteSet(C) /\ IsFiniteSet(A) /\ IsFiniteSet(B) /\ IsFiniteSet(M)
      /\ nc \in Nat /\ na \in Nat /\ m \in Nat /\ n \in Nat /\ n = nc + m /\ m <= na
  <2> HIDE DEF B, M
  <2>1. IsFiniteSet(C) /\ IsFiniteSet(A) /\ IsFiniteSet(B) /\ IsFiniteSet(M)
    BY <1>2, <1>5, <1>7, FS_Subset
  <2>2. nc \in Nat /\ na \in Nat /\ m \in Nat /\ n \in Nat /\ Cardinality(C \cap B) = 0
    BY <1>7, <2>1, FS_CardinalityType, FS_EmptySet
  <2>3. m <= na
    BY <1>7, <2>1, FS_Subset
  <2>4. Cardinality(C \cup B) = nc + m - Cardinality(C \cap B)
    BY <2>1, FS_Union
  <2>5. n = nc + m
    BY <1>7, <2>2, <2>4
  <2> QED
    BY <2>1, <2>2, <2>3, <2>5
<1>9. \A i \in D : /\ fa[i] \in Int /\ fu[i] \in Int /\ fd[i] \in Int /\ ft[i] = th
                   /\ fd[i] <= fa[i] /\ fa[i] <= fu[i]
                   /\ fa[i] = values[i].a /\ fd[i] = Down(values[i]) /\ fu[i] = Up(values[i])
  BY <1>1
<1>10. /\ Integers(fa, C) /\ Integers(fu, C) /\ Integers(fd, C) /\ Integers(ft, C)
       /\ Integers(fa, B) /\ Integers(fu, B) /\ Integers(ft, B)
       /\ Integers(fa, C \cup B) /\ Integers(fu, A)
  BY <1>5, <1>7, <1>9 DEF Integers
<1> HIDE DEF fa, fu, fd, ft
<1>11. /\ SumOf(fa, C) \in Int /\ SumOf(fu, C) \in Int /\ SumOf(fd, C) \in Int
       /\ SumOf(fa, B) \in Int /\ SumOf(fu, B) \in Int
  <2> HIDE DEF B
  <2> QED
    BY <1>8, <1>10, SumType
<1>12. SumOf(fa, M) = SumOf(fa, C) + SumOf(fa, B)
  <2> HIDE DEF B, M
  <2>1. SumOf(fa, C \cup B) = SumOf(fa, C) + SumOf(fa, B)
    BY <1>7, <1>8, <1>10, SumOfTwo
  <2> QED
    BY <1>7, <2>1
<1>13. SumOf(fd, C) <= SumOf(fa, C) /\ SumOf(fa, C) <= SumOf(fu, C)
  <2>1. \A i \in C : fd[i] <= fa[i] /\ fa[i] <= fu[i]
    BY <1>5, <1>9
  <2>2. SumOf(fd, C) <= SumOf(fa, C)
    BY <1>8, <1>10, <2>1, SumsOrdered
  <2>3. SumOf(fa, C) <= SumOf(fu, C)
    BY <1>8, <1>10, <2>1, SumsOrdered
  <2> QED
    BY <1>11, <2>2, <2>3
<1>14. SumOf(fa, B) <= SumOf(fu, B)
  <2>1. \A i \in B : fa[i] <= fu[i]
    BY <1>7, <1>9
  <2> HIDE DEF B
  <2>2. SumOf(fa, B) <= SumOf(fu, B)
    BY <1>8, <1>10, <2>1, SumsOrdered
  <2> QED
    BY <1>11, <2>2
<1>15. th * nc <= SumOf(fd, C)
  <2>1. \A i \in C : ft[i] <= fd[i] /\ ft[i] = th
    BY <1>3, <1>5, <1>9
  <2>2. SumOf(ft, C) <= SumOf(fd, C)
    BY <1>8, <1>10, <2>1, SumsOrdered
  <2>3. SumOf(ft, C) = th * nc
    BY <1>8, <2>1, SumOfEqual
  <2>4. th * nc \in Int
    BY <1>8
  <2> QED
    BY <1>11, <2>2, <2>3, <2>4
<1>16. th * m <= SumOf(fa, B)
  <2>1. \A i \in B : ft[i] <= fa[i] /\ ft[i] = th
    BY <1>7, <1>9
  <2> HIDE DEF B
  <2>2. SumOf(ft, B) <= SumOf(fa, B)
    BY <1>8, <1>10, <2>1, SumsOrdered
  <2>3. SumOf(ft, B) = th * m
    BY <1>8, <2>1, SumOfEqual
  <2>4. th * m \in Int
    BY <1>8
  <2> QED
    BY <1>11, <2>2, <2>3, <2>4
<1> HIDE DEF B, M
<1>17. /\ DOMAIN u = 1 .. na /\ Len(u) = na
       /\ \E p \in Bijection(1 .. na, A) :
            /\ \A k \in 1 .. na : u[k] = Up(values[p[k]])
            /\ \A k, l \in 1 .. na : k < l => u[l] <= u[k]
  BY UpsDescend DEF A
<1>18. PICK p \in Bijection(1 .. na, A) :
         /\ \A k \in 1 .. na : u[k] = Up(values[p[k]])
         /\ \A k, l \in 1 .. na : k < l => u[l] <= u[k]
  BY <1>17
<1>19. \A k \in 1 .. na : u[k] = fu[p[k]] /\ p[k] \in A
  <2>1. \A k \in 1 .. na : p[k] \in A
    BY DEF Bijection, Injection
  <2> QED
    BY <1>5, <1>9, <1>18, <2>1
<1> HIDE DEF u
<1>20. Integers(u, 1 .. na) /\ SumOf(fu, B) <= SumOf(u, 1 .. m)
  <2>1. B \in SUBSET A /\ \A k \in 1 .. na : u[k] = fu[p[k]]
    BY <1>7, <1>19
  <2>2. Integers(u, 1 .. na) /\ SumOf(fu, B) <= SumOf(u, 1 .. Cardinality(B))
    <3>1. /\ na \in Nat /\ p \in Bijection(1 .. na, A) /\ IsFiniteSet(A) /\ Integers(fu, A)
          /\ \A k, l \in 1 .. na : k < l => u[l] <= u[k]
      BY <1>8, <1>10, <1>18
    <3> HIDE DEF na, m
    <3> QED
      BY <2>1, <3>1, LargestFirst
  <2> QED
    BY <2>2
<1>21. SumOf(u, 1 .. m) \in Int
  <2>0. m \in Int /\ m <= na /\ na \in Int
    BY <1>8
  <2>1. IsFiniteSet(1 .. m) /\ Integers(u, 1 .. m)
    <3> HIDE DEF m, na
    <3>1. IsFiniteSet(1 .. m)
      BY <2>0, FS_Interval
    <3>2. \A k \in 1 .. m : k \in 1 .. na
      BY <2>0
    <3> QED
      BY <1>20, <3>1, <3>2 DEF Integers
  <2> DEFINE I == 1 .. m
  <2>2. IsFiniteSet(I) /\ Integers(u, I)
    BY <2>1
  <2> HIDE DEF I
  <2>3. SumOf(u, I) \in Int
    BY <2>2, SumType
  <2> QED
    BY <2>3 DEF I
<1> HIDE DEF nc, na, m, n
<1>22. count_interval(values, th) = <<nc, nc + na>>
  BY DEF count_interval, nc, na, C, A
<1>23. LowMean(values, th) = IF nc > 0 THEN <<SumOf(fd, C) + na * th, nc + na>> ELSE <<th, 1>>
  BY DEF LowMean, nc, na, C, A, fd, D, SumOf
<1>24. HighMeans(values, th) =
         IF nc > 0 THEN {<<SumOf(fu, C) + SumOf(u, 1 .. k), nc + k>> : k \in 0 .. na}
                   ELSE {<<u[1], 1>>}
  BY <1>17 DEF HighMeans, nc, C, fu, D, SumOf, u
<1> DEFINE s == SumOf(fa, M)
           mean == <<s, n>>
<1>25. n > 0 => AtMost(LowMean(values, th), mean)
  <2> SUFFICES ASSUME n > 0 PROVE AtMost(LowMean(values, th), mean)
    OBVIOUS
  <2>1. CASE nc > 0
    <3>1. (SumOf(fd, C) + na * th) * (nc + m) <= (SumOf(fa, C) + SumOf(fa, B)) * (nc + na)
      <4>1. m \in 0 .. na
        BY <1>8
      <4> QED
        BY <1>8, <1>11, <1>13, <1>15, <1>16, <4>1, LowestMean
    <3>2. (SumOf(fd, C) + na * th) * n <= s * (nc + na)
      BY <1>8, <1>12, <3>1, Zenon DEF s
    <3>3. LowMean(values, th) = <<SumOf(fd, C) + na * th, nc + na>>
      BY <1>23, <2>1
    <3> HIDE DEF s
    <3> QED
      BY <3>2, <3>3 DEF AtMost
  <2>2. CASE ~(nc > 0)
    <3>1. nc = 0 /\ C = {} /\ n = m /\ SumOf(fa, C) = 0
      <4>1. nc = 0 /\ n = m
        BY <1>8, <2>2
      <4>2. C = {}
        BY <1>8, <4>1, FS_EmptySet DEF nc
      <4> QED
        BY <4>1, <4>2, SumOfNone
    <3>2. s = SumOf(fa, B)
      BY <1>11, <1>12, <3>1
    <3>3. LowMean(values, th) = <<th, 1>>
      BY <1>23, <2>2
    <3> HIDE DEF s
    <3>4. th * n <= s * 1
      BY <1>11, <1>16, <3>1, <3>2
    <3> QED
      BY <3>3, <3>4 DEF AtMost
  <2> QED
    BY <2>1, <2>2
<1>26. n > 0 => \E high \in HighMeans(values, th) : AtMost(mean, high)
  <2> SUFFICES ASSUME n > 0 PROVE \E high \in HighMeans(values, th) : AtMost(mean, high)
    OBVIOUS
  <2>1. CASE nc > 0
    <3> DEFINE t == SumOf(fu, C) + SumOf(u, 1 .. m)
               high == <<t, nc + m>>
    <3>1. high \in HighMeans(values, th)
      <4>1. m \in 0 .. na
        BY <1>8
      <4> QED
        BY <1>24, <2>1, <4>1
    <3>2. s \in Int /\ t \in Int /\ s <= t
      BY <1>11, <1>12, <1>13, <1>14, <1>20, <1>21
    <3> HIDE DEF s, t
    <3>3. s * (nc + m) <= t * n
      BY <1>8, <3>2, ProductGrows
    <3>4. AtMost(mean, high)
      BY <3>3 DEF AtMost
    <3> QED
      BY <3>1, <3>4
  <2>2. CASE ~(nc > 0)
    <3>1. nc = 0 /\ C = {} /\ n = m /\ SumOf(fa, C) = 0
      <4>1. nc = 0 /\ n = m
        BY <1>8, <2>2
      <4>2. C = {}
        BY <1>8, <4>1, FS_EmptySet DEF nc
      <4> QED
        BY <4>1, <4>2, SumOfNone
    <3>2. s = SumOf(fa, B)
      BY <1>11, <1>12, <3>1
    <3>3. HighMeans(values, th) = {<<u[1], 1>>}
      BY <1>24, <2>2
    <3>4. u[1] \in Int
      BY <1>8, <1>20, <3>1 DEF Integers
    <3>5. SumOf(u, 1 .. m) <= u[1] * m
      <4> DEFINE I == 1 .. m
                 g == [k \in I |-> u[1]]
      <4>1. IsFiniteSet(I) /\ Cardinality(I) = m
        BY <1>8, FS_Interval
      <4>2. \A k \in I : u[k] \in Int /\ u[k] <= g[k] /\ g[k] = u[1]
        <5> SUFFICES ASSUME NEW k \in I PROVE u[k] \in Int /\ u[k] <= u[1]
          BY <3>4
        <5>1. k \in 1 .. na /\ 1 \in 1 .. na /\ u[k] \in Int
          BY <1>8, <1>20 DEF Integers
        <5> QED
          BY <1>18, <3>4, <5>1
      <4>3. Integers(u, I) /\ Integers(g, I)
        BY <3>4, <4>2 DEF Integers
      <4> HIDE DEF I, g
      <4>4. SumOf(u, I) <= SumOf(g, I)
        BY <4>1, <4>2, <4>3, SumsOrdered
      <4>5. SumOf(g, I) = u[1] * Cardinality(I)
        BY <3>4, <4>1, <4>2, SumOfEqual
      <4>6. SumOf(u, I) \in Int /\ u[1] * m \in Int
        BY <1>8, <3>4, <4>1, <4>3, SumType
      <4>7. SumOf(u, I) <= u[1] * m
        BY <4>1, <4>4, <4>5, <4>6
      <4> QED
        BY <4>7 DEF I
    <3> HIDE DEF s
    <3>6. u[1] * m \in Int
      BY <1>8, <3>4
    <3>7. s * 1 <= u[1] * n
      BY <1>11, <1>14, <1>20, <1>21, <3>1, <3>2, <3>5, <3>6
    <3>8. AtMost(mean, <<u[1], 1>>)
      BY <3>7 DEF AtMost
    <3> QED
      BY <3>3, <3>8
  <2> QED
    BY <2>1, <2>2
<1>27. count_interval(values, th)[1] <= n /\ n <= count_interval(values, th)[2]
  BY <1>8, <1>22
<1> HIDE DEF s
<1> QED
  BY <1>25, <1>26, <1>27, Zenon DEF MeanInside, s, n, M, D, fa, SumOf

-----------------------------------------------------------------------------
(* A region and its cells *)

(* Where the values of a region are, and what they are. *)
InRegion(field, r) ==
  {q \in DOMAIN field : /\ r.y <= q[1] /\ q[1] < r.y + r.h /\ r.x <= q[2] /\ q[2] < r.x + r.w}
RegionValues(field, r) == {field[p] : p \in InRegion(field, r)}
CellAt(p, side) == <<p[1] \div side, p[2] \div side>>

(* What is known of a field of H by W values and a region of it. *)
Fits(field, r, H, W) ==
  /\ H \in Nat \ {0} /\ W \in Nat \ {0} /\ H % SubSide = 0 /\ W % SubSide = 0
  /\ DOMAIN field = (0 .. H - 1) \X (0 .. W - 1) /\ \A p \in DOMAIN field : field[p] \in Int
  /\ r.y \in Nat /\ r.x \in Nat /\ r.h \in Nat \ {0} /\ r.w \in Nat \ {0}
  /\ r.y + r.h <= H /\ r.x + r.w <= W

(* A field has side lengths in cells, and every region lies within it. *)
LEMMA FieldFits ==
  ASSUME NEW field, NEW r, IsField(field), IsRegion(field, r)
  PROVE  \E H, W : Fits(field, r, H, W)
<1>1. PICK H \in 1 .. Cardinality(DOMAIN field), W \in 1 .. Cardinality(DOMAIN field) :
        /\ H % SubSide = 0 /\ W % SubSide = 0
        /\ field \in [(0 .. H - 1) \X (0 .. W - 1) -> Int]
  BY DEF IsField
<1>2. DOMAIN field = (0 .. H - 1) \X (0 .. W - 1) /\ \A p \in DOMAIN field : field[p] \in Int
  BY <1>1
<1>3. H \in Nat \ {0} /\ W \in Nat \ {0}
  OBVIOUS
<1>4. r.y \in Nat /\ r.x \in Nat /\ r.h \in Nat \ {0} /\ r.w \in Nat \ {0}
  BY DEF IsRegion
<1>5. r.y + r.h - 1 \in 0 .. H - 1 /\ r.x + r.w - 1 \in 0 .. W - 1
  BY <1>2 DEF IsRegion
<1>6. r.y + r.h <= H /\ r.x + r.w <= W
  BY <1>3, <1>4, <1>5
<1> QED
  BY <1>1, <1>2, <1>3, <1>4, <1>6 DEF Fits

(* A coordinate in a cell between the first and the last that lie inside is inside. *)
LEMMA InsideOneAxis ==
  ASSUME NEW s \in Nat \ {0}, NEW y \in Nat, NEW h \in Nat, NEW q \in Nat,
         CeilDiv(y, s) <= q \div s, q \div s < (y + h) \div s
  PROVE  y <= q /\ q < y + h
<1> DEFINE c == q \div s
           k == CeilDiv(y, s)
           e == (y + h) \div s
           z == y + s - 1
<1>1. c \in Nat /\ q % s \in 0 .. s - 1 /\ q = c * s + (q % s)
  BY DivisionOf
<1>2. k \in Nat /\ z % s \in 0 .. s - 1 /\ z = k * s + (z % s)
  <2>1. z \in Nat /\ k = z \div s
    BY DEF CeilDiv
  <2> HIDE DEF z, k
  <2> QED
    BY <2>1, DivisionOf
<1>3. e \in Nat /\ e * s <= y + h
  <2>1. y + h \in Nat
    OBVIOUS
  <2>2. e \in Nat /\ (y + h) % s \in 0 .. s - 1 /\ y + h = e * s + ((y + h) % s)
    BY <2>1, DivisionOf
  <2> HIDE DEF e
  <2>3. e * s \in Nat
    BY <2>2
  <2> DEFINE f == e * s
  <2> HIDE DEF f
  <2> QED
    BY <2>2, <2>3 DEF f
<1>4. k <= c /\ c + 1 <= e
  <2>1. c < e /\ k <= c
    OBVIOUS
  <2> HIDE DEF c, e, k
  <2> QED
    BY <1>1, <1>3, <2>1
<1>5. z = y + s - 1
  OBVIOUS
<1> HIDE DEF c, k, e, z
<1>6. k * s <= c * s /\ (c + 1) * s <= e * s /\ (c + 1) * s = c * s + s
  BY <1>1, <1>2, <1>3, <1>4, ProductGrows
<1> DEFINE ks == k * s
           cs == c * s
           es == e * s
<1>7. ks \in Int /\ cs \in Int /\ es \in Int /\ ks <= cs /\ cs + s <= es /\ es <= y + h
      /\ z = ks + (z % s) /\ q = cs + (q % s)
  BY <1>1, <1>2, <1>3, <1>6
<1> HIDE DEF ks, cs, es
<1> QED
  BY <1>1, <1>2, <1>5, <1>7

(* Every value is one of its cell, and cells have finitely many. *)
LEMMA CellsAre ==
  ASSUME NEW field, NEW r, NEW H, NEW W, Fits(field, r, H, W), NEW side \in Nat \ {0}
  PROVE  /\ IsFiniteSet(DOMAIN field) /\ Cardinality(DOMAIN field) = H * W
         /\ IsFiniteSet(Cells(field, side))
         /\ \A p \in DOMAIN field : /\ CellAt(p, side) \in Cells(field, side)
                                    /\ field[p] \in Cell(field, side, CellAt(p, side))
         /\ \A c \in Cells(field, side) :
              /\ Numbers(Cell(field, side, c))
              /\ \A e \in Cell(field, side, c) :
                   \E p \in DOMAIN field : field[p] = e /\ CellAt(p, side) = c
<1> DEFINE G == DOMAIN field
           at == [p \in G |-> CellAt(p, side)]
<1>1. IsFiniteSet(G) /\ Cardinality(G) = H * W
  <2>1. G = (0 .. H - 1) \X (0 .. W - 1) /\ H \in Nat /\ W \in Nat
    BY DEF Fits
  <2>2. IsFiniteSet(0 .. H - 1) /\ Cardinality(0 .. H - 1) = H
    <3>1. 0 \in Int /\ H - 1 \in Int
      BY <2>1
    <3>2. /\ IsFiniteSet(0 .. H - 1)
          /\ Cardinality(0 .. H - 1) = IF 0 > H - 1 THEN 0 ELSE H - 1 - 0 + 1
      BY <3>1, FS_Interval, Zenon
    <3> QED
      BY <2>1, <3>2
  <2>3. IsFiniteSet(0 .. W - 1) /\ Cardinality(0 .. W - 1) = W
    <3>1. 0 \in Int /\ W - 1 \in Int
      BY <2>1
    <3>2. /\ IsFiniteSet(0 .. W - 1)
          /\ Cardinality(0 .. W - 1) = IF 0 > W - 1 THEN 0 ELSE W - 1 - 0 + 1
      BY <3>1, FS_Interval, Zenon
    <3> QED
      BY <2>1, <3>2
  <2> DEFINE I == 0 .. H - 1
             J == 0 .. W - 1
  <2> HIDE DEF I, J, G
  <2>4. IsFiniteSet(I) /\ Cardinality(I) = H /\ IsFiniteSet(J) /\ Cardinality(J) = W /\ G = I \X J
    BY <2>1, <2>2, <2>3 DEF I, J
  <2>5. IsFiniteSet(I \X J) /\ Cardinality(I \X J) = Cardinality(I) * Cardinality(J)
    BY <2>4, FS_Product
  <2> QED
    BY <2>4, <2>5
<1>2. IsFiniteSet(Cells(field, side))
  <2>1. IsFiniteSet({at[p] : p \in G})
    <3> HIDE DEF at, G
    <3> QED
      BY <1>1, ImageFinite
  <2>2. \A p \in G : at[p] = CellAt(p, side)
    OBVIOUS
  <2>3. Cells(field, side) = {CellAt(p, side) : p \in G}
    BY DEF Cells, CellAt
  <2> HIDE DEF at
  <2>4. Cells(field, side) = {at[p] : p \in G}
    BY <2>2, <2>3
  <2> QED
    BY <2>1, <2>4
<1>3. ASSUME NEW p \in G
      PROVE  /\ CellAt(p, side) \in Cells(field, side)
             /\ field[p] \in Cell(field, side, CellAt(p, side))
  BY DEF Cells, Cell, CellAt
<1>4. ASSUME NEW c \in Cells(field, side)
      PROVE  /\ Numbers(Cell(field, side, c))
             /\ \A e \in Cell(field, side, c) : \E p \in G : field[p] = e /\ CellAt(p, side) = c
  <2> DEFINE K == {q \in G : q[1] \div side = c[1] /\ q[2] \div side = c[2]}
  <2>1. PICK o \in G : c = CellAt(o, side)
    BY DEF Cells, CellAt
  <2>2. o \in K
    BY <2>1 DEF CellAt
  <2>3. K \in SUBSET G /\ IsFiniteSet(K)
    <3>1. K \in SUBSET G
      OBVIOUS
    <3> HIDE DEF K, G
    <3> QED
      BY <1>1, <3>1, FS_Subset
  <2>4. Cell(field, side, c) = {field[p] : p \in K}
    BY DEF Cell
  <2>5. \A p \in K : p \in G /\ field[p] \in Int /\ CellAt(p, side) = c
    <3> SUFFICES ASSUME NEW p \in K PROVE p \in G /\ field[p] \in Int /\ CellAt(p, side) = c
      OBVIOUS
    <3>1. p \in G /\ p[1] \div side = c[1] /\ p[2] \div side = c[2]
      OBVIOUS
    <3>2. CellAt(p, side) = <<c[1], c[2]>> /\ c = <<c[1], c[2]>>
      BY <2>1, <3>1 DEF CellAt
    <3> QED
      BY <3>1, <3>2 DEF Fits
  <2> HIDE DEF K
  <2>6. IsFiniteSet({field[p] : p \in K})
    BY <2>3, ImageFinite
  <2>7. Numbers({field[p] : p \in K})
    BY <2>2, <2>5, <2>6 DEF Numbers
  <2>8. \A e \in {field[p] : p \in K} : \E p \in G : field[p] = e /\ CellAt(p, side) = c
    BY <2>5
  <2> QED
    BY <2>4, <2>7, <2>8, Zenon
<1> HIDE DEF at
<1> QED
  BY <1>1, <1>2, <1>3, <1>4

(* A region touches the cells of its values. *)
LEMMA TouchedAre ==
  ASSUME NEW field, NEW r, NEW H, NEW W, Fits(field, r, H, W), NEW side \in Nat \ {0},
         NEW p \in InRegion(field, r)
  PROVE  CellAt(p, side) \in Touched(field, r, side)
<1>1. /\ p \in DOMAIN field /\ p[1] \in Nat /\ p[2] \in Nat
      /\ r.y <= p[1] /\ p[1] < r.y + r.h /\ r.x <= p[2] /\ p[2] < r.x + r.w
      /\ r.y \in Nat /\ r.x \in Nat /\ r.h \in Nat \ {0} /\ r.w \in Nat \ {0}
  BY DEF InRegion, Fits
<1>2. /\ r.y + r.h - 1 \in Nat /\ p[1] <= r.y + r.h - 1
      /\ r.x + r.w - 1 \in Nat /\ p[2] <= r.x + r.w - 1
  BY <1>1
<1>3. r.y \div side <= p[1] \div side /\ p[1] \div side <= (r.y + r.h - 1) \div side
  BY <1>1, <1>2, QuotientsOrdered
<1>4. r.x \div side <= p[2] \div side /\ p[2] \div side <= (r.x + r.w - 1) \div side
  BY <1>1, <1>2, QuotientsOrdered
<1>5. CellAt(p, side) \in Cells(field, side)
  BY <1>1, CellsAre
<1>6. CellAt(p, side)[1] = p[1] \div side /\ CellAt(p, side)[2] = p[2] \div side
  BY DEF CellAt
<1> QED
  BY <1>3, <1>4, <1>5, <1>6, Zenon DEF Touched

(* Cells that lie in a region have only values of it. *)
LEMMA InsideAre ==
  ASSUME NEW field, NEW r, NEW H, NEW W, Fits(field, r, H, W), NEW side \in Nat \ {0},
         NEW c \in Inside(field, r, side), NEW e \in Cell(field, side, c)
  PROVE  e \in RegionValues(field, r)
<1>1. /\ c \in Cells(field, side)
      /\ CeilDiv(r.y, side) <= c[1] /\ c[1] < (r.y + r.h) \div side
      /\ CeilDiv(r.x, side) <= c[2] /\ c[2] < (r.x + r.w) \div side
  BY DEF Inside
<1>2. PICK p \in DOMAIN field : field[p] = e /\ CellAt(p, side) = c
  BY <1>1, CellsAre
<1>3. c[1] = p[1] \div side /\ c[2] = p[2] \div side
  BY <1>2 DEF CellAt
<1>4. p[1] \in Nat /\ p[2] \in Nat /\ r.y \in Nat /\ r.x \in Nat /\ r.h \in Nat /\ r.w \in Nat
  BY DEF Fits
<1>5. r.y <= p[1] /\ p[1] < r.y + r.h
  BY <1>1, <1>3, <1>4, InsideOneAxis
<1>6. r.x <= p[2] /\ p[2] < r.x + r.w
  BY <1>1, <1>3, <1>4, InsideOneAxis
<1>7. p \in InRegion(field, r)
  BY <1>5, <1>6 DEF InRegion
<1> QED
  BY <1>2, <1>7 DEF RegionValues

(* Sides no longer than others with the same product are the same. *)
LEMMA SameSides ==
  ASSUME NEW H \in Nat \ {0}, NEW W \in Nat \ {0}, NEW h \in Nat \ {0}, NEW w \in Nat \ {0},
         h <= H, w <= W, h * w = H * W
  PROVE  h = H /\ w = W
<1>1. h * w <= H * w
  BY ProductGrows
<1>2. w * H <= W * H
  BY ProductGrows
<1>3. w * H = H * w /\ W * H = H * W
  OBVIOUS
<1>4. H * w = H * W /\ h * w = H * w
  <2> DEFINE a == h * w
             b == H * w
             c == H * W
  <2>1. a \in Int /\ b \in Int /\ c \in Int /\ a <= b /\ b <= c /\ a = c
    BY <1>1, <1>2, <1>3
  <2> HIDE DEF a, b, c
  <2>2. a = b /\ b = c
    BY <2>1
  <2> QED
    BY <2>2 DEF a, b, c
<1>5. w = W
  <2> SUFFICES ASSUME w + 1 <= W PROVE FALSE
    OBVIOUS
  <2>1. (w + 1) * H <= W * H /\ (w + 1) * H = w * H + H
    BY ProductGrows
  <2> DEFINE a == w * H
  <2>2. a \in Int /\ a + H <= a
    BY <1>3, <1>4, <2>1
  <2> HIDE DEF a
  <2> QED
    BY <2>2
<1>6. h = H
  <2> SUFFICES ASSUME h + 1 <= H PROVE FALSE
    OBVIOUS
  <2>1. (h + 1) * w <= H * w /\ (h + 1) * w = h * w + w
    BY ProductGrows
  <2> DEFINE a == h * w
  <2>2. a \in Int /\ a + w <= a
    BY <1>4, <2>1
  <2> HIDE DEF a
  <2> QED
    BY <2>2
<1> QED
  BY <1>5, <1>6

(* Of the whole field every sub-chunk lies inside. *)
LEMMA WholeAre ==
  ASSUME NEW field, NEW r, NEW H, NEW W, Fits(field, r, H, W), SubSide \in Nat \ {0},
         r.h * r.w = Cardinality(DOMAIN field), NEW p \in InRegion(field, r)
  PROVE  CellAt(p, SubSide) \in Inside(field, r, SubSide)
<1> DEFINE s == SubSide
           a == p[1]
           b == p[2]
<1>0. s \in Nat \ {0}
  OBVIOUS
<1>1. /\ H \in Nat \ {0} /\ W \in Nat \ {0} /\ H % s = 0 /\ W % s = 0
      /\ r.y \in Nat /\ r.x \in Nat /\ r.h \in Nat \ {0} /\ r.w \in Nat \ {0}
      /\ r.y + r.h <= H /\ r.x + r.w <= W
  BY DEF Fits
<1>2. r.h * r.w = H * W
  <2>1. Cardinality(DOMAIN field) = H * W
    BY CellsAre
  <2> QED
    BY <2>1
<1>3. r.h = H /\ r.w = W
  <2>1. r.h <= H /\ r.w <= W
    BY <1>1
  <2> QED
    BY <1>1, <1>2, <2>1, SameSides
<1>4. r.y = 0 /\ r.x = 0 /\ r.y + r.h = H /\ r.x + r.w = W
  BY <1>1, <1>3
<1>5. p \in DOMAIN field /\ a \in Nat /\ b \in Nat /\ a < H /\ b < W
  BY <1>1 DEF InRegion, Fits
<1> HIDE DEF s, a, b
<1>6. CeilDiv(0, s) = 0
  <2> DEFINE k == (s - 1) \div s
  <2>1. s - 1 \in Nat /\ s - 1 < 1 * s /\ k \in Nat
    BY <1>0, DivisionOf
  <2>2. k < 1
    BY <1>0, <2>1, DivisionOrder
  <2>3. CeilDiv(0, s) = k
    BY <1>0 DEF CeilDiv
  <2> HIDE DEF k
  <2> QED
    BY <2>1, <2>2, <2>3
<1>7. ASSUME NEW n \in Nat \ {0}, n % s = 0, NEW q \in Nat, q < n PROVE q \div s < n \div s
  <2> DEFINE k == n \div s
  <2>1. k \in Nat /\ n = k * s
    BY <1>0, <1>7, DivisionOf
  <2> HIDE DEF k
  <2>2. q < k * s
    BY <1>7, <2>1
  <2>3. q \div s < k
    BY <1>0, <2>1, <2>2, DivisionOrder
  <2> QED
    BY <2>3 DEF k
<1>8. 0 <= a \div s /\ 0 <= b \div s
  <2>1. a \div s \in Nat /\ b \div s \in Nat
    BY <1>0, <1>5, DivisionOf
  <2> QED
    BY <2>1
<1>9. a \div s < H \div s /\ b \div s < W \div s
  BY <1>1, <1>5, <1>7
<1>10. CellAt(p, s) \in Cells(field, s)
  BY <1>0, <1>5, CellsAre
<1>11. CellAt(p, s)[1] = a \div s /\ CellAt(p, s)[2] = b \div s
  BY DEF CellAt, a, b
<1>12. /\ CeilDiv(r.y, s) <= CellAt(p, s)[1] /\ CellAt(p, s)[1] < (r.y + r.h) \div s
       /\ CeilDiv(r.x, s) <= CellAt(p, s)[2] /\ CellAt(p, s)[2] < (r.x + r.w) \div s
  BY <1>4, <1>6, <1>8, <1>9, <1>11
<1>13. CellAt(p, s) \in Inside(field, r, s)
  BY <1>10, <1>12, Zenon DEF Inside
<1> QED
  BY <1>13 DEF s

(* Bounds of groups of numbers v, known from their groups: low and high of *)
(* T, of which those of I have no others, cmin and cmax of U.              *)
GroupBounds(v, T, I, U, low, high, cmin, cmax) ==
  /\ Numbers(v) /\ IsFiniteSet(T) /\ IsFiniteSet(I) /\ IsFiniteSet(U)
  /\ \A c \in T \cup I : low[c] \in Int /\ high[c] \in Int
  /\ \A e \in v : \E c \in T : low[c] <= e /\ e <= high[c]
  /\ \A c \in I : /\ \E e \in v : e <= high[c]
                  /\ \E e \in v : low[c] <= e
  /\ \A c \in U : cmin[c] \in v /\ cmax[c] \in v

(* Intervals made of lower and upper bounds lows and highs, of those of    *)
(* groups inside, and of least and greatest numbers.                       *)
IntervalsHold(v, I, lows, highs, lowsI, highsI, cmins, cmaxs) ==
  /\ Min(lows) <= Min(v) /\ Max(v) <= Max(highs)
  /\ Min(v) <= Min({IF I = {} THEN Max(highs) ELSE Min(highsI)} \cup cmins)
  /\ Max({IF I = {} THEN Min(lows) ELSE Max(lowsI)} \cup cmaxs) <= Max(v)

(* The intervals made of the groups' hold the least and the greatest number. *)
LEMMA GroupsBound ==
  ASSUME NEW v, NEW T, NEW I, NEW U, NEW low, NEW high, NEW cmin, NEW cmax,
         GroupBounds(v, T, I, U, low, high, cmin, cmax)
  PROVE  IntervalsHold(v, I, {low[c] : c \in T}, {high[c] : c \in T}, {low[c] : c \in I},
                       {high[c] : c \in I}, {cmin[c] : c \in U}, {cmax[c] : c \in U})
<1> DEFINE lows == {low[c] : c \in T}
           highs == {high[c] : c \in T}
           highsI == {high[c] : c \in I}
           lowsI == {low[c] : c \in I}
           cmins == {cmin[c] : c \in U}
           cmaxs == {cmax[c] : c \in U}
           minHigh == IF I = {} THEN Max(highs) ELSE Min(highsI)
           maxLow == IF I = {} THEN Min(lows) ELSE Max(lowsI)
<1>1. /\ Min(v) \in v /\ \A e \in v : Min(v) <= e
      /\ Max(v) \in v /\ \A e \in v : e <= Max(v)
      /\ v \subseteq Int
  BY LeastGreatest DEF GroupBounds, Numbers
<1>2. Numbers(lows) /\ Numbers(highs)
  <2>1. /\ IsFiniteSet(T) /\ T # {} /\ (\A c \in T : low[c] \in Int)
        /\ (\A c \in T : high[c] \in Int)
    BY <1>1 DEF GroupBounds
  <2> QED
    BY <2>1, ImageNumbers
<1>3. I # {} => Numbers(lowsI) /\ Numbers(highsI)
  <2> SUFFICES ASSUME I # {} PROVE Numbers(lowsI) /\ Numbers(highsI)
    OBVIOUS
  <2>1. /\ IsFiniteSet(I) /\ I # {} /\ (\A c \in I : low[c] \in Int)
        /\ (\A c \in I : high[c] \in Int)
    BY DEF GroupBounds
  <2> QED
    BY <2>1, ImageNumbers
<1>4. /\ Min(lows) \in Int /\ \A x \in lows : Min(lows) <= x
      /\ Max(highs) \in Int /\ \A x \in highs : x <= Max(highs)
      /\ lows \subseteq Int /\ highs \subseteq Int
  <2> HIDE DEF lows, highs
  <2>1. Min(lows) \in lows /\ \A x \in lows : Min(lows) <= x
    BY <1>2, LeastGreatest
  <2>2. Max(highs) \in highs /\ \A x \in highs : x <= Max(highs)
    BY <1>2, LeastGreatest
  <2> QED
    BY <1>2, <2>1, <2>2 DEF Numbers
<1>5. I # {} => /\ Max(lowsI) \in lowsI /\ Max(lowsI) \in Int
                /\ Min(highsI) \in highsI /\ Min(highsI) \in Int
  <2> HIDE DEF lowsI, highsI
  <2> SUFFICES ASSUME I # {}
               PROVE  /\ Max(lowsI) \in lowsI /\ Max(lowsI) \in Int
                      /\ Min(highsI) \in highsI /\ Min(highsI) \in Int
    OBVIOUS
  <2>1. Max(lowsI) \in lowsI
    BY <1>3, LeastGreatest
  <2>2. Min(highsI) \in highsI
    BY <1>3, LeastGreatest
  <2> QED
    BY <1>3, <2>1, <2>2 DEF Numbers
<1>6. Min(lows) <= Min(v) /\ Max(v) <= Max(highs)
  <2>1. PICK c \in T : low[c] <= Min(v)
    BY <1>1 DEF GroupBounds
  <2>2. PICK d \in T : Max(v) <= high[d]
    BY <1>1 DEF GroupBounds
  <2>3. low[c] \in lows /\ high[d] \in highs /\ Min(v) \in Int /\ Max(v) \in Int
    BY <1>1
  <2> HIDE DEF lows, highs
  <2>4. Min(lows) <= low[c] /\ high[d] <= Max(highs) /\ low[c] \in Int /\ high[d] \in Int
    BY <1>4, <2>3
  <2> QED
    BY <1>4, <2>1, <2>2, <2>3, <2>4
<1>7. minHigh \in Int /\ Min(v) <= minHigh
  <2>1. CASE I = {}
    <3>1. PICK d \in T : Min(v) <= high[d]
      BY <1>1 DEF GroupBounds
    <3>2. high[d] \in highs
      OBVIOUS
    <3>3. minHigh = Max(highs) /\ Min(v) \in Int
      BY <1>1, <2>1
    <3> HIDE DEF highs, minHigh
    <3>4. high[d] <= Max(highs) /\ high[d] \in Int
      BY <1>4, <3>2
    <3> QED
      BY <1>4, <3>1, <3>3, <3>4
  <2>2. CASE I # {}
    <3>1. PICK c \in I : Min(highsI) = high[c]
      BY <1>5, <2>2
    <3>2. PICK e \in v : e <= high[c]
      BY DEF GroupBounds
    <3>3. minHigh = high[c] /\ high[c] \in Int /\ Min(v) <= e /\ e \in Int /\ Min(v) \in Int
      BY <1>1, <1>5, <2>2, <3>1
    <3> HIDE DEF minHigh
    <3> QED
      BY <3>2, <3>3
  <2> QED
    BY <2>1, <2>2
<1>8. maxLow \in Int /\ maxLow <= Max(v)
  <2>1. CASE I = {}
    <3>1. PICK d \in T : low[d] <= Max(v)
      BY <1>1 DEF GroupBounds
    <3>2. low[d] \in lows
      OBVIOUS
    <3>3. maxLow = Min(lows) /\ Max(v) \in Int
      BY <1>1, <2>1
    <3> HIDE DEF lows, maxLow
    <3>4. Min(lows) <= low[d] /\ low[d] \in Int
      BY <1>4, <3>2
    <3> QED
      BY <1>4, <3>1, <3>3, <3>4
  <2>2. CASE I # {}
    <3>1. PICK c \in I : Max(lowsI) = low[c]
      BY <1>5, <2>2
    <3>2. PICK e \in v : low[c] <= e
      BY DEF GroupBounds
    <3>3. maxLow = low[c] /\ low[c] \in Int /\ e <= Max(v) /\ e \in Int /\ Max(v) \in Int
      BY <1>1, <1>5, <2>2, <3>1
    <3> HIDE DEF maxLow
    <3> QED
      BY <3>2, <3>3
  <2> QED
    BY <2>1, <2>2
<1>9. cmins \subseteq v /\ cmaxs \subseteq v /\ IsFiniteSet(cmins) /\ IsFiniteSet(cmaxs)
  <2>1. cmins \subseteq v /\ cmaxs \subseteq v
    BY DEF GroupBounds
  <2>2. IsFiniteSet(U)
    BY DEF GroupBounds
  <2> QED
    BY <2>1, <2>2, ImageFinite
<1> HIDE DEF lows, highs, lowsI, highsI, cmins, cmaxs, minHigh, maxLow
<1>10. Min(v) <= Min({minHigh} \cup cmins)
  <2> DEFINE X == {minHigh} \cup cmins
  <2>1. \A x \in X : x \in Int /\ Min(v) <= x
    BY <1>1, <1>7, <1>9
  <2>2. IsFiniteSet(X)
    BY <1>9, FS_AddElement
  <2>3. minHigh \in X
    OBVIOUS
  <2> HIDE DEF X
  <2>4. Numbers(X)
    BY <2>1, <2>2, <2>3 DEF Numbers
  <2>5. Min(X) \in X
    BY <2>4, LeastGreatest
  <2> QED
    BY <2>1, <2>5 DEF X
<1>11. Max({maxLow} \cup cmaxs) <= Max(v)
  <2> DEFINE X == {maxLow} \cup cmaxs
  <2>1. \A x \in X : x \in Int /\ x <= Max(v)
    BY <1>1, <1>8, <1>9
  <2>2. IsFiniteSet(X)
    BY <1>9, FS_AddElement
  <2>3. maxLow \in X
    OBVIOUS
  <2> HIDE DEF X
  <2>4. Numbers(X)
    BY <2>1, <2>2, <2>3 DEF Numbers
  <2>5. Max(X) \in X
    BY <2>4, LeastGreatest
  <2> QED
    BY <2>1, <2>5 DEF X
<1>12. IntervalsHold(v, I, lows, highs, lowsI, highsI, cmins, cmaxs)
  BY <1>6, <1>10, <1>11 DEF IntervalsHold, minHigh, maxLow
<1> QED
  BY <1>12 DEF lows, highs, lowsI, highsI, cmins, cmaxs

(* What meta_minmax concludes of a region's least and greatest value is true. *)
LEMMA ExtremesBetween ==
  ASSUME NEW field, NEW r, IsField(field), IsRegion(field, r), NEW slack \in Nat
  PROVE  ExtremesInside(field, r, slack)
<1> DEFINE v == RegionValues(field, r)
           B == BlockSide
           S == SubSide
           T == Touched(field, r, B)
           I == Inside(field, r, B)
           U == Inside(field, r, S)
           K(c) == Cell(field, B, c)
           L(c) == Cell(field, S, c)
           low == [c \in Cells(field, B) |-> Min(K(c)) - slack]
           high == [c \in Cells(field, B) |-> Max(K(c)) + slack]
           cmin == [c \in Cells(field, S) |-> Min(L(c))]
           cmax == [c \in Cells(field, S) |-> Max(L(c))]
           whole == r.h * r.w = Cardinality(DOMAIN field)
<1>1. PICK H, W : Fits(field, r, H, W)
  BY FieldFits
<1>2. B \in Nat \ {0} /\ S \in Nat \ {0}
  <2>1. BlockSide \in Nat \ {0} /\ SubBlocks \in Nat \ {0}
    BY SidesAssumption
  <2> QED
    BY <2>1, Positive DEF SubSide
<1> HIDE DEF B, S
<1>3. /\ IsFiniteSet(DOMAIN field)
      /\ T \subseteq Cells(field, B) /\ I \subseteq Cells(field, B) /\ U \subseteq Cells(field, S)
      /\ IsFiniteSet(T) /\ IsFiniteSet(I) /\ IsFiniteSet(U)
  <2>1. IsFiniteSet(DOMAIN field) /\ IsFiniteSet(Cells(field, B)) /\ IsFiniteSet(Cells(field, S))
    BY <1>1, <1>2, CellsAre
  <2>2. T \subseteq Cells(field, B) /\ I \subseteq Cells(field, B) /\ U \subseteq Cells(field, S)
    BY DEF Touched, Inside
  <2> HIDE DEF T, I, U
  <2> QED
    BY <2>1, <2>2, FS_Subset
<1>4. Numbers(v)
  <2>1. InRegion(field, r) \in SUBSET DOMAIN field /\ IsFiniteSet(InRegion(field, r))
    <3>1. InRegion(field, r) \in SUBSET DOMAIN field
      BY DEF InRegion
    <3> QED
      BY <1>3, <3>1, FS_Subset
  <2>2. \A p \in InRegion(field, r) : field[p] \in Int
    BY <1>1, <2>1 DEF Fits
  <2>3. <<r.y, r.x>> \in InRegion(field, r)
    <3>1. /\ r.y \in Nat /\ r.x \in Nat /\ r.h \in Nat \ {0} /\ r.w \in Nat \ {0}
          /\ H \in Nat /\ W \in Nat /\ r.y + r.h <= H /\ r.x + r.w <= W
          /\ DOMAIN field = (0 .. H - 1) \X (0 .. W - 1)
      BY <1>1 DEF Fits
    <3>2. r.y \in 0 .. H - 1 /\ r.x \in 0 .. W - 1
      BY <3>1
    <3>3. <<r.y, r.x>> \in DOMAIN field
      BY <3>1, <3>2
    <3>4. r.y <= r.y /\ r.y < r.y + r.h /\ r.x <= r.x /\ r.x < r.x + r.w
      BY <3>1
    <3> QED
      BY <3>3, <3>4 DEF InRegion
  <2>4. IsFiniteSet({field[p] : p \in InRegion(field, r)})
    BY <2>1, ImageFinite
  <2> QED
    BY <2>2, <2>3, <2>4 DEF Numbers, RegionValues
<1>5. ASSUME NEW c \in Cells(field, B)
      PROVE  /\ low[c] \in Int /\ high[c] \in Int /\ K(c) # {}
             /\ \A e \in K(c) : e \in Int /\ low[c] <= e /\ e <= high[c]
  <2>1. Numbers(K(c))
    BY <1>1, <1>2, CellsAre
  <2>2. low[c] = Min(K(c)) - slack /\ high[c] = Max(K(c)) + slack
    OBVIOUS
  <2> DEFINE k == K(c)
  <2>3. Numbers(k) /\ low[c] = Min(k) - slack /\ high[c] = Max(k) + slack
    BY <2>1, <2>2
  <2> HIDE DEF k, low, high
  <2>4. /\ Min(k) \in k /\ \A x \in k : Min(k) <= x
        /\ Max(k) \in k /\ \A x \in k : x <= Max(k)
    BY <2>3, LeastGreatest
  <2>5. \A e \in k : e \in Int
    BY <2>3 DEF Numbers
  <2>6. /\ low[c] \in Int /\ high[c] \in Int /\ k # {}
        /\ \A e \in k : e \in Int /\ low[c] <= e /\ e <= high[c]
    BY <2>3, <2>4, <2>5
  <2> QED
    BY <2>6 DEF k
<1>6. ASSUME NEW c \in Cells(field, S)
      PROVE  /\ cmin[c] \in L(c) /\ cmax[c] \in L(c)
             /\ \A e \in L(c) : cmin[c] <= e /\ e <= cmax[c]
  <2>1. Numbers(L(c))
    BY <1>1, <1>2, CellsAre
  <2> DEFINE k == L(c)
  <2>2. Numbers(k) /\ cmin[c] = Min(k) /\ cmax[c] = Max(k)
    BY <2>1
  <2> HIDE DEF k, cmin, cmax
  <2>3. /\ Min(k) \in k /\ \A x \in k : Min(k) <= x
        /\ Max(k) \in k /\ \A x \in k : x <= Max(k)
    BY <2>2, LeastGreatest
  <2>4. cmin[c] \in k /\ cmax[c] \in k /\ \A e \in k : cmin[c] <= e /\ e <= cmax[c]
    BY <2>2, <2>3
  <2> QED
    BY <2>4 DEF k
<1> HIDE DEF low, high, cmin, cmax
<1>7. \A e \in v : \E c \in T : low[c] <= e /\ e <= high[c]
  <2> SUFFICES ASSUME NEW e \in v PROVE \E c \in T : low[c] <= e /\ e <= high[c]
    OBVIOUS
  <2>1. PICK p \in InRegion(field, r) : e = field[p]
    BY DEF RegionValues
  <2>2. CellAt(p, B) \in T
    BY <1>1, <1>2, TouchedAre
  <2>3. p \in DOMAIN field
    BY DEF InRegion
  <2>4. CellAt(p, B) \in Cells(field, B) /\ e \in K(CellAt(p, B))
    BY <1>1, <1>2, <2>1, <2>3, CellsAre
  <2> QED
    BY <1>5, <2>2, <2>4
<1>8. \A c \in I : (\E e \in v : e <= high[c]) /\ (\E e \in v : low[c] <= e)
  <2> SUFFICES ASSUME NEW c \in I PROVE (\E e \in v : e <= high[c]) /\ (\E e \in v : low[c] <= e)
    OBVIOUS
  <2>1. c \in Cells(field, B)
    BY <1>3
  <2>2. PICK e \in K(c) : low[c] <= e /\ e <= high[c]
    BY <1>5, <2>1
  <2>3. e \in v
    BY <1>1, <1>2, InsideAre
  <2> QED
    BY <2>2, <2>3
<1>9. \A c \in U : cmin[c] \in v /\ cmax[c] \in v
  <2> SUFFICES ASSUME NEW c \in U PROVE cmin[c] \in v /\ cmax[c] \in v
    OBVIOUS
  <2>1. c \in Cells(field, S)
    BY <1>3
  <2>2. cmin[c] \in L(c) /\ cmax[c] \in L(c)
    BY <1>6, <2>1
  <2>3. \A e \in L(c) : e \in v
    BY <1>1, <1>2, InsideAre
  <2> QED
    BY <2>2, <2>3
<1>10. whole => \A e \in v : \E c \in U : cmin[c] <= e /\ e <= cmax[c]
  <2> SUFFICES ASSUME whole, NEW e \in v PROVE \E c \in U : cmin[c] <= e /\ e <= cmax[c]
    OBVIOUS
  <2>1. PICK p \in InRegion(field, r) : e = field[p]
    BY DEF RegionValues
  <2>2. CellAt(p, S) \in U
    <3>1. SubSide \in Nat \ {0} /\ r.h * r.w = Cardinality(DOMAIN field)
      BY <1>2 DEF S
    <3>2. CellAt(p, SubSide) \in Inside(field, r, SubSide)
      BY <1>1, <3>1, WholeAre
    <3> QED
      BY <3>2 DEF S
  <2>3. p \in DOMAIN field
    BY DEF InRegion
  <2>4. CellAt(p, S) \in Cells(field, S) /\ e \in L(CellAt(p, S))
    BY <1>1, <1>2, <2>1, <2>3, CellsAre
  <2> QED
    BY <1>6, <2>2, <2>4
<1>11. GroupBounds(v, T, I, U, low, high, cmin, cmax)
  <2>1. \A c \in T \cup I : low[c] \in Int /\ high[c] \in Int
    BY <1>3, <1>5
  <2> HIDE DEF v, T, I, U
  <2> QED
    BY <1>3, <1>4, <1>7, <1>8, <1>9, <2>1 DEF GroupBounds
<1> DEFINE lows == {low[c] : c \in T}
           highs == {high[c] : c \in T}
           highsI == {high[c] : c \in I}
           lowsI == {low[c] : c \in I}
           cmins == {cmin[c] : c \in U}
           cmaxs == {cmax[c] : c \in U}
           minHigh == IF I = {} THEN Max(highs) ELSE Min(highsI)
           maxLow == IF I = {} THEN Min(lows) ELSE Max(lowsI)
<1>12. /\ lows = {Min(K(c)) - slack : c \in T} /\ highs = {Max(K(c)) + slack : c \in T}
       /\ lowsI = {Min(K(c)) - slack : c \in I} /\ highsI = {Max(K(c)) + slack : c \in I}
       /\ cmins = {Min(L(c)) : c \in U} /\ cmaxs = {Max(L(c)) : c \in U}
  <2>1. \A c \in Cells(field, B) : low[c] = Min(K(c)) - slack /\ high[c] = Max(K(c)) + slack
    BY DEF low, high
  <2>2. \A c \in Cells(field, S) : cmin[c] = Min(L(c)) /\ cmax[c] = Max(L(c))
    BY DEF cmin, cmax
  <2>3. /\ \A c \in T : low[c] = Min(K(c)) - slack /\ high[c] = Max(K(c)) + slack
        /\ \A c \in I : low[c] = Min(K(c)) - slack /\ high[c] = Max(K(c)) + slack
        /\ \A c \in U : cmin[c] = Min(L(c)) /\ cmax[c] = Max(L(c))
    BY <1>3, <2>1, <2>2
  <2> HIDE DEF T, I, U, K, L
  <2>4. lows = {Min(K(c)) - slack : c \in T} /\ highs = {Max(K(c)) + slack : c \in T}
    BY <2>3
  <2>5. lowsI = {Min(K(c)) - slack : c \in I} /\ highsI = {Max(K(c)) + slack : c \in I}
    BY <2>3
  <2>6. cmins = {Min(L(c)) : c \in U} /\ cmaxs = {Max(L(c)) : c \in U}
    BY <2>3
  <2> QED
    BY <2>4, <2>5, <2>6
<1>13. /\ Min(lows) <= Min(v) /\ Max(v) <= Max(highs)
       /\ Min(v) <= Min({minHigh} \cup cmins) /\ Max({maxLow} \cup cmaxs) <= Max(v)
  <2>1. IntervalsHold(v, I, lows, highs, lowsI, highsI, cmins, cmaxs)
    <3> HIDE DEF v, T, I, U
    <3> QED
      BY <1>11, GroupsBound
  <2> HIDE DEF v, I, lows, highs, lowsI, highsI, cmins, cmaxs
  <2> QED
    BY <2>1 DEF IntervalsHold
<1>14. whole => Min(cmins) <= Min(v) /\ Max(v) <= Max(cmaxs)
  <2> SUFFICES ASSUME whole PROVE Min(cmins) <= Min(v) /\ Max(v) <= Max(cmaxs)
    OBVIOUS
  <2> HIDE DEF v, T, I, U, whole
  <2>1. v \subseteq Int /\ Min(v) \in v /\ Max(v) \in v
    BY <1>4, LeastGreatest DEF Numbers
  <2>2. PICK c \in U : cmin[c] <= Min(v)
    BY <1>10, <2>1
  <2>3. PICK d \in U : Max(v) <= cmax[d]
    BY <1>10, <2>1
  <2>4. cmin[c] \in cmins /\ cmax[d] \in cmaxs /\ cmins \subseteq Int /\ cmaxs \subseteq Int
    BY <1>9, <2>1
  <2>5. IsFiniteSet(cmins) /\ IsFiniteSet(cmaxs)
    BY <1>3, ImageFinite
  <2> HIDE DEF cmins, cmaxs
  <2>6. Numbers(cmins) /\ Numbers(cmaxs)
    BY <2>4, <2>5 DEF Numbers
  <2>7. Min(cmins) \in cmins /\ Min(cmins) <= cmin[c]
    BY <2>4, <2>6, LeastGreatest
  <2>8. Max(cmaxs) \in cmaxs /\ cmax[d] <= Max(cmaxs)
    BY <2>4, <2>6, LeastGreatest
  <2>9. /\ Min(cmins) \in Int /\ cmin[c] \in Int /\ Max(cmaxs) \in Int /\ cmax[d] \in Int
        /\ Min(v) \in Int /\ Max(v) \in Int
    BY <2>1, <2>4, <2>7, <2>8
  <2> QED
    BY <2>2, <2>3, <2>7, <2>8, <2>9
<1> DEFINE m == [min_lo |-> IF whole THEN Min(cmins) ELSE Min(lows),
                 min_hi |-> Min({minHigh} \cup cmins),
                 max_lo |-> Max({maxLow} \cup cmaxs),
                 max_hi |-> IF whole THEN Max(cmaxs) ELSE Max(highs)]
<1>15. meta_minmax(field, r, slack) = m
  <2> DEFINE lowsT == {Min(K(c)) - slack : c \in T}
             highsT == {Max(K(c)) + slack : c \in T}
             highsOfI == {Max(K(c)) + slack : c \in I}
             lowsOfI == {Min(K(c)) - slack : c \in I}
             cminsU == {Min(L(c)) : c \in U}
             cmaxsU == {Max(L(c)) : c \in U}
  <2>1. meta_minmax(field, r, slack) =
          [min_lo |-> IF whole THEN Min(cminsU) ELSE Min(lowsT),
           min_hi |-> Min({IF I = {} THEN Max(highsT) ELSE Min(highsOfI)} \cup cminsU),
           max_lo |-> Max({IF I = {} THEN Min(lowsT) ELSE Max(lowsOfI)} \cup cmaxsU),
           max_hi |-> IF whole THEN Max(cmaxsU) ELSE Max(highsT)]
    BY DEF meta_minmax, S, B
  <2>2. /\ lows = lowsT /\ highs = highsT /\ lowsI = lowsOfI /\ highsI = highsOfI
        /\ cmins = cminsU /\ cmaxs = cmaxsU
    BY <1>12
  <2> HIDE DEF lows, highs, lowsI, highsI, cmins, cmaxs
  <2> HIDE DEF lowsT, highsT, lowsOfI, highsOfI, cminsU, cmaxsU, whole, I
  <2> QED
    BY <2>1, <2>2, Zenon
<1> HIDE DEF lows, highs, lowsI, highsI, cmins, cmaxs, minHigh, maxLow, whole, v
<1>16. m.min_lo <= Min(v) /\ Min(v) <= m.min_hi /\ m.max_lo <= Max(v) /\ Max(v) <= m.max_hi
  BY <1>13, <1>14
<1>17. v = {field[p] : p \in {q \in DOMAIN field : /\ r.y <= q[1] /\ q[1] < r.y + r.h
                                                   /\ r.x <= q[2] /\ q[2] < r.x + r.w}}
  BY DEF v, RegionValues, InRegion
<1> HIDE DEF m
<1> QED
  BY <1>15, <1>16, <1>17, Zenon DEF ExtremesInside

(* What stage2 and meta_minmax conclude from bounds holds of the original  *)
(* values: count and mean above any threshold of any list of values whose  *)
(* errors are bounded, least and greatest value of any region of any field *)
(* of whole sub-chunks, whatever the sides of a block and a sub-chunk.     *)
THEOREM EstimatesAlwaysHold == AlgorithmsSpec => []EstimatesHold
<1>1. GivenInput => EstimatesHold
  <2> SUFFICES ASSUME GivenInput PROVE EstimatesHold
    OBVIOUS
  <2>1. ASSUME Is("mean") PROVE MeanInside(input.values, input.th)
    <3>1. AreValues(input.values) /\ input.th \in Int
      BY <2>1, EstimatesAssumption DEF GivenInput, Is
    <3> QED
      BY <3>1, MeansBetween
  <2>2. ASSUME Is("extremes") PROVE ExtremesInside(input.field, input.region, input.slack)
    <3>1. IsField(input.field) /\ IsRegion(input.field, input.region) /\ input.slack \in Nat
      BY <2>2, EstimatesAssumption DEF GivenInput, Is
    <3> QED
      BY <3>1, ExtremesBetween
  <2> QED
    BY <2>1, <2>2 DEF EstimatesHold
<1> QED
  BY <1>1, InputsAreGiven, PTL

-----------------------------------------------------------------------------
(* Sorted lists (PointReads) *)

(* List u has the elements of S, in the order of their keys. *)
ListsByKey(u, S, key) ==
  LET n == Cardinality(S)
  IN  /\ n \in Nat /\ u \in [1 .. n -> S] /\ DOMAIN u = 1 .. n /\ Len(u) = n /\ ToSet(u) = S
      /\ \A b \in S : \E k \in 1 .. n : u[k] = b
      /\ \A k, l \in 1 .. n : k < l => key[u[k]] < key[u[l]]

(* Elements with different keys: for each place one with as many below it. *)
LEMMA RanksByKey ==
  ASSUME NEW S, IsFiniteSet(S), NEW key, Integers(key, S),
         \A b, c \in S : key[b] = key[c] => b = c
  PROVE  \E p \in Bijection(1 .. Cardinality(S), S) :
           /\ Cardinality(S) \in Nat
           /\ \A k \in 1 .. Cardinality(S) :
                p[k] \in S /\ Cardinality({c \in S : key[c] < key[p[k]]}) = k - 1
           /\ \A k \in 1 .. Cardinality(S), b \in S :
                Cardinality({c \in S : key[c] < key[b]}) = k - 1 => b = p[k]
           /\ \A k, l \in 1 .. Cardinality(S) : k < l => key[p[k]] < key[p[l]]
<1> DEFINE n == Cardinality(S)
           below == [b \in S |-> {c \in S : key[c] < key[b]}]
           place == [b \in S |-> [chunk |-> key[b], block |-> 0]]
<1>1. \A b \in S : place[b].chunk = key[b] /\ place[b].block = 0 /\ key[b] \in Int
  BY DEF Integers
<1>2. \A b, c \in S : Before(place[c], place[b]) <=> key[c] < key[b]
  BY <1>1 DEF Before
<1>3. \A b \in S : below[b] = {c \in S : Before(place[c], place[b])}
  BY <1>2
<1>4. place = [b \in S |-> place[b]]
  OBVIOUS
<1>5. \A b, c \in S : place[b].chunk = place[c].chunk /\ place[b].block = place[c].block => b = c
  BY <1>1
<1>6. \A b \in S : place[b].chunk \in Int /\ place[b].block \in Int
  BY <1>1
<1> HIDE DEF place
<1>7. PICK p : ListsByRank(p, S, place, below)
  <2> HIDE DEF below
  <2> QED
    BY <1>3, <1>4, <1>5, <1>6, Ranked
<1>8. /\ n \in Nat /\ p \in Bijection(1 .. n, S)
      /\ \A k \in 1 .. n : p[k] \in S /\ Cardinality(below[p[k]]) = k - 1
      /\ \A k \in 1 .. n, i \in S : Cardinality(below[i]) = k - 1 => i = p[k]
      /\ \A k, l \in 1 .. n : k < l => Before(place[p[k]], place[p[l]])
  <2> HIDE DEF below
  <2> QED
    BY <1>7 DEF ListsByRank
<1>9. \A b \in S : below[b] = {c \in S : key[c] < key[b]}
  OBVIOUS
<1> HIDE DEF below
<1>10. /\ \A k \in 1 .. n : p[k] \in S /\ Cardinality({c \in S : key[c] < key[p[k]]}) = k - 1
       /\ \A k \in 1 .. n, b \in S : Cardinality({c \in S : key[c] < key[b]}) = k - 1 => b = p[k]
  <2>1. \A k \in 1 .. n : p[k] \in S /\ Cardinality({c \in S : key[c] < key[p[k]]}) = k - 1
    BY <1>8, <1>9
  <2>2. ASSUME NEW k \in 1 .. n, NEW b \in S, Cardinality({c \in S : key[c] < key[b]}) = k - 1
        PROVE  b = p[k]
    <3>1. Cardinality(below[b]) = k - 1
      BY <1>9, <2>2
    <3> QED
      BY <1>8, <3>1
  <2> QED
    BY <2>1, <2>2
<1>11. \A k, l \in 1 .. n : k < l => key[p[k]] < key[p[l]]
  BY <1>2, <1>8
<1> QED
  BY <1>8, <1>10, <1>11

(* A list that has at every place an element with as many below it lists   *)
(* them in order.                                                          *)
LEMMA ListedByKey ==
  ASSUME NEW S, IsFiniteSet(S), NEW key, Integers(key, S),
         \A b, c \in S : key[b] = key[c] => b = c,
         NEW u, u = [k \in 1 .. Cardinality(S) |-> u[k]],
         \A k \in 1 .. Cardinality(S) :
           u[k] \in S /\ Cardinality({c \in S : key[c] < key[u[k]]}) = k - 1
  PROVE  ListsByKey(u, S, key)
<1> DEFINE n == Cardinality(S)
<1>1. PICK p \in Bijection(1 .. n, S) :
        /\ n \in Nat
        /\ \A k \in 1 .. n : p[k] \in S /\ Cardinality({c \in S : key[c] < key[p[k]]}) = k - 1
        /\ \A k \in 1 .. n, b \in S : Cardinality({c \in S : key[c] < key[b]}) = k - 1 => b = p[k]
        /\ \A k, l \in 1 .. n : k < l => key[p[k]] < key[p[l]]
  BY RanksByKey
<1>2. \A k \in 1 .. n : u[k] = p[k]
  BY <1>1
<1>3. n \in Nat
  BY <1>1
<1> HIDE DEF n
<1>4. u = [k \in 1 .. n |-> u[k]] /\ \A k \in 1 .. n : u[k] \in S
  BY DEF n
<1>5. u \in [1 .. n -> S]
  BY <1>4
<1>6. DOMAIN u = 1 .. n /\ Len(u) = n
  <2>1. DOMAIN u = 1 .. n
    BY <1>5
  <2>2. Len([k \in 1 .. n |-> u[k]]) = n
    BY <1>3
  <2>3. Len(u) = n
    BY <1>4, <2>2, Zenon
  <2> QED
    BY <2>1, <2>3
<1>7. \A b \in S : \E k \in 1 .. n : u[k] = b
  <2>1. \A b \in S : \E k \in 1 .. n : p[k] = b
    BY DEF Bijection, Surjection
  <2> QED
    BY <1>2, <2>1
<1>8. ToSet(u) = S
  <2>1. ToSet(u) = {u[k] : k \in 1 .. n}
    BY <1>6 DEF ToSet
  <2>2. \A x \in ToSet(u) : x \in S
    BY <1>4, <2>1
  <2>3. \A x \in S : x \in ToSet(u)
    BY <1>7, <2>1
  <2> HIDE DEF n
  <2> QED
    BY <2>2, <2>3
<1>9. \A k, l \in 1 .. n : k < l => key[u[k]] < key[u[l]]
  BY <1>1, <1>2
<1> QED
  BY <1>3, <1>5, <1>6, <1>7, <1>8, <1>9 DEF ListsByKey, n

(* For each place there is an element with as many below it. *)
LEMMA RankTaken ==
  ASSUME NEW S, IsFiniteSet(S), NEW key, Integers(key, S),
         \A b, c \in S : key[b] = key[c] => b = c,
         NEW k \in 1 .. Cardinality(S)
  PROVE  \E b \in S : Cardinality({c \in S : key[c] < key[b]}) = k - 1
<1>1. PICK p \in Bijection(1 .. Cardinality(S), S) :
        /\ Cardinality(S) \in Nat
        /\ \A l \in 1 .. Cardinality(S) :
             p[l] \in S /\ Cardinality({c \in S : key[c] < key[p[l]]}) = l - 1
        /\ \A l \in 1 .. Cardinality(S), b \in S :
             Cardinality({c \in S : key[c] < key[b]}) = l - 1 => b = p[l]
        /\ \A j, l \in 1 .. Cardinality(S) : j < l => key[p[j]] < key[p[l]]
  BY RanksByKey
<1> QED
  BY <1>1

(* np.unique sorts. *)
LEMMA UniqueSorts ==
  ASSUME NEW S, IsFiniteSet(S), Integers([b \in S |-> b], S)
  PROVE  ListsByKey(Unique(S), S, [b \in S |-> b])
<1> DEFINE key == [b \in S |-> b]
           u == Unique(S)
           At(k) == CHOOSE b \in S : Cardinality({x \in S : x < b}) = k - 1
<1>1. \A b \in S : key[b] = b
  OBVIOUS
<1>2. \A b, c \in S : key[b] = key[c] => b = c
  BY <1>1
<1>3. Unique(S) = [k \in 1 .. Cardinality(S) |-> At(k)]
  BY DEF Unique
<1>4. Integers(key, S)
  OBVIOUS
<1> HIDE DEF key, At
<1>5. \A b \in S : {c \in S : key[c] < key[b]} = {x \in S : x < b}
  BY <1>1
<1>6. u = [k \in 1 .. Cardinality(S) |-> u[k]] /\ \A k \in 1 .. Cardinality(S) : u[k] = At(k)
  BY <1>3
<1> HIDE DEF u
<1>7. ASSUME NEW k \in 1 .. Cardinality(S)
      PROVE  u[k] \in S /\ Cardinality({c \in S : key[c] < key[u[k]]}) = k - 1
  <2>1. \E b \in S : Cardinality({c \in S : key[c] < key[b]}) = k - 1
    BY <1>2, <1>4, RankTaken
  <2>2. \E b \in S : Cardinality({x \in S : x < b}) = k - 1
    BY <1>5, <2>1
  <2>3. At(k) \in S /\ Cardinality({x \in S : x < At(k)}) = k - 1
    BY <2>2 DEF At
  <2> QED
    BY <1>5, <1>6, <2>3
<1>8. ListsByKey(u, S, key)
  BY <1>2, <1>4, <1>6, <1>7, ListedByKey
<1> QED
  BY <1>8 DEF u, key

(* Of an item in a list that is cut into runs: where its run starts and ends. *)
LEMMA RunAround ==
  ASSUME NEW n \in Nat, NEW S, 1 \in S, NEW i \in 1 .. n
  PROVE  /\ \E j \in 1 .. i : j \in S /\ \A k \in j + 1 .. i : k \notin S
         /\ \E e \in i .. n : (\A k \in i + 1 .. e : k \notin S) /\ (e < n => e + 1 \in S)
<1> DEFINE A == {j \in 1 .. i : j \in S}
           B == {e \in i .. n : e < n => e + 1 \in S}
<1>1. A \subseteq Int /\ A # {} /\ B \subseteq Int /\ B # {}
  <2>1. 1 \in A /\ n \in B
    OBVIOUS
  <2> QED
    BY <2>1
<1>2. IsFiniteSet(A) /\ IsFiniteSet(B)
  <2>1. i \in Int /\ n \in Int /\ 1 \in Int
    OBVIOUS
  <2>2. IsFiniteSet(1 .. i) /\ IsFiniteSet(i .. n)
    BY <2>1, FS_Interval
  <2>3. A \in SUBSET (1 .. i) /\ B \in SUBSET (i .. n)
    OBVIOUS
  <2> HIDE DEF A, B
  <2> QED
    BY <2>2, <2>3, FS_Subset
<1>3. PICK j \in A : \A x \in A : x <= j
  <2>1. Numbers(A)
    BY <1>1, <1>2 DEF Numbers
  <2> HIDE DEF A
  <2> QED
    BY <2>1, LeastGreatest
<1>4. PICK e \in B : \A x \in B : e <= x
  <2>1. Numbers(B)
    BY <1>1, <1>2 DEF Numbers
  <2> HIDE DEF B
  <2> QED
    BY <2>1, LeastGreatest
<1>5. j \in 1 .. i /\ j \in S /\ \A k \in j + 1 .. i : k \notin S
  <2>1. ASSUME NEW k \in j + 1 .. i, k \in S PROVE FALSE
    <3>1. k \in A
      BY <2>1
    <3> QED
      BY <1>3, <3>1
  <2> QED
    BY <2>1
<1>6. e \in i .. n /\ (\A k \in i + 1 .. e : k \notin S) /\ (e < n => e + 1 \in S)
  <2>1. ASSUME NEW k \in i + 1 .. e, k \in S PROVE FALSE
    <3>1. k - 1 \in B /\ k - 1 < e
      BY <2>1
    <3> QED
      BY <1>4, <3>1
  <2> QED
    BY <2>1
<1> QED
  BY <1>5, <1>6

-----------------------------------------------------------------------------
(* Inner chunks of a shard *)

(* No two inner chunks start at the same offset, and a byte is in one.     *)
LEMMA InnerApart ==
  ASSUME NEW n \in Nat, NEW index, IsIndex(index, n),
         NEW b \in 0 .. n - 1, NEW c \in 0 .. n - 1, NEW o \in Int,
         index[b].off <= o, o < index[b].off + index[b].size,
         index[c].off <= o, o < index[c].off + index[c].size
  PROVE  b = c
<1>1. /\ index[b].off \in Nat /\ index[b].size \in Nat
      /\ index[c].off \in Nat /\ index[c].size \in Nat
  BY DEF IsIndex
<1>2. b # c => \/ index[b].off + index[b].size <= index[c].off
               \/ index[c].off + index[c].size <= index[b].off
  BY DEF IsIndex
<1> QED
  BY <1>1, <1>2

(* The inner chunks of a shard that a query needs. *)
AreNeeded(need, S, n) ==
  /\ IsFiniteSet(S) /\ S \in SUBSET (0 .. n - 1)
  /\ ToSet(need) = S /\ DOMAIN need = 1 .. Cardinality(S)

(* They are read in the order of their offsets. *)
LEMMA OffsetsSort ==
  ASSUME NEW n \in Nat, NEW index, IsIndex(index, n), NEW S, NEW need, AreNeeded(need, S, n)
  PROVE  ListsByKey(ByOffset(index, need), S, [b \in S |-> index[b].off])
<1> DEFINE key == [b \in S |-> index[b].off]
           u == ByOffset(index, need)
           At(k) == CHOOSE b \in ToSet(need) :
                      Cardinality({c \in ToSet(need) : index[c].off < index[b].off}) = k - 1
<1>1. /\ IsFiniteSet(S) /\ S \in SUBSET (0 .. n - 1)
      /\ ToSet(need) = S /\ DOMAIN need = 1 .. Cardinality(S)
  BY DEF AreNeeded
<1>2. \A b \in S : key[b] = index[b].off
  OBVIOUS
<1>3. \A b \in S : index[b].off \in Nat /\ index[b].size \in Nat \ {0} /\ b \in 0 .. n - 1
  BY <1>1 DEF IsIndex
<1>4. Integers(key, S)
  BY <1>2, <1>3 DEF Integers
<1>5. ASSUME NEW b \in S, NEW c \in S, key[b] = key[c] PROVE b = c
  <2>1. index[b].off = index[c].off
    BY <1>2, <1>5
  <2> HIDE DEF key
  <2>2. /\ index[b].off \in Int
        /\ index[b].off <= index[b].off /\ index[b].off < index[b].off + index[b].size
        /\ index[c].off <= index[b].off /\ index[b].off < index[c].off + index[c].size
    BY <1>3, <2>1
  <2> QED
    BY <1>3, <2>2, InnerApart
<1>6. ByOffset(index, need) = [k \in 1 .. Cardinality(S) |-> At(k)]
  BY <1>1 DEF ByOffset
<1> HIDE DEF key, At
<1>7. \A b \in S : {c \in S : key[c] < key[b]}
                   = {c \in ToSet(need) : index[c].off < index[b].off}
  BY <1>1, <1>2
<1>8. u = [k \in 1 .. Cardinality(S) |-> u[k]] /\ \A k \in 1 .. Cardinality(S) : u[k] = At(k)
  BY <1>6
<1> HIDE DEF u
<1>9. ASSUME NEW k \in 1 .. Cardinality(S)
      PROVE  u[k] \in S /\ Cardinality({c \in S : key[c] < key[u[k]]}) = k - 1
  <2>1. \E b \in S : Cardinality({c \in S : key[c] < key[b]}) = k - 1
    <3>1. IsFiniteSet(S) /\ \A b, c \in S : key[b] = key[c] => b = c
      BY <1>1, <1>5
    <3> QED
      BY <1>4, <3>1, RankTaken
  <2>2. \E b \in ToSet(need) :
          Cardinality({c \in ToSet(need) : index[c].off < index[b].off}) = k - 1
    BY <1>1, <1>7, <2>1
  <2>3. /\ At(k) \in ToSet(need)
        /\ Cardinality({c \in ToSet(need) : index[c].off < index[At(k)].off}) = k - 1
    BY <2>2 DEF At
  <2> QED
    BY <1>1, <1>7, <1>8, <2>3
<1>10. ListsByKey(u, S, key)
  BY <1>1, <1>4, <1>5, <1>8, <1>9, ListedByKey
<1> QED
  BY <1>10 DEF u, key

(* A needed inner chunk is found in the bytes that its group has read. *)
LEMMA InnerFound ==
  ASSUME NEW n \in Nat, NEW index, IsIndex(index, n), NEW S, NEW need, AreNeeded(need, S, n),
         NEW b \in S
  PROVE  InnerDecoded(index, need, b) = b
<1> DEFINE order == ByOffset(index, need)
           m == Cardinality(S)
           Starts(i) ==
             \/ i = 1
             \/ index[order[i]].off - (index[order[i - 1]].off + index[order[i - 1]].size) > Gap
           First(i) == CHOOSE j \in 1 .. i : Starts(j) /\ \A k \in j + 1 .. i : ~Starts(k)
           EndOf(i) == CHOOSE j \in i .. Len(order) :
                         (\A k \in i + 1 .. j : ~Starts(k)) /\ (j < Len(order) => Starts(j + 1))
           at(c) == CHOOSE j \in DOMAIN order : order[j] = c
           g == Groups(index, need)[b]
<1>1. S \in SUBSET (0 .. n - 1) /\ ToSet(need) = S
  BY DEF AreNeeded
<1>2. Groups(index, need)
        = [c \in ToSet(need) |->
             [from |-> index[order[First(at(c))]].off,
              to |-> index[order[EndOf(at(c))]].off + index[order[EndOf(at(c))]].size]]
  BY DEF Groups
<1>3. /\ g.from = index[order[First(at(b))]].off
      /\ g.to = index[order[EndOf(at(b))]].off + index[order[EndOf(at(b))]].size
  <2> HIDE DEF order, First, EndOf, at
  <2> QED
    BY <1>1, <1>2
<1>4. /\ m \in Nat /\ DOMAIN order = 1 .. m /\ Len(order) = m
      /\ \A k \in 1 .. m : order[k] \in S
      /\ \E k \in 1 .. m : order[k] = b
      /\ \A k, l \in 1 .. m : k < l => index[order[k]].off < index[order[l]].off
  <2> DEFINE key == [c \in S |-> index[c].off]
  <2>1. ListsByKey(order, S, key)
    BY OffsetsSort
  <2>2. \A c \in S : key[c] = index[c].off
    OBVIOUS
  <2> HIDE DEF key, order
  <2>3. /\ m \in Nat /\ DOMAIN order = 1 .. m /\ Len(order) = m
        /\ \A k \in 1 .. m : order[k] \in S
        /\ \E k \in 1 .. m : order[k] = b
        /\ \A k, l \in 1 .. m : k < l => key[order[k]] < key[order[l]]
    BY <2>1 DEF ListsByKey
  <2> QED
    BY <2>2, <2>3
<1> HIDE DEF order, m, g
<1>5. at(b) \in 1 .. m /\ order[at(b)] = b
  BY <1>4
<1>6. \A c \in 0 .. n - 1 : index[c].off \in Nat /\ index[c].size \in Nat \ {0}
  BY DEF IsIndex
<1>7. First(at(b)) \in 1 .. at(b) /\ EndOf(at(b)) \in at(b) .. m
  <2> DEFINE i == at(b)
             T == {k \in 1 .. m : Starts(k)}
  <2>1. 1 \in T /\ m \in Nat /\ i \in 1 .. m /\ Len(order) = m
    BY <1>4, <1>5
  <2>2. \A k \in 1 .. m : Starts(k) <=> k \in T
    OBVIOUS
  <2> HIDE DEF i, T, Starts
  <2>3. /\ \E j \in 1 .. i : j \in T /\ \A k \in j + 1 .. i : k \notin T
        /\ \E e \in i .. m : (\A k \in i + 1 .. e : k \notin T) /\ (e < m => e + 1 \in T)
    BY <2>1, RunAround
  <2>4. \E j \in 1 .. i : Starts(j) /\ \A k \in j + 1 .. i : ~Starts(k)
    BY <2>1, <2>2, <2>3
  <2>5. \E e \in i .. m : (\A k \in i + 1 .. e : ~Starts(k)) /\ (e < m => Starts(e + 1))
    <3>1. PICK e \in i .. m : (\A k \in i + 1 .. e : k \notin T) /\ (e < m => e + 1 \in T)
      BY <2>3
    <3>2. \A k \in i + 1 .. e : ~Starts(k)
      BY <2>1, <2>2, <3>1
    <3>3. e < m => Starts(e + 1)
      BY <2>1, <2>2, <3>1
    <3> QED
      BY <3>2, <3>3
  <2>6. First(i) \in 1 .. i
    BY <2>4
  <2>7. EndOf(i) \in i .. m
    BY <2>1, <2>5
  <2> QED
    BY <2>6, <2>7 DEF i
<1> HIDE DEF First, EndOf, Starts, at
<1> DEFINE data == [k \in 0 .. g.to - g.from - 1 |->
                      IF Holds(index, g.from + k) THEN ShardByte(index, g.from + k) ELSE <<>>]
           k0 == index[b].off - g.from
<1>8. InnerDecoded(index, need, b) = data[k0][1]
  BY DEF InnerDecoded, g
<1>9. b \in 0 .. n - 1 /\ index[b].off \in Nat /\ index[b].size \in Nat \ {0}
  BY <1>1, <1>6
<1>10. g.from \in Nat /\ g.from <= index[b].off
  <2> DEFINE f == First(at(b))
             i == at(b)
  <2>1. f \in 1 .. i /\ i \in 1 .. m /\ m \in Nat
    BY <1>4, <1>5, <1>7
  <2> HIDE DEF f, i
  <2>2. f \in 1 .. m /\ (f = i \/ f < i)
    BY <2>1
  <2>3. order[f] \in S /\ (f < i => index[order[f]].off < index[order[i]].off)
    BY <1>4, <2>1, <2>2
  <2>4. order[f] \in 0 .. n - 1 /\ order[i] = b
    BY <1>1, <1>5, <2>3 DEF i
  <2>5. index[order[f]].off \in Nat /\ index[b].off \in Nat
    BY <1>6, <1>9, <2>4
  <2>6. f = i => index[order[f]].off = index[b].off
    BY <2>4, Zenon
  <2>7. f < i => index[order[f]].off < index[b].off
    BY <2>3, <2>4
  <2>8. index[order[f]].off <= index[b].off
    BY <2>2, <2>5, <2>6, <2>7
  <2> QED
    BY <1>3, <2>5, <2>8 DEF f, i
<1>11. g.to \in Nat /\ g.to > index[b].off
  <2> DEFINE e == EndOf(at(b))
             i == at(b)
  <2>1. e \in i .. m /\ i \in 1 .. m /\ m \in Nat
    BY <1>4, <1>5, <1>7
  <2> HIDE DEF e, i
  <2>2. e \in 1 .. m /\ (e = i \/ i < e)
    BY <2>1
  <2>3. order[e] \in S /\ (i < e => index[order[i]].off < index[order[e]].off)
    BY <1>4, <2>1, <2>2
  <2>4. order[e] \in 0 .. n - 1 /\ order[i] = b
    BY <1>1, <1>5, <2>3 DEF i
  <2>5. /\ index[order[e]].off \in Nat /\ index[order[e]].size \in Nat \ {0}
        /\ index[b].off \in Nat
    BY <1>6, <1>9, <2>4
  <2>6. e = i => index[order[e]].off = index[b].off
    BY <2>4, Zenon
  <2>7. i < e => index[b].off < index[order[e]].off
    BY <2>3, <2>4
  <2>8. index[b].off <= index[order[e]].off
    BY <2>2, <2>5, <2>6, <2>7
  <2> QED
    BY <1>3, <2>5, <2>8 DEF e, i
<1>12. k0 \in 0 .. g.to - g.from - 1 /\ g.from + k0 = index[b].off
  BY <1>9, <1>10, <1>11
<1> HIDE DEF k0
<1>13. DOMAIN index = 0 .. n - 1
  BY DEF IsIndex
<1>14. Holds(index, index[b].off)
  BY <1>9, <1>13 DEF Holds
<1>15. ShardByte(index, index[b].off)[1] = b
  <2> DEFINE o == index[b].off
             Around(c) == index[c].off <= o /\ o < index[c].off + index[c].size
             c0 == CHOOSE c \in DOMAIN index : Around(c)
  <2>1. Around(b) /\ b \in DOMAIN index
    BY <1>9, <1>13
  <2>2. c0 \in DOMAIN index /\ Around(c0)
    <3> HIDE DEF Around
    <3> QED
      BY <2>1
  <2> HIDE DEF c0
  <2>3. c0 = b
    <3>1. /\ c0 \in 0 .. n - 1 /\ o \in Int
          /\ index[b].off <= o /\ o < index[b].off + index[b].size
          /\ index[c0].off <= o /\ o < index[c0].off + index[c0].size
      BY <1>9, <1>13, <2>1, <2>2
    <3> QED
      BY <1>9, <3>1, InnerApart
  <2>4. ShardByte(index, o) = <<c0, o - index[c0].off>>
    BY DEF ShardByte, c0
  <2> QED
    BY <2>3, <2>4
<1>16. data[k0] = ShardByte(index, index[b].off)
  <2>1. data[k0] = IF Holds(index, g.from + k0) THEN ShardByte(index, g.from + k0) ELSE <<>>
    BY <1>12
  <2> QED
    BY <1>12, <1>14, <2>1
<1> QED
  BY <1>8, <1>15, <1>16

-----------------------------------------------------------------------------
(* Series of points *)

(* What a store is. *)
LEMMA StoreIs ==
  ASSUME NEW store, IsStore(store)
  PROVE  /\ store.nt \in Nat /\ IsLayout(store.lay)
         /\ nLayers(store.lay) = 1 /\ store.lay.bytes[1] = 1
         /\ CutsInto(store.shard, store.inner)
         /\ store.shard[2] = store.lay.chunk[2] * Side
         /\ store.shard[3] = store.lay.chunk[3] * Side
         /\ \A t \in 0 .. store.nt - 1 :
              IsIndex(store.index[t], Volume(DivBy(store.shard, store.inner)))
         /\ \A d \in 1 .. 3 : store.inner[d] \in Nat \ {0} /\ store.shard[d] \in Nat \ {0}
         /\ \A d \in 1 .. 3 : store.shard[d] = (store.shard[d] \div store.inner[d]) * store.inner[d]
<1>1. CutsInto(store.shard, store.inner)
  BY DEF IsStore
<1>2. /\ store.shard \in Shape /\ store.inner \in Shape
      /\ \A d \in 1 .. 3 : store.shard[d] = (store.shard[d] \div store.inner[d]) * store.inner[d]
  BY <1>1, PartsOfGrid
<1>3. \A d \in 1 .. 3 : store.inner[d] \in Nat \ {0} /\ store.shard[d] \in Nat \ {0}
  BY <1>2 DEF Shape
<1> QED
  BY <1>2, <1>3 DEF IsStore

(* Points lie in the plane of a shard. *)
LEMMA PointsLie ==
  ASSUME NEW store, IsStore(store), NEW pts, ArePoints(store, pts), NEW k \in DOMAIN pts
  PROVE  pts[k][1] \in 0 .. store.shard[2] - 1 /\ pts[k][2] \in 0 .. store.shard[3] - 1
<1> DEFINE A == 0 .. store.shard[2] - 1
           B == 0 .. store.shard[3] - 1
<1>1. pts \in Seq(A \X B)
  BY DEF ArePoints
<1> HIDE DEF A, B
<1>2. pts[k] \in A \X B
  BY <1>1
<1>3. pts[k][1] \in A /\ pts[k][2] \in B
  BY <1>2
<1> QED
  BY <1>3 DEF A, B

(* What a query returns for every place of a series makes the series. *)
LEMMA SeriesIs ==
  ASSUME NEW pts, NEW n \in Nat, NEW f,
         f = [k \in DOMAIN pts |-> [i \in 1 .. n |-> f[k][i]]],
         \A k \in DOMAIN pts : \A i \in 1 .. n : f[k][i] = <<i - 1, pts[k][1], pts[k][2]>>
  PROVE  f = Series(pts, n)
<1>1. \A k \in DOMAIN pts :
        [i \in 1 .. n |-> f[k][i]] = [i \in 1 .. n |-> <<i - 1, pts[k][1], pts[k][2]>>]
  OBVIOUS
<1>2. [k \in DOMAIN pts |-> [i \in 1 .. n |-> f[k][i]]] = Series(pts, n)
  BY <1>1, Zenon DEF Series
<1> QED
  BY <1>2, Zenon

(* Of chunks. *)
LEMMA ChunksGiveSeries ==
  ASSUME NEW store, IsStore(store), NEW pts, ArePoints(store, pts)
  PROVE  q_chunks(store, pts) = Series(pts, store.nt * store.inner[1])
<1> DEFINE ch == store.inner
           n == store.nt * ch[1]
           At(k, i) == ValueAt(<<(i - 1) \div ch[1], pts[k][1] \div ch[2], pts[k][2] \div ch[3]>>, ch,
                               <<(i - 1) % ch[1], pts[k][1] % ch[2], pts[k][2] % ch[3]>>)
           f == q_chunks(store, pts)
<1>1. store.nt \in Nat /\ \A d \in 1 .. 3 : ch[d] \in Nat \ {0} /\ store.shard[d] \in Nat \ {0}
  BY StoreIs
<1>2. n \in Nat
  BY <1>1
<1>3. f = [k \in DOMAIN pts |-> [i \in 1 .. n |-> At(k, i)]]
  BY DEF q_chunks
<1>4. ASSUME NEW k \in DOMAIN pts, NEW i \in 1 .. n
      PROVE  At(k, i) = <<i - 1, pts[k][1], pts[k][2]>>
  <2> DEFINE a == i - 1
             b == pts[k][1]
             c == pts[k][2]
  <2>1. a \in Nat /\ b \in Nat /\ c \in Nat
    BY <1>1, <1>2, PointsLie
  <2>2. ch[1] \in Nat \ {0} /\ ch[2] \in Nat \ {0} /\ ch[3] \in Nat \ {0}
    BY <1>1
  <2>3. At(k, i) = <<(a \div ch[1]) * ch[1] + (a % ch[1]), (b \div ch[2]) * ch[2] + (b % ch[2]),
                     (c \div ch[3]) * ch[3] + (c % ch[3])>>
    BY DEF ValueAt
  <2> HIDE DEF a, b, c, ch, At
  <2>4. /\ a = (a \div ch[1]) * ch[1] + (a % ch[1])
        /\ b = (b \div ch[2]) * ch[2] + (b % ch[2])
        /\ c = (c \div ch[3]) * ch[3] + (c % ch[3])
    BY <2>1, <2>2, DivisionOf
  <2>5. At(k, i) = <<a, b, c>>
    BY <2>3, <2>4, Zenon
  <2> QED
    BY <2>5 DEF a, b, c
<1> HIDE DEF At, n, f
<1>5. /\ f = [k \in DOMAIN pts |-> [i \in 1 .. n |-> f[k][i]]]
      /\ \A k \in DOMAIN pts : \A i \in 1 .. n : f[k][i] = At(k, i)
  BY <1>3
<1>6. f = Series(pts, n)
  BY <1>2, <1>4, <1>5, SeriesIs
<1> QED
  BY <1>6 DEF f, n

(* Step a in chunks of n, each of q parts of m. *)
StepSplits(a, n, q, m) ==
  /\ n \in Nat \ {0} /\ a \div n \in Nat /\ (a % n) \div m \in 0 .. q - 1
  /\ (a \div n) * n + (((a % n) \div m) * m + (a % m)) = a

(* Every step is in one part of one chunk. *)
LEMMA StepsInParts ==
  ASSUME NEW m \in Nat \ {0}, NEW q \in Nat \ {0}, NEW n, n = q * m, NEW a \in Nat
  PROVE  StepSplits(a, n, q, m)
<1>1. n \in Nat \ {0}
  OBVIOUS
<1> DEFINE t == a \div n
           r == a % n
           j == r \div m
           l == r % m
<1>2. t \in Nat /\ r \in 0 .. n - 1 /\ a = t * n + r
  BY <1>1, DivisionOf
<1> HIDE DEF t, r
<1>3. r \in Nat /\ r < q * m
  BY <1>1, <1>2
<1>4. j \in Nat /\ l \in 0 .. m - 1 /\ r = j * m + l
  BY <1>3, DivisionOf
<1>5. j < q
  BY <1>3, DivisionOrder
<1> HIDE DEF j, l
<1>6. a = (t * q + j) * m + l /\ t * q + j \in Nat
  BY <1>2, <1>4
<1>7. a % m = l
  BY <1>4, <1>6, Division
<1>8. t * n + (j * m + (a % m)) = a
  BY <1>2, <1>4, <1>7
<1>9. j \in 0 .. q - 1
  BY <1>4, <1>5
<1> QED
  BY <1>1, <1>2, <1>8, <1>9 DEF StepSplits, t, r, j

(* An inner chunk above a point is one of its shard. *)
LEMMA InnerPlace ==
  ASSUME NEW store, IsStore(store), NEW pts, ArePoints(store, pts), NEW k \in DOMAIN pts,
         NEW j \in 0 .. PerShard(store)[1] - 1
  PROVE  /\ <<j, pts[k][1] \div store.inner[2], pts[k][2] \div store.inner[3]>>
              \in Coords(PerShard(store))
         /\ InnerAbove(store, pts[k], j)
              = Ravel(<<j, pts[k][1] \div store.inner[2], pts[k][2] \div store.inner[3]>>,
                      PerShard(store))
<1> DEFINE per == PerShard(store)
           b == pts[k][1]
           c == pts[k][2]
           y == store.inner[2]
           z == store.inner[3]
           Y == store.shard[2] \div y
           Z == store.shard[3] \div z
<1>1. per[2] = Y /\ per[3] = Z
  BY DEF PerShard, DivBy
<1>2. /\ y \in Nat \ {0} /\ z \in Nat \ {0} /\ store.shard[2] \in Nat /\ store.shard[3] \in Nat
      /\ store.shard[2] = Y * y /\ store.shard[3] = Z * z
  BY StoreIs
<1>3. Y \in Nat /\ Z \in Nat
  <2> DEFINE v == store.shard[2]
             w == store.shard[3]
  <2>1. v \in Nat /\ w \in Nat
    BY <1>2
  <2> HIDE DEF v, w, y, z
  <2>2. v \div y \in Nat /\ w \div z \in Nat
    BY <1>2, <2>1, DivisionOf
  <2> QED
    BY <2>2 DEF v, w
<1>4. b \in 0 .. store.shard[2] - 1 /\ c \in 0 .. store.shard[3] - 1
  BY PointsLie
<1> HIDE DEF b, c, y, z, Y, Z, per
<1>5. b \in Nat /\ c \in Nat /\ b < Y * y /\ c < Z * z
  BY <1>2, <1>3, <1>4
<1>6. b \div y \in Nat /\ c \div z \in Nat
  BY <1>2, <1>5, DivisionOf
<1>7. b \div y < Y /\ c \div z < Z
  BY <1>2, <1>3, <1>5, DivisionOrder
<1>8. b \div y \in 0 .. per[2] - 1 /\ c \div z \in 0 .. per[3] - 1
  BY <1>1, <1>3, <1>6, <1>7
<1>9. j \in 0 .. per[1] - 1
  BY DEF per
<1>10. <<j, b \div y, c \div z>> \in Coords(per)
  BY <1>8, <1>9 DEF Coords
<1> QED
  BY <1>10 DEF b, c, y, z, per, InnerAbove

(* Of a sharded store. *)
LEMMA ShardsGiveSeries ==
  ASSUME NEW store, IsStore(store), NEW pts, ArePoints(store, pts)
  PROVE  q_zshard(store, pts) = Series(pts, store.nt * store.shard[1])
<1> DEFINE inner == store.inner
           per == PerShard(store)
           S == {InnerAbove(store, pts[k], i) : k \in DOMAIN pts, i \in 0 .. per[1] - 1}
           need == Unique(S)
           n == store.shard[1]
           found == [t \in 0 .. store.nt - 1 |->
                       [b \in ToSet(need) |-> InnerDecoded(store.index[t], need, b)]]
           PlaceOf(b) == CHOOSE x \in Coords(per) : Ravel(x, per) = b
           At(k, i) ==
             LET t == (i - 1) \div n
                 j == ((i - 1) % n) \div inner[1]
             IN  ValueAt(<<t, 0, 0>>, store.shard,
                   ValueAt(PlaceOf(found[t][InnerAbove(store, pts[k], j)]), inner,
                           <<(i - 1) % inner[1], pts[k][1] % inner[2], pts[k][2] % inner[3]>>))
           f == q_zshard(store, pts)
           steps == store.nt * n
<1>1. f = [k \in DOMAIN pts |-> [i \in 1 .. steps |-> At(k, i)]]
  BY DEF q_zshard
<1>2. /\ store.nt \in Nat /\ \A d \in 1 .. 3 : inner[d] \in Nat \ {0} /\ store.shard[d] \in Nat \ {0}
      /\ \A t \in 0 .. store.nt - 1 : IsIndex(store.index[t], Volume(per))
      /\ CutsInto(store.shard, inner)
      /\ n = per[1] * inner[1]
  BY StoreIs DEF PerShard, DivBy
<1>3. /\ per \in Shape /\ Volume(per) \in Nat \ {0} /\ per[1] \in Nat \ {0}
      /\ \A x \in Coords(per) : Ravel(x, per) \in 0 .. Volume(per) - 1
      /\ \A x, y \in Coords(per) : Ravel(x, per) = Ravel(y, per) => x = y
  <2>1. per \in Shape
    BY <1>2, PartsOfGrid DEF PerShard
  <2> HIDE DEF per
  <2>2. per[1] \in Nat \ {0}
    BY <2>1 DEF Shape
  <2> QED
    BY <2>1, <2>2, RavelNumbers
<1> HIDE DEF f, At, PlaceOf, found, need, steps
<1>4. \A b \in S : b \in 0 .. Volume(per) - 1
  <2> HIDE DEF per
  <2>1. ASSUME NEW k \in DOMAIN pts, NEW i \in 0 .. per[1] - 1
        PROVE  InnerAbove(store, pts[k], i) \in 0 .. Volume(per) - 1
    <3> DEFINE x == <<i, pts[k][1] \div inner[2], pts[k][2] \div inner[3]>>
    <3>1. x \in Coords(per) /\ InnerAbove(store, pts[k], i) = Ravel(x, per)
      BY InnerPlace DEF per
    <3> HIDE DEF x
    <3>2. Ravel(x, per) \in 0 .. Volume(per) - 1
      BY <1>3, <3>1
    <3> QED
      BY <3>1, <3>2, Zenon
  <2> QED
    BY <2>1
<1>5. \A k \in DOMAIN pts : \A i \in 0 .. per[1] - 1 : InnerAbove(store, pts[k], i) \in S
  OBVIOUS
<1> HIDE DEF S, per
<1>6. AreNeeded(need, S, Volume(per))
  <2>1. S \in SUBSET (0 .. Volume(per) - 1)
    BY <1>4
  <2>2. IsFiniteSet(0 .. Volume(per) - 1)
    <3>1. 0 \in Int /\ Volume(per) - 1 \in Int
      BY <1>3
    <3> QED
      BY <3>1, FS_Interval
  <2>3. IsFiniteSet(S)
    BY <2>1, <2>2, FS_Subset
  <2>4. Integers([b \in S |-> b], S)
    BY <1>4 DEF Integers
  <2>5. ListsByKey(need, S, [b \in S |-> b])
    BY <2>3, <2>4, UniqueSorts DEF need
  <2>6. ToSet(need) = S /\ DOMAIN need = 1 .. Cardinality(S)
    BY <2>5 DEF ListsByKey
  <2> QED
    BY <2>1, <2>3, <2>6 DEF AreNeeded
<1>7. \A t \in 0 .. store.nt - 1 : \A b \in S : found[t][b] = b
  <2>1. ToSet(need) = S
    BY <1>6 DEF AreNeeded
  <2>2. ASSUME NEW t \in 0 .. store.nt - 1, NEW b \in S PROVE found[t][b] = b
    <3>1. InnerDecoded(store.index[t], need, b) = b
      <4>1. IsIndex(store.index[t], Volume(per)) /\ Volume(per) \in Nat
        BY <1>2, <1>3
      <4> QED
        BY <1>6, <4>1, InnerFound
    <3>2. found[t][b] = InnerDecoded(store.index[t], need, b)
      BY <2>1 DEF found
    <3> QED
      BY <3>1, <3>2
  <2> QED
    BY <2>2
<1>8. steps \in Nat
  BY <1>2 DEF steps
<1>9. ASSUME NEW k \in DOMAIN pts, NEW i \in 1 .. steps
      PROVE  At(k, i) = <<i - 1, pts[k][1], pts[k][2]>>
  <2> DEFINE a == i - 1
             b == pts[k][1]
             c == pts[k][2]
             t == a \div n
             j == (a % n) \div inner[1]
             x == <<j, b \div inner[2], c \div inner[3]>>
             p == InnerAbove(store, pts[k], j)
             l == <<a % inner[1], b % inner[2], c % inner[3]>>
  <2>1. At(k, i) = ValueAt(<<t, 0, 0>>, store.shard, ValueAt(PlaceOf(found[t][p]), inner, l))
    BY DEF At
  <2>2. b \in 0 .. store.shard[2] - 1 /\ c \in 0 .. store.shard[3] - 1
    BY PointsLie
  <2> HIDE DEF a, b, c, t, j, x, p, l, At
  <2>3. /\ inner[1] \in Nat \ {0} /\ inner[2] \in Nat \ {0} /\ inner[3] \in Nat \ {0}
        /\ store.shard[2] \in Nat /\ store.shard[3] \in Nat
    BY <1>2
  <2>4. a \in Nat /\ b \in Nat /\ c \in Nat
    <3>1. a \in Nat
      BY <1>8 DEF a
    <3> QED
      BY <2>2, <2>3, <3>1
  <2>5. /\ n \in Nat \ {0} /\ t \in Nat /\ j \in 0 .. per[1] - 1
        /\ t * n + (j * inner[1] + (a % inner[1])) = a
    <3>1. StepSplits(a, n, per[1], inner[1])
      BY <1>2, <1>3, <2>3, <2>4, StepsInParts
    <3> QED
      BY <3>1 DEF StepSplits, t, j
  <2>6. t \in 0 .. store.nt - 1
    <3>1. a < store.nt * n
      BY <1>8, <1>2, <2>5 DEF a, steps
    <3>2. t < store.nt
      BY <1>2, <2>4, <2>5, <3>1, DivisionOrder DEF t
    <3> QED
      BY <1>2, <2>5, <3>2
  <2>7. x \in Coords(per) /\ p = Ravel(x, per) /\ p \in S
    BY <1>5, <2>5, InnerPlace DEF x, p, b, c, per
  <2>8. found[t][p] = p
    BY <1>7, <2>6, <2>7
  <2>9. PlaceOf(p) = x
    <3>1. PlaceOf(p) \in Coords(per) /\ Ravel(PlaceOf(p), per) = p
      BY <2>7 DEF PlaceOf
    <3> QED
      BY <1>3, <2>7, <3>1
  <2>10. ValueAt(x, inner, l)
           = <<j * inner[1] + (a % inner[1]), (b \div inner[2]) * inner[2] + (b % inner[2]),
               (c \div inner[3]) * inner[3] + (c % inner[3])>>
    BY DEF ValueAt, x, l
  <2>11. /\ b = (b \div inner[2]) * inner[2] + (b % inner[2])
         /\ c = (c \div inner[3]) * inner[3] + (c % inner[3])
    BY <2>3, <2>4, DivisionOf
  <2> DEFINE w == j * inner[1] + (a % inner[1])
  <2>12. ValueAt(x, inner, l) = <<w, b, c>>
    BY <2>10, <2>11, Zenon
  <2>13. ValueAt(<<t, 0, 0>>, store.shard, <<w, b, c>>)
           = <<t * n + w, 0 * store.shard[2] + b, 0 * store.shard[3] + c>>
    <3> HIDE DEF w
    <3> QED
      BY DEF ValueAt
  <2>14. 0 * store.shard[2] + b = b /\ 0 * store.shard[3] + c = c
    BY <2>3, <2>4
  <2>15. ValueAt(<<t, 0, 0>>, store.shard, <<w, b, c>>) = <<a, b, c>>
    BY <2>5, <2>13, <2>14, Zenon
  <2>16. At(k, i) = <<a, b, c>>
    BY <2>1, <2>8, <2>9, <2>12, <2>15, Zenon
  <2> QED
    BY <2>16 DEF a, b, c
<1>10. /\ f = [k \in DOMAIN pts |-> [i \in 1 .. steps |-> f[k][i]]]
       /\ \A k \in DOMAIN pts : \A i \in 1 .. steps : f[k][i] = At(k, i)
  BY <1>1
<1>11. f = Series(pts, steps)
  BY <1>8, <1>9, <1>10, SeriesIs
<1> QED
  BY <1>11 DEF f, steps

(* A column is decoded from its own block, whichever read brings it. *)
LEMMA ColumnDecoded ==
  ASSUME NEW store, NEW S, NEW need, ListsByKey(need, S, [b \in S |-> b]),
         Integers([b \in S |-> b], S), NEW i \in DOMAIN need
  PROVE  DecodedColumn(store, need, i) = Stored(store.lay, need[i]).block
<1> DEFINE n == Cardinality(S)
           Starts(k) == k = 1 \/ need[k] > need[k - 1] + Gap + 1
           BlockRuns == {r \in [from : DOMAIN need, to : DOMAIN need] :
                      /\ r.from <= r.to /\ Starts(r.from)
                      /\ \A k \in r.from + 1 .. r.to : ~Starts(k)
                      /\ r.to < Len(need) => Starts(r.to + 1)}
           r == CHOOSE q \in BlockRuns : q.from <= i /\ i <= q.to
<1>1. /\ n \in Nat /\ DOMAIN need = 1 .. n /\ Len(need) = n
      /\ \A k \in 1 .. n : need[k] \in Int
      /\ \A k, l \in 1 .. n : k < l => need[k] < need[l]
  <2> DEFINE key == [b \in S |-> b]
  <2>1. \A b \in S : key[b] = b
    OBVIOUS
  <2>2. ListsByKey(need, S, key) /\ Integers(key, S)
    OBVIOUS
  <2> HIDE DEF key
  <2>3. /\ n \in Nat /\ DOMAIN need = 1 .. n /\ Len(need) = n
        /\ need \in [1 .. n -> S]
        /\ \A k, l \in 1 .. n : k < l => key[need[k]] < key[need[l]]
    BY <2>2 DEF ListsByKey
  <2> HIDE DEF n
  <2>4. \A k \in 1 .. n : need[k] \in S
    BY <2>3
  <2>5. \A b \in S : key[b] \in Int
    BY <2>2 DEF Integers
  <2>6. \A b \in S : b \in Int
    BY <2>1, <2>5
  <2>7. \A k \in 1 .. n : need[k] \in Int
    BY <2>4, <2>6
  <2>8. \A k, l \in 1 .. n : k < l => need[k] < need[l]
    BY <2>1, <2>3, <2>4
  <2> QED
    BY <2>3, <2>7, <2>8
<1> HIDE DEF n
<1>2. BlockReads(need) = BlockRuns
  BY DEF BlockReads
<1>3. r \in BlockRuns /\ r.from <= i /\ i <= r.to
  <2> DEFINE T == {k \in 1 .. n : Starts(k)}
  <2>1. 1 \in T /\ i \in 1 .. n
    BY <1>1
  <2>2. \A k \in 1 .. n : Starts(k) <=> k \in T
    OBVIOUS
  <2> HIDE DEF T, Starts
  <2>3. /\ \E j \in 1 .. i : j \in T /\ \A k \in j + 1 .. i : k \notin T
        /\ \E e \in i .. n : (\A k \in i + 1 .. e : k \notin T) /\ (e < n => e + 1 \in T)
    BY <1>1, <2>1, RunAround
  <2>4. PICK j \in 1 .. i : j \in T /\ \A k \in j + 1 .. i : k \notin T
    BY <2>3
  <2>5. PICK e \in i .. n : (\A k \in i + 1 .. e : k \notin T) /\ (e < n => e + 1 \in T)
    BY <2>3
  <2>6. j \in 1 .. n /\ e \in 1 .. n /\ j <= i /\ i <= e /\ j <= e
    BY <1>1, <2>1, <2>4, <2>5
  <2>7. \A k \in j + 1 .. e : k \in 1 .. n /\ (k \in j + 1 .. i \/ k \in i + 1 .. e)
    BY <1>1, <2>1, <2>6
  <2>8. \A k \in j + 1 .. e : ~Starts(k)
    BY <2>2, <2>4, <2>5, <2>7
  <2>9. e < Len(need) => Starts(e + 1)
    <3>1. e < n => e + 1 \in 1 .. n
      BY <1>1, <2>6
    <3> QED
      BY <1>1, <2>2, <2>5, <3>1
  <2> DEFINE q == [from |-> j, to |-> e]
  <2>10. q \in BlockRuns /\ q.from <= i /\ i <= q.to
    BY <1>1, <2>2, <2>4, <2>6, <2>8, <2>9
  <2> HIDE DEF q, BlockRuns
  <2> QED
    BY <2>10
<1>4. r.from \in 1 .. n /\ r.to \in 1 .. n /\ i \in 1 .. n
  BY <1>1, <1>3
<1> DEFINE data == [row \in 0 .. need[r.to] - need[r.from] |->
                      Stored(store.lay, need[r.from] + row).block]
           k0 == need[i] - need[r.from]
<1>5. DecodedColumn(store, need, i) = data[k0]
  <2> HIDE DEF BlockRuns
  <2> QED
    BY <1>2 DEF DecodedColumn
<1> HIDE DEF BlockRuns, r
<1>6. k0 \in 0 .. need[r.to] - need[r.from] /\ need[r.from] + k0 = need[i]
  <2> DEFINE a == r.from
             b == r.to
  <2>1. a \in 1 .. n /\ b \in 1 .. n /\ a <= i /\ i <= b
    BY <1>3, <1>4
  <2> HIDE DEF a, b
  <2>2. (a < i => need[a] < need[i]) /\ (i < b => need[i] < need[b])
    BY <1>1, <1>4, <2>1
  <2>3. a < i \/ a = i
    BY <1>4, <2>1
  <2>4. i < b \/ i = b
    BY <1>4, <2>1
  <2>5. need[a] \in Int /\ need[b] \in Int /\ need[i] \in Int
    BY <1>1, <1>4, <2>1
  <2>6. need[a] <= need[i]
    BY <2>2, <2>3, <2>5
  <2>7. need[i] <= need[b]
    BY <2>2, <2>4, <2>5
  <2> QED
    BY <2>5, <2>6, <2>7 DEF a, b
<1> HIDE DEF k0
<1>7. data[k0] = Stored(store.lay, need[r.from] + k0).block
  BY <1>6
<1> QED
  BY <1>5, <1>6, <1>7, Zenon

(* The place of a block above a point is that of its zone map record. *)
LEMMA PositionIs ==
  ASSUME NEW store, IsStore(store), NEW pts, ArePoints(store, pts), NEW k \in DOMAIN pts
  PROVE  /\ DOMAIN Positions(store.lay, pts[k]) = 1 .. store.lay.chunk[1]
         /\ \A j \in 0 .. store.lay.chunk[1] - 1 :
              /\ <<j, pts[k][1] \div Side, pts[k][2] \div Side>> \in Blocks(store.lay)
              /\ Positions(store.lay, pts[k])[j + 1]
                   = RecordPlace(store.lay, <<j, pts[k][1] \div Side, pts[k][2] \div Side>>)
<1> DEFINE lay == store.lay
           g == lay.chunk
           u == lay.unit
           subs == DivBy(g, u)
           b == pts[k][1] \div Side
           c == pts[k][2] \div Side
           s(d) == ((pts[k][d - 1] \div Side) % g[d]) \div u[d]
           v(d) == (pts[k][d - 1] \div Side) % u[d]
           OverPoint(j) == Ravel(<<j \div u[1], s(2), s(3)>>, subs) * Volume(u)
                         + BlockRank(lay, <<j % u[1], v(2), v(3)>>)
           At(i) == OverPoint(i - 1)
           f == Positions(lay, pts[k])
<1>1. f = [i \in 1 .. subs[1] * u[1] |-> At(i)]
  BY DEF Positions
<1>2. CutsInto(g, u)
  BY StoreIs DEF IsLayout
<1>3. /\ \A d \in 1 .. 3 : g[d] \in Nat \ {0} /\ u[d] \in Nat \ {0}
      /\ \A d \in 1 .. 3 : g[d] = (g[d] \div u[d]) * u[d]
  BY <1>2, PartsOfGrid DEF Shape
<1>4. subs[1] * u[1] = g[1]
  <2>1. subs[1] = g[1] \div u[1]
    BY DEF DivBy
  <2> QED
    BY <1>3, <2>1
<1>5. b \in 0 .. g[2] - 1 /\ c \in 0 .. g[3] - 1
  <2> DEFINE y == pts[k][1]
             z == pts[k][2]
             Y == g[2]
             Z == g[3]
  <2>1. Side \in Nat \ {0} /\ Y \in Nat /\ Z \in Nat
    BY <1>3, SideAssumption
  <2>2. y \in 0 .. store.shard[2] - 1 /\ z \in 0 .. store.shard[3] - 1
    BY PointsLie
  <2>3. store.shard[2] = Y * Side /\ store.shard[3] = Z * Side
    BY StoreIs
  <2> HIDE DEF y, z, Y, Z
  <2>4. y \in Nat /\ z \in Nat /\ y < Y * Side /\ z < Z * Side
    BY <2>1, <2>2, <2>3
  <2>5. y \div Side \in Nat /\ z \div Side \in Nat
    BY <2>1, <2>4, DivisionOf
  <2>6. y \div Side < Y /\ z \div Side < Z
    BY <2>1, <2>4, DivisionOrder
  <2> QED
    BY <2>1, <2>5, <2>6 DEF y, z, Y, Z
<1>6. s(2) = b \div u[2] /\ s(3) = c \div u[3] /\ v(2) = b % u[2] /\ v(3) = c % u[3]
  <2> DEFINE Y == g[2]
             Z == g[3]
  <2>1. pts[k][2 - 1] = pts[k][1] /\ pts[k][3 - 1] = pts[k][2]
    OBVIOUS
  <2>2. /\ s(2) = (b % Y) \div u[2] /\ s(3) = (c % Z) \div u[3]
        /\ v(2) = b % u[2] /\ v(3) = c % u[3]
    BY <2>1
  <2>3. Y \in Nat \ {0} /\ Z \in Nat \ {0} /\ b \in 0 .. Y - 1 /\ c \in 0 .. Z - 1
    BY <1>3, <1>5
  <2> HIDE DEF b, c, Y, Z, s, v
  <2>4. b % Y = b /\ c % Z = c
    <3>1. b = 0 * Y + b /\ c = 0 * Z + c
      BY <2>3
    <3>2. (0 * Y + b) % Y = b /\ (0 * Z + c) % Z = c
      BY <2>3, Division
    <3> QED
      BY <3>1, <3>2, Zenon
  <2> QED
    BY <2>2, <2>4, Zenon
<1> HIDE DEF s, v
<1>7. ASSUME NEW j \in 0 .. g[1] - 1
      PROVE  /\ <<j, b, c>> \in Blocks(lay)
             /\ f[j + 1] = RecordPlace(lay, <<j, b, c>>)
  <2> DEFINE x == <<j, b, c>>
  <2>1. x \in Blocks(lay)
    <3> HIDE DEF b, c
    <3> QED
      BY <1>5 DEF Blocks, Coords
  <2>2. j + 1 \in 1 .. subs[1] * u[1]
    <3>1. g[1] \in Nat
      BY <1>3
    <3> HIDE DEF g, u, subs
    <3> QED
      BY <1>4, <3>1
  <2>3. j + 1 - 1 = j
    OBVIOUS
  <2>4. f[j + 1] = At(j + 1)
    <3> HIDE DEF At, subs, f
    <3> QED
      BY <1>1, <2>2
  <2>5. At(j + 1) = Ravel(<<j \div u[1], s(2), s(3)>>, subs) * Volume(u)
                      + BlockRank(lay, <<j % u[1], v(2), v(3)>>)
    <3>1. At(j + 1) = OverPoint(j)
      <4> HIDE DEF OverPoint
      <4> QED
        BY <2>3 DEF At
    <3> QED
      BY <3>1
  <2> HIDE DEF b, c, f, At
  <2>6. DivBy(x, u) = <<j \div u[1], b \div u[2], c \div u[3]>>
    BY DEF DivBy
  <2>7. ModBy(x, u) = <<j % u[1], b % u[2], c % u[3]>>
    BY DEF ModBy
  <2>8. RecordPlace(lay, x) = Ravel(DivBy(x, u), subs) * Volume(u) + BlockRank(lay, ModBy(x, u))
    BY DEF RecordPlace, UnitIndex, InUnit
  <2>9. f[j + 1] = RecordPlace(lay, x)
    BY <1>6, <2>4, <2>5, <2>6, <2>7, <2>8, Zenon
  <2> QED
    BY <2>1, <2>9
<1>8. DOMAIN f = 1 .. g[1]
  <2> HIDE DEF f, At, g, subs
  <2> QED
    BY <1>1, <1>4
<1> QED
  BY <1>7, <1>8

(* With one layer of a byte, the byte at its place is the block's. *)
LEMMA BlockFromPlace ==
  ASSUME NEW lay, IsLayout(lay), nLayers(lay) = 1, lay.bytes[1] = 1,
         NEW x \in Blocks(lay)
  PROVE  /\ RecordPlace(lay, x) \in 0 .. nBlocks(lay) - 1
         /\ Stored(lay, RecordPlace(lay, x)).block = x
<1> DEFINE p == RecordPlace(lay, x)
<1>1. p \in 0 .. nBlocks(lay) - 1 /\ nBlocks(lay) \in Nat
  BY RecordPlaces
<1>2. 1 \in Layers(lay) /\ lay.bytes[1] = 1
  BY DEF Layers
<1>3. Cut(lay, 1) = 0
  BY CutsAscend
<1>4. LayerStart(lay, 1) = 0
  BY <1>1, <1>3 DEF LayerStart
<1> HIDE DEF p
<1>5. 0 \in 0 .. lay.bytes[1] - 1
  BY <1>2
<1>6. Stored(lay, LayerStart(lay, 1) + p * lay.bytes[1] + 0)
        = [block |-> x, byte |-> Cut(lay, 1) + 0]
  BY <1>2, <1>5, EveryBlockInPlace DEF BlocksInPlace, p
<1>7. LayerStart(lay, 1) + p * lay.bytes[1] + 0 = p
  BY <1>1, <1>2, <1>4
<1>8. Stored(lay, p) = [block |-> x, byte |-> Cut(lay, 1) + 0]
  BY <1>6, <1>7, Zenon
<1>9. Stored(lay, p).block = x
  BY <1>8
<1> QED
  BY <1>1, <1>9 DEF p

(* Of a SkipZFP store. *)
LEMMA BlocksGiveSeries ==
  ASSUME NEW store, IsStore(store), NEW pts, ArePoints(store, pts)
  PROVE  q_skipzfp(store, pts) = Series(pts, store.nt * store.lay.chunk[1] * Side)
<1> DEFINE lay == store.lay
           S == UNION {ToSet(Positions(lay, pts[k])) : k \in DOMAIN pts}
           need == Unique(S)
           block == [i \in DOMAIN need |-> DecodedColumn(store, need, i)]
           chunk == <<lay.chunk[1] * Side, lay.chunk[2] * Side, lay.chunk[3] * Side>>
           At(k, i) ==
             LET t == (i - 1) \div chunk[1]
                 j == ((i - 1) % chunk[1]) \div Side
                 x == block[ColumnOf(need, Positions(lay, pts[k])[j + 1])]
                 l == <<(i - 1) % Side, pts[k][1] % Side, pts[k][2] % Side>>
             IN  ValueAt(<<t, 0, 0>>, chunk, ValueAt(x, <<Side, Side, Side>>, l))
           f == q_skipzfp(store, pts)
           steps == store.nt * chunk[1]
<1>1. f = [k \in DOMAIN pts |-> [i \in 1 .. steps |-> At(k, i)]]
  BY DEF q_skipzfp
<1>2. IsLayout(lay) /\ nLayers(lay) = 1 /\ lay.bytes[1] = 1 /\ store.nt \in Nat
  BY StoreIs
<1>3. /\ Side \in Nat \ {0} /\ nBlocks(lay) \in Nat \ {0}
      /\ \A d \in 1 .. 3 : lay.chunk[d] \in Nat \ {0}
  <2>1. lay.chunk \in Shape
    BY <1>2 DEF IsLayout, CutsInto
  <2>2. nBlocks(lay) \in Nat \ {0}
    BY <1>2, RecordPlaces
  <2> QED
    BY <2>1, <2>2, SideAssumption DEF Shape
<1> HIDE DEF f, At, steps, need, block
<1>4. ASSUME NEW k \in DOMAIN pts, NEW j \in 0 .. lay.chunk[1] - 1
      PROVE  Positions(lay, pts[k])[j + 1] \in S
  <2> DEFINE u == Positions(lay, pts[k])
  <2>1. DOMAIN u = 1 .. lay.chunk[1]
    BY PositionIs
  <2>2. j + 1 \in 1 .. lay.chunk[1]
    BY <1>3
  <2> HIDE DEF u
  <2>3. u[j + 1] \in ToSet(u)
    BY <2>1, <2>2 DEF ToSet
  <2> QED
    BY <2>3 DEF u
<1>5. \A b \in S : b \in 0 .. nBlocks(lay) - 1
  <2>1. ASSUME NEW k \in DOMAIN pts, NEW b \in ToSet(Positions(lay, pts[k]))
        PROVE  b \in 0 .. nBlocks(lay) - 1
    <3> DEFINE u == Positions(lay, pts[k])
               X(j) == <<j, pts[k][1] \div Side, pts[k][2] \div Side>>
    <3>1. /\ DOMAIN u = 1 .. lay.chunk[1]
          /\ \A j \in 0 .. lay.chunk[1] - 1 : X(j) \in Blocks(lay) /\ u[j + 1] = RecordPlace(lay, X(j))
      BY PositionIs
    <3> HIDE DEF u, X
    <3>2. PICK i \in 1 .. lay.chunk[1] : u[i] = b
      BY <2>1, <3>1 DEF ToSet, u
    <3>3. i - 1 \in 0 .. lay.chunk[1] - 1 /\ (i - 1) + 1 = i
      BY <1>3, <3>2
    <3>4. X(i - 1) \in Blocks(lay) /\ u[(i - 1) + 1] = RecordPlace(lay, X(i - 1))
      BY <3>1, <3>3
    <3>5. RecordPlace(lay, X(i - 1)) \in 0 .. nBlocks(lay) - 1
      BY <1>2, <3>4, BlockFromPlace
    <3> QED
      BY <3>2, <3>3, <3>4, <3>5, Zenon
  <2> QED
    BY <2>1
<1> HIDE DEF S
<1>6. Integers([b \in S |-> b], S)
  BY <1>3, <1>5 DEF Integers
<1>7. ListsByKey(need, S, [b \in S |-> b])
  <2>1. S \in SUBSET (0 .. nBlocks(lay) - 1)
    BY <1>5
  <2>2. IsFiniteSet(0 .. nBlocks(lay) - 1)
    <3>1. 0 \in Int /\ nBlocks(lay) - 1 \in Int
      BY <1>3
    <3> QED
      BY <3>1, FS_Interval
  <2>3. IsFiniteSet(S)
    BY <2>1, <2>2, FS_Subset
  <2> QED
    BY <1>6, <2>3, UniqueSorts DEF need
<1>8. ASSUME NEW b \in S PROVE block[ColumnOf(need, b)] = Stored(lay, b).block
  <2> DEFINE c == ColumnOf(need, b)
             key == [x \in S |-> x]
  <2>1. ListsByKey(need, S, key)
    BY <1>7
  <2> HIDE DEF key
  <2>2. \E i \in DOMAIN need : need[i] = b
    BY <2>1 DEF ListsByKey
  <2>3. c \in DOMAIN need /\ need[c] = b
    BY <2>2 DEF ColumnOf
  <2> HIDE DEF c
  <2>4. block[c] = DecodedColumn(store, need, c)
    BY <2>3 DEF block
  <2>5. DecodedColumn(store, need, c) = Stored(store.lay, need[c]).block
    BY <1>6, <1>7, <2>3, ColumnDecoded
  <2>6. block[c] = Stored(lay, b).block
    BY <2>3, <2>4, <2>5, Zenon
  <2> QED
    BY <2>6 DEF c
<1>9. steps \in Nat /\ chunk[1] = lay.chunk[1] * Side
  BY <1>2, <1>3 DEF steps
<1>10. ASSUME NEW k \in DOMAIN pts, NEW i \in 1 .. steps
       PROVE  At(k, i) = <<i - 1, pts[k][1], pts[k][2]>>
  <2> DEFINE a == i - 1
             b == pts[k][1]
             c == pts[k][2]
             n == chunk[1]
             t == a \div n
             j == (a % n) \div Side
             p == Positions(lay, pts[k])[j + 1]
             x == <<j, b \div Side, c \div Side>>
             l == <<a % Side, b % Side, c % Side>>
             cube == <<Side, Side, Side>>
  <2>1. At(k, i) = ValueAt(<<t, 0, 0>>, chunk, ValueAt(block[ColumnOf(need, p)], cube, l))
    BY DEF At
  <2>2. b \in 0 .. store.shard[2] - 1 /\ c \in 0 .. store.shard[3] - 1
    BY PointsLie
  <2>3. store.shard[2] \in Nat /\ store.shard[3] \in Nat
    BY StoreIs
  <2>4. chunk[2] = lay.chunk[2] * Side /\ chunk[3] = lay.chunk[3] * Side
    OBVIOUS
  <2>5. chunk[2] \in Nat /\ chunk[3] \in Nat /\ n = lay.chunk[1] * Side
    BY <1>3, <2>4
  <2>6. x[1] = j /\ x[2] = b \div Side /\ x[3] = c \div Side
    OBVIOUS
  <2>7. l[1] = a % Side /\ l[2] = b % Side /\ l[3] = c % Side
    OBVIOUS
  <2>8. cube[1] = Side /\ cube[2] = Side /\ cube[3] = Side
    OBVIOUS
  <2> HIDE DEF At, a, b, c, n, t, j, p, x, l, chunk, cube
  <2>9. a \in Nat /\ b \in Nat /\ c \in Nat
    <3>1. a \in Nat
      BY <1>9 DEF a
    <3> QED
      BY <2>2, <2>3, <3>1
  <2>10. /\ n \in Nat \ {0} /\ t \in Nat /\ j \in 0 .. lay.chunk[1] - 1
         /\ t * n + (j * Side + (a % Side)) = a
    <3> DEFINE q == lay.chunk[1]
    <3>1. q \in Nat \ {0} /\ Side \in Nat \ {0} /\ n = q * Side /\ a \in Nat
      BY <1>3, <2>5, <2>9
    <3> HIDE DEF q
    <3>2. StepSplits(a, n, q, Side)
      BY <3>1, StepsInParts
    <3> QED
      BY <3>2 DEF StepSplits, t, j, q
  <2>11. x \in Blocks(lay) /\ p = RecordPlace(lay, x) /\ p \in S
    BY <1>4, <2>10, PositionIs DEF x, p, b, c
  <2>12. block[ColumnOf(need, p)] = x
    <3>1. block[ColumnOf(need, p)] = Stored(lay, p).block
      BY <1>8, <2>11
    <3>2. Stored(lay, RecordPlace(lay, x)).block = x
      BY <1>2, <2>11, BlockFromPlace
    <3> QED
      BY <2>11, <3>1, <3>2, Zenon
  <2> DEFINE w == j * Side + (a % Side)
  <2>13. ValueAt(x, cube, l)
           = <<w, (b \div Side) * Side + (b % Side), (c \div Side) * Side + (c % Side)>>
    BY <2>6, <2>7, <2>8 DEF ValueAt
  <2>14. b = (b \div Side) * Side + (b % Side) /\ c = (c \div Side) * Side + (c % Side)
    BY <1>3, <2>9, DivisionOf
  <2>15. ValueAt(x, cube, l) = <<w, b, c>>
    BY <2>13, <2>14, Zenon
  <2>16. ValueAt(<<t, 0, 0>>, chunk, <<w, b, c>>)
           = <<t * n + w, 0 * chunk[2] + b, 0 * chunk[3] + c>>
    <3> HIDE DEF w
    <3> QED
      BY DEF ValueAt, n
  <2>17. 0 * chunk[2] + b = b /\ 0 * chunk[3] + c = c
    BY <2>5, <2>9
  <2>18. ValueAt(<<t, 0, 0>>, chunk, <<w, b, c>>) = <<a, b, c>>
    BY <2>10, <2>16, <2>17, Zenon
  <2>19. At(k, i) = <<a, b, c>>
    BY <2>1, <2>12, <2>15, <2>18, Zenon
  <2> QED
    BY <2>19 DEF a, b, c
<1>11. /\ f = [k \in DOMAIN pts |-> [i \in 1 .. steps |-> f[k][i]]]
       /\ \A k \in DOMAIN pts : \A i \in 1 .. steps : f[k][i] = At(k, i)
  BY <1>1
<1>12. f = Series(pts, steps)
  BY <1>9, <1>10, <1>11, SeriesIs
<1>13. steps = store.nt * lay.chunk[1] * Side
  <2> DEFINE q == lay.chunk[1]
  <2>1. q \in Nat /\ steps = store.nt * (q * Side)
    BY <1>3, <1>9 DEF steps
  <2> HIDE DEF q
  <2>2. steps = store.nt * q * Side
    BY <1>2, <1>3, <2>1
  <2> QED
    BY <2>2 DEF q
<1> QED
  BY <1>12, <1>13 DEF f

(* The three methods together. *)
LEMMA PointsAreExact ==
  ASSUME NEW store, IsStore(store), NEW pts, ArePoints(store, pts)
  PROVE  PointsExact(store, pts)
  BY BlocksGiveSeries, ChunksGiveSeries, ShardsGiveSeries DEF PointsExact

(* A point query returns the stored values of every requested point, in    *)
(* the order of time, from each of the three stores: whatever the shapes,  *)
(* the block order, where a shard keeps its inner chunks, the gap and the  *)
(* points.                                                                 *)
THEOREM PointsAlwaysExact == AlgorithmsSpec => []PointSeriesExact
<1>1. GivenInput => PointSeriesExact
  <2> SUFFICES ASSUME GivenInput, Is("points") PROVE PointsExact(input.store, input.pts)
    BY DEF PointSeriesExact
  <2>1. IsStore(input.store) /\ ArePoints(input.store, input.pts)
    BY PointsAssumption DEF GivenInput, Is
  <2> QED
    BY <2>1, PointsAreExact
<1> QED
  BY <1>1, InputsAreGiven, PTL

-----------------------------------------------------------------------------
(* Quantiles *)

(* The values that are k, below k, and from k on but below l. *)
ValuesAt(P, u, k) == {x \in P : u[x] = k}
ValuesBelow(P, u, k) == {x \in P : u[x] < k}
ValuesWithin(P, u, k, l) == {x \in P : k <= u[x] /\ u[x] < l}

(* Counts of the values that have digit d of R behind g. *)
CountsDigits(h, P, u, g, R) ==
  DOMAIN h = 0 .. R - 1 /\ \A d \in 0 .. R - 1 : h[d] = Cardinality(ValuesAt(P, u, g * R + d))

(* Which values are below b digits, from their counts digit by digit. *)
LEMMA BelowDigits ==
  ASSUME NEW P, IsFiniteSet(P), NEW u \in [P -> Nat], NEW R \in Nat \ {0}, NEW g \in Nat,
         NEW h, CountsDigits(h, P, u, g, R), NEW b \in 0 .. R
  PROVE  CountBelow(h, b) = Cardinality(ValuesWithin(P, u, g * R, g * R + b))
<1> DEFINE m == g * R
           S == {x \in P : m <= u[x] /\ u[x] < m + b}
           T == 0 .. b - 1
           group == [x \in S |-> u[x] - m]
<1>1. m \in Nat
  OBVIOUS
<1>2. \A d \in T : h[d] = Cardinality({x \in P : u[x] = m + d})
  BY DEF CountsDigits, ValuesAt
<1> HIDE DEF m
<1>3. IsFiniteSet(S) /\ IsFiniteSet(T)
  <2>1. S \in SUBSET P
    OBVIOUS
  <2>2. 0 \in Int /\ b - 1 \in Int
    OBVIOUS
  <2> HIDE DEF S
  <2> QED
    BY <2>1, <2>2, FS_Subset, FS_Interval
<1>4. group \in [S -> T]
  BY <1>1
<1>5. \A d \in T : {x \in P : u[x] = m + d} = Group(group, S, d)
  BY <1>1 DEF Group
<1>6. \A d \in T : h[d] = Cardinality(Group(group, S, d))
  BY <1>2, <1>5
<1> HIDE DEF S, T, group
<1>7. SumOf(h, T) = Cardinality(S)
  BY <1>3, <1>4, <1>6, CountByGroups
<1> QED
  BY <1>7 DEF SumOf, CountBelow, S, T, m, ValuesWithin

(* The values that a rank is among, and how many are below them. *)
Brackets(P, u, g, low, r) ==
  /\ low = Cardinality(ValuesBelow(P, u, g))
  /\ low <= r /\ r < low + Cardinality(ValuesAt(P, u, g))

(* The digit that the counts give brackets the rank one digit closer. *)
LEMMA DigitBrackets ==
  ASSUME NEW P, IsFiniteSet(P), NEW u \in [P -> Nat], NEW R \in Nat \ {0}, NEW g \in Nat,
         NEW h, CountsDigits(h, P, u, g, R),
         NEW v, v = [x \in P |-> u[x] \div R],
         NEW low, NEW r \in Nat, Brackets(P, v, g, low, r)
  PROVE  /\ DigitOfRank(h, r - low) \in 0 .. R - 1
         /\ Brackets(P, u, g * R + DigitOfRank(h, r - low),
                     low + CountBelow(h, DigitOfRank(h, r - low)), r)
<1> DEFINE m == g * R
           To(c) == ValuesWithin(P, u, m, m + c)
           Under == ValuesBelow(P, u, m)
           D == {d \in 0 .. R - 1 : CountBelow(h, d + 1) <= r - low}
           b == Cardinality(D)
<1>1. m \in Nat /\ R \in Nat \ {0} /\ \A x \in P : u[x] \in Nat
  OBVIOUS
<1>2. /\ \A x \in P : u[x] \div R < g <=> u[x] < m
      /\ \A x \in P : u[x] \div R = g <=> m <= u[x] /\ u[x] < m + R
  <2> SUFFICES ASSUME NEW x \in P
               PROVE  /\ u[x] \div R < g <=> u[x] < m
                      /\ u[x] \div R = g <=> m <= u[x] /\ u[x] < m + R
    OBVIOUS
  <2> DEFINE k == u[x]
             q == k \div R
             n == g + 1
  <2>1. k \in Nat /\ n \in Nat /\ n * R = m + R
    OBVIOUS
  <2> HIDE DEF k, n
  <2>2. q \in Nat
    BY <2>1, DivisionOf
  <2>3. /\ k < g * R => k \div R < g
        /\ g * R <= k => g <= k \div R
    BY <2>1, DivisionOrder
  <2>4. /\ k < n * R => k \div R < n
        /\ n * R <= k => n <= k \div R
    BY <2>1, DivisionOrder
  <2>5. /\ k < m => q < g
        /\ m <= k => g <= q
        /\ k < m + R => q < n
        /\ m + R <= k => n <= q
    BY <2>1, <2>3, <2>4
  <2> HIDE DEF q, m
  <2>6. n = g + 1
    BY DEF n
  <2>7. /\ q < g <=> k < m
        /\ q = g <=> m <= k /\ k < m + R
    BY <1>1, <2>1, <2>2, <2>5, <2>6
  <2> QED
    BY <2>7 DEF k, q
<1>3. \A c \in 0 .. R : CountBelow(h, c) = Cardinality(To(c))
  BY BelowDigits
<1>4. /\ low = Cardinality(Under) /\ low <= r /\ r < low + Cardinality(To(R))
  <2>1. ValuesBelow(P, v, g) = Under /\ ValuesAt(P, v, g) = To(R)
    BY <1>2 DEF ValuesAt, ValuesBelow, ValuesWithin
  <2> QED
    BY <2>1 DEF Brackets
<1>5. Under \in SUBSET P /\ IsFiniteSet(Under) /\ low \in Nat
  <2>1. Under \in SUBSET P
    BY DEF ValuesBelow
  <2>2. IsFiniteSet(Under)
    BY <2>1, FS_Subset
  <2> QED
    BY <1>4, <2>1, <2>2, FS_CardinalityType
<1>6. \A c \in 0 .. R : To(c) \in SUBSET P /\ IsFiniteSet(To(c)) /\ Cardinality(To(c)) \in Nat
  <2>1. \A c \in 0 .. R : To(c) \in SUBSET P
    BY DEF ValuesWithin
  <2>2. \A c \in 0 .. R : IsFiniteSet(To(c))
    BY <2>1, FS_Subset
  <2> QED
    BY <2>1, <2>2, FS_CardinalityType
<1>7. \A c, d \in 0 .. R : c <= d => Cardinality(To(c)) <= Cardinality(To(d))
  <2> SUFFICES ASSUME NEW c \in 0 .. R, NEW d \in 0 .. R, c <= d
               PROVE  Cardinality(To(c)) <= Cardinality(To(d))
    OBVIOUS
  <2>1. To(c) \in SUBSET To(d)
    BY <1>1 DEF ValuesWithin
  <2> HIDE DEF To
  <2> QED
    BY <1>6, <2>1, FS_Subset
<1>8. b \in 0 .. R /\ D = 0 .. b - 1
  <2>1. \A d \in D : \A c \in 0 .. d : c \in D
    <3> SUFFICES ASSUME NEW d \in D, NEW c \in 0 .. d PROVE c \in D
      OBVIOUS
    <3>1. c + 1 \in 0 .. R /\ d + 1 \in 0 .. R /\ c + 1 <= d + 1
      OBVIOUS
    <3>2. /\ CountBelow(h, c + 1) = Cardinality(To(c + 1))
          /\ CountBelow(h, d + 1) = Cardinality(To(d + 1))
          /\ Cardinality(To(c + 1)) <= Cardinality(To(d + 1))
          /\ Cardinality(To(c + 1)) \in Nat /\ Cardinality(To(d + 1)) \in Nat
      BY <1>3, <1>6, <1>7, <3>1
    <3> HIDE DEF To
    <3>3. CountBelow(h, d + 1) <= r - low
      OBVIOUS
    <3>4. CountBelow(h, c + 1) <= r - low
      BY <1>5, <3>2, <3>3
    <3> QED
      BY <3>4
  <2>2. D \subseteq 0 .. R - 1 /\ R \in Nat
    OBVIOUS
  <2> HIDE DEF D
  <2> QED
    BY <2>1, <2>2, LowerPart
<1>9. DigitOfRank(h, r - low) = b
  <2>1. DOMAIN h = 0 .. R - 1
    BY DEF CountsDigits
  <2> QED
    BY <2>1 DEF DigitOfRank
<1> DEFINE A == To(b)
           B == ValuesAt(P, u, m + b)
           C == To(b + 1)
           E == To(R)
<1>10. /\ \A d \in 0 .. R - 1 : d \in D <=> CountBelow(h, d + 1) <= r - low
       /\ CountBelow(h, R) = Cardinality(E) /\ Cardinality(E) \in Nat
       /\ r < low + Cardinality(E)
  <2>1. \A d \in 0 .. R - 1 : d \in D <=> CountBelow(h, d + 1) <= r - low
    OBVIOUS
  <2>2. R \in 0 .. R
    OBVIOUS
  <2>3. CountBelow(h, R) = Cardinality(To(R)) /\ Cardinality(To(R)) \in Nat
    BY <1>3, <1>6, <2>2, Zenon
  <2> QED
    BY <1>4, <2>1, <2>3, Zenon DEF E
<1> HIDE DEF b, D, E
<1>11. b \in 0 .. R - 1
  <2> SUFFICES ASSUME b = R PROVE FALSE
    BY <1>8
  <2>1. R - 1 \in D /\ R - 1 \in 0 .. R - 1 /\ R - 1 + 1 = R
    BY <1>8
  <2>2. CountBelow(h, R) <= r - low
    BY <1>10, <2>1
  <2> QED
    BY <1>5, <1>10, <2>2
<1>12. /\ CountBelow(h, b) = Cardinality(A) /\ Cardinality(A) \in Nat
       /\ CountBelow(h, b + 1) = Cardinality(C) /\ Cardinality(C) \in Nat
  <2>1. b \in 0 .. R /\ b + 1 \in 0 .. R
    BY <1>11
  <2> QED
    BY <1>3, <1>6, <2>1, Zenon
<1> DEFINE N == ValuesBelow(P, u, m + b)
<1>13. /\ A \in SUBSET P /\ B \in SUBSET P /\ A \cap B = {} /\ C = A \cup B
       /\ Under \cap A = {} /\ N = Under \cup A
       /\ b = 0 => A = {}
  <2>1. b \in Nat
    BY <1>11
  <2> HIDE DEF m
  <2>2. A \in SUBSET P /\ B \in SUBSET P
    BY DEF ValuesAt, ValuesWithin
  <2>3. A \cap B = {} /\ C = A \cup B
    BY <1>1, <2>1 DEF ValuesAt, ValuesWithin
  <2>4. Under \cap A = {} /\ N = Under \cup A
    BY <1>1, <2>1 DEF ValuesBelow, ValuesWithin
  <2>5. b = 0 => A = {}
    BY <1>1, <2>1 DEF ValuesWithin
  <2> QED
    BY <2>2, <2>3, <2>4, <2>5, Zenon
<1>14. B = ValuesAt(P, u, m + b) /\ N = ValuesBelow(P, u, m + b)
  OBVIOUS
<1> HIDE DEF A, B, C, N, Under, m, To
<1>15. /\ Cardinality(C) = Cardinality(A) + Cardinality(B) /\ Cardinality(B) \in Nat
       /\ Cardinality(N) = low + Cardinality(A)
  <2>1. Cardinality(C) = Cardinality(A) + Cardinality(B) /\ Cardinality(B) \in Nat
    <3>1. A \in SUBSET P /\ B \in SUBSET P /\ A \cap B = {} /\ C = A \cup B
      BY <1>13, Zenon
    <3>2. Cardinality(C) = Cardinality(A) + Cardinality(B)
      BY <3>1, PartsAdd
    <3>3. Cardinality(B) \in Nat
      BY <3>1, PartsAdd
    <3> QED
      BY <3>2, <3>3
  <2>2. Cardinality(N) = Cardinality(Under) + Cardinality(A)
    BY <1>5, <1>13, PartsAdd
  <2> QED
    BY <1>4, <2>1, <2>2
<1>16. Cardinality(A) <= r - low
  <2>1. CASE b = 0
    <3>1. Cardinality(A) = 0
      BY <1>13, <2>1, FS_EmptySet
    <3> QED
      BY <1>4, <1>5, <3>1
  <2>2. CASE b # 0
    <3>1. b - 1 \in D /\ b - 1 \in 0 .. R - 1 /\ b - 1 + 1 = b
      BY <1>8, <1>11, <2>2
    <3>2. CountBelow(h, b) <= r - low
      BY <1>10, <3>1
    <3> QED
      BY <1>12, <3>2
  <2> QED
    BY <2>1, <2>2
<1>17. r - low < Cardinality(C)
  <2>1. b \notin D
    BY <1>8, <1>11
  <2>2. ~(CountBelow(h, b + 1) <= r - low)
    BY <1>10, <1>11, <2>1
  <2> QED
    BY <1>5, <1>12, <2>2
<1>18. Brackets(P, u, m + b, low + CountBelow(h, b), r)
  <2>1. low + CountBelow(h, b) <= r
    BY <1>5, <1>12, <1>16
  <2>2. r < low + CountBelow(h, b) + Cardinality(B)
    BY <1>5, <1>12, <1>15, <1>17
  <2>3. low + CountBelow(h, b) = Cardinality(ValuesBelow(P, u, m + b))
    BY <1>12, <1>14, <1>15, Zenon
  <2> QED
    BY <1>14, <2>1, <2>2, <2>3, Zenon DEF Brackets
<1> QED
  BY <1>9, <1>11, <1>18 DEF m

(* What a cut into slabs of step steps is: the steps that are in each. *)
CutInSlabs(parts, a, step) ==
  \E m \in Nat :
    /\ DOMAIN parts = 1 .. m
    /\ \A t \in 1 .. Len(a) : (t - 1) \div step + 1 \in 1 .. m
    /\ \A i \in 1 .. m : /\ \A j \in DOMAIN parts[i] :
                              j \in 1 .. step /\ (i - 1) * step + j \in 1 .. Len(a)
                         /\ \A j \in 1 .. step : (i - 1) * step + j <= Len(a) => j \in DOMAIN parts[i]
                         /\ \A j \in DOMAIN parts[i] : parts[i][j] = a[(i - 1) * step + j]

(* The number of a step's slab. *)
LEMMA SlabNumber ==
  ASSUME NEW step \in Nat \ {0}, NEW n \in Nat, NEW m, m = (n + step - 1) \div step
  PROVE  /\ m \in Nat
         /\ \A t \in 1 .. n : (t - 1) \div step + 1 \in 1 .. m
         /\ \A i \in 1 .. m : (i - 1) * step + 1 <= n
<1>1. n + step - 1 \in Nat /\ m \in Nat
  <2>1. n + step - 1 \in Nat
    OBVIOUS
  <2> QED
    BY <2>1, DivisionOf
<1>2. ASSUME NEW t \in 1 .. n PROVE (t - 1) \div step + 1 \in 1 .. m
  <2> DEFINE k == t - 1
             q == k \div step
             y == n + step - 1
             p == q * step
  <2>1. k \in Nat /\ k <= n - 1 /\ y \in Nat /\ y = n + step - 1
    OBVIOUS
  <2> HIDE DEF k, y
  <2>2. q \in Nat /\ k % step \in 0 .. step - 1 /\ k = q * step + (k % step)
    BY <2>1, DivisionOf
  <2> HIDE DEF q
  <2>3. (q + 1) * step = p + step /\ p \in Nat
    BY <2>2
  <2>4. k = p + (k % step)
    BY <2>2
  <2> HIDE DEF p
  <2>5. (q + 1) * step <= y
    BY <2>1, <2>2, <2>3, <2>4
  <2>6. q + 1 <= y \div step
    <3> DEFINE l == q + 1
    <3>1. l \in Nat /\ l * step <= y
      BY <2>2, <2>5
    <3> HIDE DEF l
    <3>2. l <= y \div step
      BY <2>1, <3>1, DivisionOrder
    <3> QED
      BY <3>2 DEF l
  <2>7. m = y \div step
    BY DEF y
  <2> QED
    BY <1>1, <2>2, <2>6, <2>7 DEF q, k
<1>3. ASSUME NEW i \in 1 .. m PROVE (i - 1) * step + 1 <= n
  <2> DEFINE y == n + step - 1
             p == m * step
             o == i * step
  <2>1. y \in Nat /\ y = n + step - 1 /\ m = y \div step
    OBVIOUS
  <2> HIDE DEF y
  <2>2. y \div step \in Nat /\ y % step \in 0 .. step - 1 /\ y = (y \div step) * step + (y % step)
    BY <2>1, DivisionOf
  <2>3. y = p + (y % step) /\ p \in Nat
    BY <1>1, <2>1, <2>2
  <2>4. o <= p /\ o \in Nat
    <3>1. i \in Int /\ m \in Int /\ step \in Nat /\ i <= m
      BY <1>1
    <3> QED
      BY <3>1, ProductGrows
  <2>5. (i - 1) * step = o - step
    OBVIOUS
  <2> HIDE DEF o, p
  <2> QED
    BY <2>1, <2>2, <2>3, <2>4, <2>5
<1> QED
  BY <1>1, <1>2, <1>3

(* read_slabs cuts into slabs. *)
LEMMA SlabsCut ==
  ASSUME NEW S, NEW a \in Seq(S), NEW step \in Nat \ {0}
  PROVE  CutInSlabs(read_slabs(a, step), a, step)
<1> DEFINE n == Len(a)
           m == (n + step - 1) \div step
           spans == slabs(n, step)
           parts == read_slabs(a, step)
           First(i) == (i - 1) * step
           Last_(i) == Min({i * step, n})
<1>1. n \in Nat
  OBVIOUS
<1>2. /\ m \in Nat
      /\ \A t \in 1 .. n : (t - 1) \div step + 1 \in 1 .. m
      /\ \A i \in 1 .. m : First(i) + 1 <= n
  <2> HIDE DEF n
  <2> QED
    BY <1>1, SlabNumber
<1>3. DOMAIN parts = 1 .. m /\ \A i \in 1 .. m : parts[i] = SubSeq(a, First(i) + 1, Last_(i))
  BY DEF read_slabs, slabs
<1> HIDE DEF parts, n, m, spans
<1>4. ASSUME NEW i \in 1 .. m
      PROVE  /\ \A j \in DOMAIN parts[i] : j \in 1 .. step /\ First(i) + j \in 1 .. n
             /\ \A j \in 1 .. step : First(i) + j <= n => j \in DOMAIN parts[i]
             /\ \A j \in DOMAIN parts[i] : parts[i][j] = a[First(i) + j]
  <2> DEFINE f == First(i)
             e == i * step
             l == Last_(i)
  <2>1. f \in Nat /\ e = f + step /\ e \in Nat /\ f + 1 <= n
    BY <1>2
  <2> HIDE DEF e, f
  <2>2. l \in {e, n} /\ l <= e /\ l <= n
    <3>1. l = Min({e, n}) /\ e \in Int /\ n \in Int
      BY <1>1, <2>1 DEF e
    <3> HIDE DEF l
    <3> QED
      BY <3>1, LesserOfTwo
  <2> HIDE DEF l
  <2>3. l \in f .. n /\ f + 1 \in 1 .. n + 1 /\ l \in Nat
    BY <1>1, <2>1, <2>2
  <2>4. parts[i] = SubSeq(a, f + 1, l)
    BY <1>3 DEF f, l
  <2>5. /\ SubSeq(a, f + 1, l) \in Seq(S) /\ Len(SubSeq(a, f + 1, l)) = l - f
        /\ \A j \in 1 .. l - f : SubSeq(a, f + 1, l)[j] = a[f + j]
    <3> DEFINE b == f + 1
    <3>1. b \in 1 .. Len(a) + 1 /\ l \in b - 1 .. Len(a) /\ b - 1 = f /\ l - b + 1 = l - f
      BY <2>1, <2>3 DEF n
    <3> HIDE DEF b
    <3>2. /\ SubSeq(a, b, l) \in Seq(S) /\ Len(SubSeq(a, b, l)) = l - b + 1
          /\ \A j \in 1 .. l - b + 1 : SubSeq(a, b, l)[j] = a[b - 1 + j]
      BY <3>1, PartOfList
    <3> QED
      BY <3>1, <3>2 DEF b
  <2>6. DOMAIN parts[i] = 1 .. l - f /\ \A j \in 1 .. l - f : parts[i][j] = a[f + j]
    BY <2>4, <2>5
  <2>7. \A j \in 1 .. l - f : j \in 1 .. step /\ f + j \in 1 .. n
    BY <1>1, <2>1, <2>2, <2>3
  <2>8. \A j \in 1 .. step : f + j <= n => j \in 1 .. l - f
    BY <1>1, <2>1, <2>2, <2>3
  <2> QED
    BY <2>6, <2>7, <2>8 DEF f
<1> QED
  BY <1>2, <1>3, <1>4 DEF CutInSlabs, n, parts

(* An array's values have a step and a place in it, and are finitely many. *)
LEMMA PlacesAre ==
  ASSUME NEW S, NEW a \in Seq(Seq(S))
  PROVE  /\ IsFiniteSet(Places(a))
         /\ \A x \in Places(a) : /\ x = <<x[1], x[2]>> /\ x[1] \in 1 .. Len(a)
                                 /\ x[2] \in DOMAIN a[x[1]] /\ AtPlace(a, x) \in S
         /\ \A t \in 1 .. Len(a) : \A i \in DOMAIN a[t] :
              <<t, i>> \in Places(a) /\ AtPlace(a, <<t, i>>) = a[t][i]
<1> DEFINE T == DOMAIN a
           f == [t \in T |-> {t} \X DOMAIN a[t]]
           U == {f[t] : t \in T}
<1>1. T = 1 .. Len(a) /\ Len(a) \in Nat /\ \A t \in T : a[t] \in Seq(S)
  OBVIOUS
<1>2. Places(a) = UNION U
  BY DEF Places
<1>3. IsFiniteSet(T)
  <2>1. 1 \in Int /\ Len(a) \in Int
    BY <1>1
  <2>2. IsFiniteSet(1 .. Len(a))
    BY <2>1, FS_Interval
  <2> QED
    BY <1>1, <2>2
<1>4. \A t \in T : IsFiniteSet(f[t])
  <2> SUFFICES ASSUME NEW t \in T PROVE IsFiniteSet(f[t])
    OBVIOUS
  <2> DEFINE D == DOMAIN a[t]
             E == {t}
  <2>1. D = 1 .. Len(a[t]) /\ Len(a[t]) \in Nat
    BY <1>1
  <2>2. IsFiniteSet(D)
    <3>1. 1 \in Int /\ Len(a[t]) \in Int
      BY <2>1
    <3>2. IsFiniteSet(1 .. Len(a[t]))
      BY <3>1, FS_Interval
    <3> QED
      BY <2>1, <3>2
  <2>3. IsFiniteSet(E) /\ f[t] = E \X D
    BY FS_Singleton
  <2> HIDE DEF D, E, f
  <2>4. IsFiniteSet(E \X D)
    BY <2>2, <2>3, FS_Product
  <2> QED
    BY <2>3, <2>4
<1>5. IsFiniteSet(U)
  <2> HIDE DEF T, f
  <2>1. IsFiniteSet({f[t] : t \in T})
    BY <1>3, ImageFinite
  <2> QED
    BY <2>1
<1>6. IsFiniteSet(Places(a))
  <2>1. \A W \in U : IsFiniteSet(W)
    BY <1>4
  <2> HIDE DEF U
  <2>2. IsFiniteSet(UNION U)
    BY <1>5, <2>1, FS_UNION
  <2> QED
    BY <1>2, <2>2
<1>7. \A x \in Places(a) : /\ x = <<x[1], x[2]>> /\ x[1] \in T
                           /\ x[2] \in DOMAIN a[x[1]]
  BY DEF Places
<1>8. \A t \in T : \A i \in DOMAIN a[t] : <<t, i>> \in Places(a)
  BY DEF Places
<1>9. \A x \in Places(a) : AtPlace(a, x) \in S
  <2> SUFFICES ASSUME NEW x \in Places(a) PROVE a[x[1]][x[2]] \in S
    BY DEF AtPlace
  <2> DEFINE s == a[x[1]]
  <2>1. s \in Seq(S) /\ x[2] \in DOMAIN s
    BY <1>1, <1>7
  <2> HIDE DEF s
  <2>2. s[x[2]] \in S
    BY <2>1
  <2> QED
    BY <2>2 DEF s
<1>10. \A t \in T : \A i \in DOMAIN a[t] : AtPlace(a, <<t, i>>) = a[t][i]
  BY DEF AtPlace
<1> QED
  BY <1>1, <1>6, <1>7, <1>8, <1>9, <1>10

(* The places of an array that hold one of the values V. *)
PlacesOf(a, V) == {x \in Places(a) : AtPlace(a, x) \in V}

(* Slab by slab all places are counted, once each. *)
LEMMA CountBySlabs ==
  ASSUME NEW S, NEW a \in Seq(Seq(S)), NEW step \in Nat \ {0}, NEW V,
         NEW parts, CutInSlabs(parts, a, step),
         NEW F, \A i \in DOMAIN parts : F[i] = Cardinality(PlacesOf(parts[i], V))
  PROVE  SumOf(F, DOMAIN parts) = Cardinality(PlacesOf(a, V))
<1>1. PICK m \in Nat :
        /\ DOMAIN parts = 1 .. m
        /\ \A t \in 1 .. Len(a) : (t - 1) \div step + 1 \in 1 .. m
        /\ \A i \in 1 .. m : /\ \A j \in DOMAIN parts[i] :
                                  j \in 1 .. step /\ (i - 1) * step + j \in 1 .. Len(a)
                             /\ \A j \in 1 .. step : (i - 1) * step + j <= Len(a) => j \in DOMAIN parts[i]
                             /\ \A j \in DOMAIN parts[i] : parts[i][j] = a[(i - 1) * step + j]
  BY DEF CutInSlabs
<1> DEFINE P == PlacesOf(a, V)
           T == DOMAIN parts
           group == [x \in P |-> (x[1] - 1) \div step + 1]
<1>2. \A x \in P : /\ x = <<x[1], x[2]>> /\ x[1] \in 1 .. Len(a)
                   /\ x[2] \in DOMAIN a[x[1]] /\ a[x[1]][x[2]] \in V
  BY PlacesAre DEF PlacesOf, AtPlace
<1>3. \A t \in 1 .. Len(a) : \A i \in DOMAIN a[t] : a[t][i] \in V => <<t, i>> \in P
  BY PlacesAre DEF PlacesOf
<1>4. IsFiniteSet(P)
  <2>1. P \in SUBSET Places(a) /\ IsFiniteSet(Places(a))
    BY PlacesAre DEF PlacesOf
  <2> HIDE DEF P
  <2> QED
    BY <2>1, FS_Subset
<1>5. IsFiniteSet(T)
  <2>1. 1 \in Int /\ m \in Int
    OBVIOUS
  <2>2. IsFiniteSet(1 .. m)
    BY <2>1, FS_Interval
  <2> QED
    BY <1>1, <2>2
<1>6. group \in [P -> T]
  <2> HIDE DEF P
  <2> QED
    BY <1>1, <1>2
<1> HIDE DEF P, T
<1>7. ASSUME NEW i \in T PROVE F[i] = Cardinality(Group(group, P, i))
  <2> DEFINE f == (i - 1) * step
             Q == PlacesOf(parts[i], V)
             G == Group(group, P, i)
             h == [x \in G |-> <<x[1] - f, x[2]>>]
  <2>1. i \in 1 .. m /\ f \in Nat
    BY <1>1 DEF T
  <2>2. /\ \A j \in DOMAIN parts[i] : j \in 1 .. step /\ f + j \in 1 .. Len(a)
        /\ \A j \in 1 .. step : f + j <= Len(a) => j \in DOMAIN parts[i]
        /\ \A j \in DOMAIN parts[i] : parts[i][j] = a[f + j]
    BY <1>1, <2>1
  <2>3. Q = {y \in Places(parts[i]) : parts[i][y[1]][y[2]] \in V}
    BY DEF PlacesOf, AtPlace
  <2>4. \A y : y \in Places(parts[i]) <=>
          \E j \in DOMAIN parts[i] : \E k \in DOMAIN parts[i][j] : y = <<j, k>>
    BY DEF Places
  <2>5. \A t \in 1 .. Len(a) : (t - 1) \div step + 1 = i <=> t - f \in 1 .. step
    <3> SUFFICES ASSUME NEW t \in 1 .. Len(a)
                 PROVE  (t - 1) \div step + 1 = i <=> t - f \in 1 .. step
      OBVIOUS
    <3> DEFINE k == t - 1
               l == i - 1
               q == k \div step
               n == l + 1
    <3>1. k \in Nat /\ l \in Nat /\ n \in Nat /\ t = k + 1 /\ i = l + 1 /\ f = l * step
          /\ n * step = f + step
      BY <2>1
    <3> HIDE DEF k, l, f, n
    <3>2. q \in Nat
      BY <3>1, DivisionOf
    <3>3. /\ k < l * step => q < l
          /\ l * step <= k => l <= q
      BY <3>1, DivisionOrder
    <3>4. /\ k < n * step => q < n
          /\ n * step <= k => n <= q
      BY <3>1, DivisionOrder
    <3>5. n = l + 1
      BY DEF n
    <3> HIDE DEF q
    <3>6. q = l <=> f <= k /\ k < f + step
      BY <2>1, <3>1, <3>2, <3>3, <3>4, <3>5
    <3>7. q + 1 = i <=> t - f \in 1 .. step
      BY <2>1, <3>1, <3>2, <3>6
    <3> QED
      BY <3>7 DEF q, k
  <2>6. \A x \in G : /\ x \in P /\ x[1] - f \in 1 .. step /\ f + (x[1] - f) = x[1]
                     /\ x[1] - f \in DOMAIN parts[i] /\ parts[i][x[1] - f] = a[x[1]]
    <3> SUFFICES ASSUME NEW x \in G
                 PROVE  /\ x \in P /\ x[1] - f \in 1 .. step /\ f + (x[1] - f) = x[1]
                        /\ x[1] - f \in DOMAIN parts[i] /\ parts[i][x[1] - f] = a[x[1]]
      OBVIOUS
    <3>1. x \in P /\ (x[1] - 1) \div step + 1 = i
      BY DEF Group
    <3>2. x[1] \in 1 .. Len(a)
      BY <1>2, <3>1
    <3> DEFINE j == x[1] - f
    <3> HIDE DEF f
    <3>6. x[1] - f \in 1 .. step
      BY <2>5, <3>1, <3>2
    <3>3. j \in 1 .. step /\ f + j = x[1]
      BY <2>1, <3>2, <3>6
    <3> HIDE DEF j
    <3>4. j \in DOMAIN parts[i]
      BY <2>2, <3>2, <3>3
    <3>5. parts[i][j] = a[x[1]]
      BY <2>2, <3>3, <3>4
    <3> QED
      BY <3>1, <3>3, <3>4, <3>5 DEF j
  <2> HIDE DEF f, G
  <2>7. h \in Bijection(G, Q)
    <3>1. h \in [G -> Q]
      <4> SUFFICES ASSUME NEW x \in G PROVE <<x[1] - f, x[2]>> \in Q
        OBVIOUS
      <4> DEFINE j == x[1] - f
      <4>1. j \in DOMAIN parts[i] /\ parts[i][j] = a[x[1]] /\ x \in P
        BY <2>6
      <4>2. x[2] \in DOMAIN a[x[1]] /\ a[x[1]][x[2]] \in V
        BY <1>2, <4>1
      <4> HIDE DEF j, Q
      <4>3. <<j, x[2]>> \in Places(parts[i])
        BY <2>4, <4>1, <4>2
      <4>4. <<j, x[2]>> \in Q
        BY <2>3, <4>1, <4>2, <4>3
      <4> QED
        BY <4>4 DEF j
    <3>2. \A x, y \in G : h[x] = h[y] => x = y
      <4> SUFFICES ASSUME NEW x \in G, NEW y \in G, h[x] = h[y] PROVE x = y
        OBVIOUS
      <4>1. x[1] - f = y[1] - f /\ x[2] = y[2]
        OBVIOUS
      <4>2. f + (x[1] - f) = x[1] /\ f + (y[1] - f) = y[1] /\ x \in P /\ y \in P
        BY <2>6
      <4>3. x[1] = y[1] /\ x = <<x[1], x[2]>> /\ y = <<y[1], y[2]>>
        BY <1>2, <4>1, <4>2
      <4> QED
        BY <4>1, <4>3
    <3>3. \A y \in Q : \E x \in G : h[x] = y
      <4> SUFFICES ASSUME NEW y \in Q PROVE \E x \in G : h[x] = y
        OBVIOUS
      <4>1. y \in Places(parts[i]) /\ parts[i][y[1]][y[2]] \in V
        BY <2>3
      <4>10. PICK j \in DOMAIN parts[i] : \E k \in DOMAIN parts[i][j] : y = <<j, k>>
        BY <2>4, <4>1
      <4>2. PICK k \in DOMAIN parts[i][j] : y = <<j, k>>
        BY <4>10
      <4> DEFINE t == f + j
                 x == <<t, k>>
      <4>3. j \in 1 .. step /\ t \in 1 .. Len(a) /\ parts[i][j] = a[t]
        BY <2>2
      <4>4. x \in P
        BY <1>3, <4>1, <4>2, <4>3
      <4>5. t - f = j
        BY <2>1, <4>3
      <4>6. (t - 1) \div step + 1 = i
        BY <2>5, <4>3, <4>5
      <4>7. x \in G
        BY <4>4, <4>6 DEF G, Group
      <4>8. h[x] = <<j, k>>
        BY <4>5, <4>7
      <4> QED
        BY <4>2, <4>7, <4>8
    <3> HIDE DEF h, Q
    <3> QED
      BY <3>1, <3>2, <3>3 DEF Bijection, Injection, Surjection, IsInjective
  <2>8. IsFiniteSet(G)
    <3>1. G \in SUBSET P
      BY DEF G, Group
    <3> QED
      BY <1>4, <3>1, FS_Subset
  <2>9. F[i] = Cardinality(Q)
    BY DEF T
  <2> HIDE DEF h, Q
  <2>10. Cardinality(Q) = Cardinality(G)
    BY <2>7, <2>8, AsMany
  <2> QED
    BY <2>9, <2>10 DEF G
<1> HIDE DEF group
<1>8. SumOf(F, T) = Cardinality(P)
  BY <1>4, <1>5, <1>6, <1>7, CountByGroups
<1> QED
  BY <1>8 DEF P, T

(* The bits that are left before each pass. *)
LEMMA ShiftsAre ==
  /\ Len(PassBits) \in Nat \ {0} /\ Shift(Len(PassBits)) = 0
  /\ \A p \in 0 .. Len(PassBits) : Shift(p) \in Nat
  /\ \A p \in 1 .. Len(PassBits) : /\ PassBits[p] \in Nat \ {0}
                                   /\ Shift(p - 1) = Shift(p) + PassBits[p]
<1> DEFINE n == Len(PassBits)
<1>1. n \in Nat \ {0} /\ \A p \in 1 .. n : PassBits[p] \in Nat \ {0}
  BY PassBitsAssumption
<1> HIDE DEF n
<1>2. \A p \in 0 .. n : IsFiniteSet(p + 1 .. n) /\ Integers(PassBits, p + 1 .. n)
  <2> SUFFICES ASSUME NEW p \in 0 .. n
               PROVE  IsFiniteSet(p + 1 .. n) /\ Integers(PassBits, p + 1 .. n)
    OBVIOUS
  <2>1. p + 1 \in Int /\ n \in Int
    BY <1>1
  <2>2. IsFiniteSet(p + 1 .. n)
    BY <2>1, FS_Interval
  <2> QED
    BY <1>1, <2>2 DEF Integers
<1>3. \A p \in 0 .. n : SumOf(PassBits, p + 1 .. n) \in Nat
  <2> SUFFICES ASSUME NEW p \in 0 .. n PROVE SumOf(PassBits, p + 1 .. n) \in Nat
    OBVIOUS
  <2> DEFINE S == p + 1 .. n
             z == [i \in S |-> 0]
  <2>1. IsFiniteSet(S) /\ Integers(PassBits, S)
    BY <1>2
  <2>2. \A i \in S : z[i] = 0 /\ z[i] <= PassBits[i]
    BY <1>1
  <2> HIDE DEF S, z
  <2>3. Integers(z, S) /\ Cardinality(S) \in Nat
    BY <2>1, <2>2, FS_CardinalityType DEF Integers
  <2>4. SumOf(z, S) = 0 * Cardinality(S)
    BY <2>1, <2>2, SumOfEqual
  <2>5. SumOf(z, S) <= SumOf(PassBits, S)
    BY <2>1, <2>2, <2>3, SumsOrdered
  <2>6. SumOf(PassBits, S) \in Int
    BY <2>1, SumType
  <2> QED
    BY <2>3, <2>4, <2>5, <2>6 DEF S
<1>4. SumOf(PassBits, n + 1 .. n) = 0
  <2>1. n + 1 .. n = {}
    BY <1>1
  <2> QED
    BY <2>1, SumOfNone
<1>5. \A p \in 1 .. n : SumOf(PassBits, p .. n) = SumOf(PassBits, p + 1 .. n) + PassBits[p]
  <2> SUFFICES ASSUME NEW p \in 1 .. n
               PROVE  SumOf(PassBits, p .. n) = SumOf(PassBits, p + 1 .. n) + PassBits[p]
    OBVIOUS
  <2> DEFINE S == p + 1 .. n
  <2>1. p .. n = S \cup {p} /\ p \notin S
    BY <1>1
  <2>2. p \in 0 .. n /\ p - 1 \in 0 .. n /\ p - 1 + 1 = p
    BY <1>1
  <2>3. IsFiniteSet(S) /\ Integers(PassBits, S \cup {p})
    <3>1. Integers(PassBits, p - 1 + 1 .. n) /\ IsFiniteSet(S)
      BY <1>2, <2>2
    <3> QED
      BY <2>1, <2>2, <3>1
  <2>4. SumOf(PassBits, S) \in Nat
    BY <1>3, <2>2
  <2> HIDE DEF S
  <2>5. SumOf(PassBits, S \cup {p}) = PassBits[p] + SumOf(PassBits, S)
    BY <2>1, <2>3, SumJoin
  <2>6. PassBits[p] \in Int
    BY <1>1
  <2>7. SumOf(PassBits, S \cup {p}) = SumOf(PassBits, S) + PassBits[p]
    BY <2>4, <2>5, <2>6
  <2> QED
    BY <2>1, <2>7, Zenon DEF S
<1>6. \A p \in 0 .. n : Shift(p) = SumOf(PassBits, p + 1 .. n)
  BY DEF Shift, SumOf, n
<1>7. \A p \in 0 .. n : Shift(p) \in Nat
  BY <1>3, <1>6
<1>8. Shift(n) = 0
  <2>1. n \in 0 .. n
    BY <1>1
  <2> QED
    BY <1>4, <1>6, <2>1
<1>9. \A p \in 1 .. n : Shift(p - 1) = Shift(p) + PassBits[p]
  <2> SUFFICES ASSUME NEW p \in 1 .. n PROVE Shift(p - 1) = Shift(p) + PassBits[p]
    OBVIOUS
  <2>1. p \in 0 .. n /\ p - 1 \in 0 .. n /\ p - 1 + 1 = p
    BY <1>1
  <2>2. Shift(p - 1) = SumOf(PassBits, p .. n) /\ Shift(p) = SumOf(PassBits, p + 1 .. n)
    BY <1>6, <2>1
  <2> QED
    BY <1>5, <2>2
<1> QED
  BY <1>1, <1>7, <1>8, <1>9 DEF n

(* The bits of floats. *)
Bits == 0 .. 2^Width - 1

(* Half of the keys have the sign bit. *)
LEMMA SignIsHalf ==
  /\ SignBit \in Nat \ {0} /\ 2^Width = 2 * SignBit
<1> DEFINE n == Len(PassBits)
           w == Width
           v == w - 1
<1>1. w \in Nat \ {0}
  <2>1. 1 \in 1 .. n /\ 0 \in 0 .. n /\ 1 \in 0 .. n /\ 1 - 1 = 0
    BY ShiftsAre
  <2>2. Shift(1) \in Nat /\ PassBits[1] \in Nat \ {0} /\ Shift(1 - 1) = Shift(1) + PassBits[1]
    BY <2>1, ShiftsAre
  <2>3. Shift(0) \in Nat /\ Shift(0) # 0
    BY <2>1, <2>2
  <2> QED
    BY <2>3 DEF Width
<1> HIDE DEF w
<1>2. v \in Nat /\ 1 \in Nat /\ 1 + v = w
  BY <1>1
<1> HIDE DEF v
<1>3. 2^v \in Nat \ {0} /\ 2^(1 + v) = 2^1 * 2^v
  BY <1>2, PowerType, PowerSum
<1>4. 2^1 = 2
  OBVIOUS
<1>5. 2^w = 2 * 2^v
  BY <1>2, <1>3, <1>4
<1> QED
  BY <1>3, <1>5 DEF SignBit, v, w

(* Keys are numbered like floats, and are in the order of the numbers they *)
(* stand for; a minus zero comes before zero, as the same number.          *)
LEMMA KeysAre ==
  /\ \A x \in Bits : SortKey(x) \in Bits
  /\ \A k \in Bits : _key_value(k) \in Bits /\ SortKey(_key_value(k)) = k
  /\ \A x, y \in Bits : Number(x) < Number(y) => SortKey(x) < SortKey(y)
<1>1. SignBit \in Nat \ {0} /\ 2^Width = 2 * SignBit
  BY SignIsHalf
<1> DEFINE b == SignBit
           t == 2^Width
<1>2. /\ \A x \in Bits : SortKey(x) = IF x >= b THEN t - 1 - x ELSE x + b
      /\ \A x \in Bits : _key_value(x) = IF x >= b THEN x - b ELSE t - 1 - x
      /\ \A x \in Bits : Number(x) = IF x >= b THEN b - x ELSE x
      /\ Bits = 0 .. t - 1
  BY DEF SortKey, _key_value, Number, Bits
<1>3. b \in Nat \ {0} /\ t = 2 * b
  BY <1>1
<1> HIDE DEF b, t
<1>4. \A k \in Bits : _key_value(k) \in Bits
  BY <1>2, <1>3
<1>5. \A k \in Bits : SortKey(_key_value(k)) = k
  <2> SUFFICES ASSUME NEW k \in Bits PROVE SortKey(_key_value(k)) = k
    OBVIOUS
  <2> DEFINE v == _key_value(k)
  <2>1. v \in Bits /\ v = (IF k >= b THEN k - b ELSE t - 1 - k) /\ k \in 0 .. t - 1
    BY <1>2, <1>4
  <2> HIDE DEF v
  <2>2. SortKey(v) = IF v >= b THEN t - 1 - v ELSE v + b
    BY <1>2, <2>1
  <2>3. SortKey(v) = k
    BY <1>3, <2>1, <2>2
  <2> QED
    BY <2>3 DEF v
<1>6. \A x \in Bits : SortKey(x) \in Bits
  BY <1>2, <1>3
<1>7. \A x, y \in Bits : Number(x) < Number(y) => SortKey(x) < SortKey(y)
  BY <1>2, <1>3
<1> QED
  BY <1>4, <1>5, <1>6, <1>7

(* The keys of an array's values without the bits behind pass p. *)
KeysOf(a, p) == [x \in Places(a) |-> SortKey(AtPlace(a, x)) \div 2^Shift(p)]

(* They are numbers, without the bits of pass p those of the pass before.  *)
LEMMA KeysNarrow ==
  ASSUME NEW a, AreData(a), NEW p \in 1 .. Len(PassBits)
  PROVE  LET r == 2^PassBits[p]
         IN  /\ r \in Nat \ {0}
             /\ KeysOf(a, p) \in [Places(a) -> Nat]
             /\ \A k \in Bits : /\ k \div 2^Shift(p) \in Nat
                                /\ Top(k, p) = (k \div 2^Shift(p)) \div r
             /\ KeysOf(a, p - 1) = [x \in Places(a) |-> KeysOf(a, p)[x] \div r]
<1> DEFINE r == 2^PassBits[p]
           m == 2^Shift(p)
           b == PassBits[p]
           s == Shift(p)
<1>1. s \in Nat /\ b \in Nat /\ Shift(p - 1) = s + b
  <2>1. p \in 0 .. Len(PassBits)
    BY ShiftsAre
  <2> QED
    BY <2>1, ShiftsAre
<1>2. m \in Nat \ {0} /\ r \in Nat \ {0} /\ 2^(s + b) = m * r
  <2> HIDE DEF s, b
  <2>1. 2^s \in Nat \ {0} /\ 2^b \in Nat \ {0} /\ 2^(s + b) = 2^s * 2^b
    BY <1>1, PowerType, PowerSum
  <2> QED
    BY <2>1 DEF s, b
<1>3. /\ \A k \in Bits : Top(k, p) = k \div 2^(s + b)
      /\ \A x \in Places(a) : AtPlace(a, x) \in Bits
      /\ KeysOf(a, p) = [x \in Places(a) |-> SortKey(AtPlace(a, x)) \div m]
      /\ KeysOf(a, p - 1) = [x \in Places(a) |-> SortKey(AtPlace(a, x)) \div 2^(s + b)]
  <2>1. \A k \in Bits : Top(k, p) = k \div 2^(s + b)
    BY DEF Top
  <2>2. \A x \in Places(a) : AtPlace(a, x) \in Bits
    <3>1. a \in Seq(Seq(Bits))
      BY DEF AreData, Bits
    <3> QED
      BY <3>1, PlacesAre
  <2>3. KeysOf(a, p) = [x \in Places(a) |-> SortKey(AtPlace(a, x)) \div m]
    BY DEF KeysOf
  <2>4. KeysOf(a, p - 1) = [x \in Places(a) |-> SortKey(AtPlace(a, x)) \div 2^(s + b)]
    BY <1>1, Zenon DEF KeysOf
  <2> QED
    BY <2>1, <2>2, <2>3, <2>4
<1> HIDE DEF m, r, s, b
<1>4. \A k \in Bits : k \in Nat /\ k \div m \in Nat /\ k \div 2^(s + b) = (k \div m) \div r
  <2> SUFFICES ASSUME NEW k \in Bits
               PROVE  k \in Nat /\ k \div m \in Nat /\ k \div 2^(s + b) = (k \div m) \div r
    OBVIOUS
  <2>1. k \in Nat
    BY SignIsHalf DEF Bits
  <2>2. k \div m \in Nat /\ k \div (m * r) = (k \div m) \div r
    BY <1>2, <2>1, DivisionOf, DividedTwice
  <2> QED
    BY <1>2, <2>1, <2>2
<1>5. KeysOf(a, p) \in [Places(a) -> Nat]
  BY <1>3, <1>4, KeysAre
<1>6. KeysOf(a, p - 1) = [x \in Places(a) |-> KeysOf(a, p)[x] \div r]
  <2>1. \A x \in Places(a) :
          SortKey(AtPlace(a, x)) \div 2^(s + b) = (SortKey(AtPlace(a, x)) \div m) \div r
    BY <1>3, <1>4, KeysAre
  <2> QED
    BY <1>3, <2>1
<1>7. \A k \in Bits : k \div m \in Nat /\ Top(k, p) = (k \div m) \div r
  BY <1>3, <1>4
<1> QED
  BY <1>2, <1>5, <1>6, <1>7 DEF m, r

(* A slab's values are of the array. *)
LEMMA SlabsAreData ==
  ASSUME NEW a, AreData(a), NEW step \in Nat \ {0}, NEW parts, CutInSlabs(parts, a, step),
         NEW i \in DOMAIN parts, NEW x \in Places(parts[i])
  PROVE  AtPlace(parts[i], x) \in Bits
<1>1. PICK m \in Nat :
        /\ DOMAIN parts = 1 .. m
        /\ \A k \in 1 .. m : /\ \A j \in DOMAIN parts[k] :
                                  j \in 1 .. step /\ (k - 1) * step + j \in 1 .. Len(a)
                             /\ \A j \in DOMAIN parts[k] : parts[k][j] = a[(k - 1) * step + j]
  BY DEF CutInSlabs
<1>2. PICK j \in DOMAIN parts[i] : \E l \in DOMAIN parts[i][j] : x = <<j, l>>
  BY DEF Places
<1>3. PICK l \in DOMAIN parts[i][j] : x = <<j, l>>
  BY <1>2
<1> DEFINE t == (i - 1) * step + j
<1>4. t \in 1 .. Len(a) /\ parts[i][j] = a[t]
  BY <1>1
<1> HIDE DEF t
<1>5. a[t] \in Seq(Bits)
  BY <1>4 DEF AreData, Bits
<1>6. a[t][l] \in Bits
  BY <1>3, <1>4, <1>5
<1> QED
  BY <1>3, <1>4, <1>6 DEF AtPlace

(* The histogram of a pass counts the digits behind the prefix, over all   *)
(* slabs.                                                                  *)
LEMMA HistCounts ==
  ASSUME NEW a, AreData(a), NEW step \in Nat \ {0}, NEW parts, CutInSlabs(parts, a, step),
         NEW p \in 1 .. Len(PassBits), NEW g \in Nat
  PROVE  CountsDigits(hist(parts, p, g), Places(a), KeysOf(a, p), g, 2^PassBits[p])
<1> DEFINE r == 2^PassBits[p]
           m == 2^Shift(p)
           h == hist(parts, p, g)
<1>1. /\ r \in Nat \ {0}
      /\ KeysOf(a, p) \in [Places(a) -> Nat]
      /\ \A k \in Bits : k \div m \in Nat /\ Top(k, p) = (k \div m) \div r
  BY KeysNarrow
<1>2. \A k \in Bits : Digit(k, p) = (k \div m) % r
  BY DEF Digit
<1>3. \A x \in Places(a) : AtPlace(a, x) \in Bits /\ KeysOf(a, p)[x] = SortKey(AtPlace(a, x)) \div m
  <2>1. a \in Seq(Seq(Bits))
    BY DEF AreData, Bits
  <2>2. \A x \in Places(a) : AtPlace(a, x) \in Bits
    BY <2>1, PlacesAre
  <2> QED
    BY <2>2 DEF KeysOf
<1>4. DOMAIN h = 0 .. r - 1
  BY DEF hist
<1> HIDE DEF r, m
<1>5. ASSUME NEW d \in 0 .. r - 1
      PROVE  h[d] = Cardinality(ValuesAt(Places(a), KeysOf(a, p), g * r + d))
  <2> DEFINE V == {v \in Bits : Top(SortKey(v), p) = g /\ Digit(SortKey(v), p) = d}
             F == [i \in DOMAIN parts |-> InSlab(parts[i], p, g, d)]
  <2>1. h[d] = SumOf(F, DOMAIN parts)
    BY DEF hist, SumOf, r
  <2>2. \A i \in DOMAIN parts : F[i] = Cardinality(PlacesOf(parts[i], V))
    <3> SUFFICES ASSUME NEW i \in DOMAIN parts
                 PROVE  InSlab(parts[i], p, g, d) = Cardinality(PlacesOf(parts[i], V))
      OBVIOUS
    <3>1. \A x \in Places(parts[i]) : AtPlace(parts[i], x) \in Bits
      BY SlabsAreData
    <3>2. PlacesOf(parts[i], V) =
            {x \in Places(parts[i]) : /\ Top(SortKey(AtPlace(parts[i], x)), p) = g
                                      /\ Digit(SortKey(AtPlace(parts[i], x)), p) = d}
      BY <3>1 DEF PlacesOf
    <3> QED
      BY <3>2, Zenon DEF InSlab
  <2>3. SumOf(F, DOMAIN parts) = Cardinality(PlacesOf(a, V))
    <3>1. a \in Seq(Seq(Bits))
      BY DEF AreData, Bits
    <3> HIDE DEF V, F
    <3> QED
      BY <2>2, <3>1, CountBySlabs
  <2>4. PlacesOf(a, V) = ValuesAt(Places(a), KeysOf(a, p), g * r + d)
    <3> SUFFICES ASSUME NEW x \in Places(a)
                 PROVE  AtPlace(a, x) \in V <=> KeysOf(a, p)[x] = g * r + d
      BY DEF PlacesOf, ValuesAt
    <3> DEFINE k == SortKey(AtPlace(a, x))
               q == k \div m
    <3>1. k \in Bits /\ AtPlace(a, x) \in Bits
      BY <1>3, KeysAre
    <3>2. KeysOf(a, p)[x] = q
      BY <1>3
    <3>3. AtPlace(a, x) \in V <=> Top(k, p) = g /\ Digit(k, p) = d
      BY <3>1
    <3> HIDE DEF k
    <3>4. q \in Nat /\ Top(k, p) = q \div r /\ Digit(k, p) = q % r
      BY <1>1, <1>2, <3>1
    <3> HIDE DEF q
    <3>5. q \div r = g /\ q % r = d <=> q = g * r + d
      <4>1. q = (q \div r) * r + (q % r)
        BY <1>1, <3>4, DivisionOf
      <4>2. (g * r + d) \div r = g /\ (g * r + d) % r = d
        BY <1>1, Division
      <4> QED
        BY <4>1, <4>2
    <3> QED
      BY <3>2, <3>3, <3>4, <3>5
  <2> QED
    BY <2>1, <2>3, <2>4
<1> QED
  BY <1>4, <1>5 DEF CountsDigits, r

(* f holds what is found after each of the passes up to n. *)
Narrows(f, parts, r, n) ==
  f = [p \in 0 .. n |-> IF p = 0 THEN [prefix |-> 0, below |-> 0] ELSE Narrowed(parts, r, f[p - 1], p)]

(* What a list of passes finds in each. *)
LEMMA NarrowsStep ==
  ASSUME NEW f, NEW parts, NEW r, NEW n \in Nat, Narrows(f, parts, r, n)
  PROVE  /\ f[0] = [prefix |-> 0, below |-> 0]
         /\ \A p \in 1 .. n : f[p] = Narrowed(parts, r, f[p - 1], p)
<1> DEFINE g == [p \in 0 .. n |-> IF p = 0 THEN [prefix |-> 0, below |-> 0]
                                  ELSE Narrowed(parts, r, f[p - 1], p)]
<1>1. f = g
  BY DEF Narrows
<1>2. g[0] = [prefix |-> 0, below |-> 0]
  OBVIOUS
<1>3. \A p \in 1 .. n : g[p] = Narrowed(parts, r, f[p - 1], p)
  OBVIOUS
<1> QED
  BY <1>1, <1>2, <1>3, Zenon

(* Any number of passes can be made. *)
LEMMA NarrowsExists ==
  ASSUME NEW parts, NEW r, NEW n \in Nat
  PROVE  \E f : Narrows(f, parts, r, n)
<1> DEFINE T == {k \in Nat : ~\E f : Narrows(f, parts, r, k)}
<1> SUFFICES ASSUME T # {} PROVE FALSE
  OBVIOUS
<1>1. PICK k \in T : \A l \in T : k <= l
  <2>1. T \subseteq Nat
    OBVIOUS
  <2> HIDE DEF T
  <2> QED
    BY <2>1, LeastExists
<1>2. CASE k = 0
  <2> DEFINE f == [p \in 0 .. 0 |-> [prefix |-> 0, below |-> 0]]
  <2>1. f = [p \in 0 .. 0 |-> IF p = 0 THEN [prefix |-> 0, below |-> 0]
                              ELSE Narrowed(parts, r, f[p - 1], p)]
    <3>1. \A p \in 0 .. 0 : p = 0
      OBVIOUS
    <3> QED
      BY <3>1
  <2>2. Narrows(f, parts, r, 0)
    BY <2>1, Zenon DEF Narrows
  <2> QED
    BY <1>2, <2>2
<1>3. CASE k # 0
  <2> DEFINE l == k - 1
  <2>1. l \in Nat /\ l < k /\ k \in Nat /\ k = l + 1
    BY <1>3
  <2> HIDE DEF l
  <2>2. l \notin T
    BY <1>1, <2>1
  <2>3. PICK f : Narrows(f, parts, r, l)
    BY <2>1, <2>2
  <2>4. /\ f[0] = [prefix |-> 0, below |-> 0]
        /\ \A p \in 1 .. l : f[p] = Narrowed(parts, r, f[p - 1], p)
    BY <2>1, <2>3, NarrowsStep
  <2> DEFINE z == [prefix |-> 0, below |-> 0]
             g == [p \in 0 .. k |-> IF p = k THEN Narrowed(parts, r, f[l], k) ELSE f[p]]
             h == [p \in 0 .. k |-> IF p = 0 THEN z ELSE Narrowed(parts, r, g[p - 1], p)]
  <2> HIDE DEF z
  <2>5. ASSUME NEW p \in 0 .. k PROVE g[p] = h[p]
    <3>1. CASE p = 0
      <4>1. g[p] = f[p] /\ h[p] = z
        BY <2>1, <3>1
      <4> QED
        BY <2>4, <3>1, <4>1 DEF z
    <3>2. CASE p = k /\ p # 0
      <4>1. p - 1 = l /\ p - 1 \in 0 .. k /\ p - 1 # k
        BY <2>1, <3>2
      <4>2. g[p - 1] = f[l]
        BY <4>1
      <4>3. g[p] = Narrowed(parts, r, f[l], k)
        BY <3>2
      <4>4. h[p] = Narrowed(parts, r, g[p - 1], p)
        BY <3>2
      <4> HIDE DEF g, h
      <4> QED
        BY <3>2, <4>2, <4>3, <4>4
    <3>3. CASE p # k /\ p # 0
      <4>1. p \in 1 .. l /\ p - 1 \in 0 .. k /\ p - 1 # k
        BY <2>1, <3>3
      <4>2. g[p - 1] = f[p - 1] /\ g[p] = f[p]
        BY <3>3, <4>1
      <4>3. h[p] = Narrowed(parts, r, g[p - 1], p)
        BY <3>3
      <4> HIDE DEF g, h
      <4> QED
        BY <2>4, <4>1, <4>2, <4>3
    <3> QED
      BY <3>1, <3>2, <3>3
  <2>6. g = h
    <3>1. DOMAIN g = 0 .. k /\ DOMAIN h = 0 .. k
      OBVIOUS
    <3>2. g = [p \in 0 .. k |-> g[p]] /\ h = [p \in 0 .. k |-> h[p]]
      OBVIOUS
    <3> HIDE DEF g, h
    <3> QED
      BY <2>5, <3>2
  <2>7. Narrows(g, parts, r, k)
    <3>1. g = [p \in 0 .. k |-> IF p = 0 THEN [prefix |-> 0, below |-> 0]
                                ELSE Narrowed(parts, r, g[p - 1], p)]
      BY <2>6, Zenon DEF z, h
    <3> HIDE DEF g
    <3> QED
      BY <3>1, Zenon DEF Narrows
  <2> HIDE DEF g
  <2> QED
    BY <2>7
<1> QED
  BY <1>2, <1>3

(* The value of a rank is what the last pass finds. *)
LEMMA ValueFound ==
  ASSUME NEW parts, NEW r
  PROVE  \E f : /\ Narrows(f, parts, r, Len(PassBits))
                /\ ValueOfRank(parts, r) = _key_value(f[Len(PassBits)].prefix)
<1> DEFINE n == Len(PassBits)
           f == CHOOSE g : Narrows(g, parts, r, n)
<1>1. n \in Nat
  BY ShiftsAre
<1>2. ValueOfRank(parts, r) = _key_value(f[n].prefix)
  BY Zenon DEF ValueOfRank, Narrows
<1> HIDE DEF n
<1>3. Narrows(f, parts, r, n)
  <2>1. \E g : Narrows(g, parts, r, n)
    BY <1>1, NarrowsExists
  <2> QED
    BY <2>1, Zenon
<1> HIDE DEF f
<1> QED
  BY <1>2, <1>3 DEF n

(* Before the first pass all values have the prefix. *)
LEMMA FirstBrackets ==
  ASSUME NEW a, AreData(a), NEW r \in 0 .. Size(a) - 1
  PROVE  Brackets(Places(a), KeysOf(a, 0), 0, 0, r)
<1> DEFINE P == Places(a)
           u == KeysOf(a, 0)
           w == 2^Width
<1>1. a \in Seq(Seq(Bits)) /\ w \in Nat \ {0} /\ Bits = 0 .. w - 1
  BY SignIsHalf DEF AreData, Bits
<1>2. IsFiniteSet(P) /\ \A x \in P : AtPlace(a, x) \in Bits
  BY <1>1, PlacesAre
<1>3. \A x \in P : u[x] = SortKey(AtPlace(a, x)) \div w
  BY DEF KeysOf, Width
<1> HIDE DEF w, P, u
<1>4. \A x \in P : u[x] = 0
  <2> SUFFICES ASSUME NEW x \in P PROVE u[x] = 0
    OBVIOUS
  <2> DEFINE k == SortKey(AtPlace(a, x))
  <2>1. k \in 0 .. w - 1
    BY <1>1, <1>2, KeysAre
  <2> HIDE DEF k
  <2>2. (0 * w + k) \div w = 0
    BY <1>1, <2>1, Division
  <2>3. 0 * w + k = k
    BY <1>1, <2>1
  <2> QED
    BY <1>3, <2>2, <2>3 DEF k
<1>5. ValuesBelow(P, u, 0) = {} /\ ValuesAt(P, u, 0) = P
  BY <1>4 DEF ValuesBelow, ValuesAt
<1>6. Cardinality(P) \in Nat /\ r \in 0 .. Cardinality(P) - 1
  BY <1>2, FS_CardinalityType DEF Size, P
<1> QED
  BY <1>5, <1>6, FS_EmptySet DEF Brackets, P, u

(* Each pass keeps the rank among the values with the prefix. *)
LEMMA EachBrackets ==
  ASSUME NEW a, AreData(a), NEW step \in Nat \ {0}, NEW parts, CutInSlabs(parts, a, step),
         NEW r \in 0 .. Size(a) - 1, NEW f, Narrows(f, parts, r, Len(PassBits)),
         NEW p \in 0 .. Len(PassBits)
  PROVE  f[p].prefix \in Nat /\ Brackets(Places(a), KeysOf(a, p), f[p].prefix, f[p].below, r)
<1> DEFINE n == Len(PassBits)
           Good(q) == f[q].prefix \in Nat
                        /\ Brackets(Places(a), KeysOf(a, q), f[q].prefix, f[q].below, r)
           T == {q \in 0 .. n : ~Good(q)}
<1>1. n \in Nat
  BY ShiftsAre
<1>2. /\ f[0] = [prefix |-> 0, below |-> 0]
      /\ \A q \in 1 .. n : f[q] = Narrowed(parts, r, f[q - 1], q)
  BY <1>1, NarrowsStep
<1> SUFFICES ASSUME T # {} PROVE FALSE
  OBVIOUS
<1>3. PICK q \in T : \A l \in T : q <= l
  <2>1. T \subseteq Nat
    BY <1>1
  <2> HIDE DEF T
  <2> QED
    BY <2>1, LeastExists
<1>4. CASE q = 0
  <2>1. f[0].prefix = 0 /\ f[0].below = 0
    BY <1>2
  <2>2. Good(0)
    BY <2>1, FirstBrackets
  <2> QED
    BY <1>3, <1>4, <2>2
<1>5. CASE q # 0
  <2>1. q \in 1 .. n /\ q - 1 \in 0 .. n /\ q - 1 < q
    BY <1>1, <1>3, <1>5
  <2>2. Good(q - 1)
    <3>1. q - 1 \notin T
      BY <1>3, <2>1
    <3> QED
      BY <2>1, <3>1
  <2> DEFINE P == Places(a)
             u == KeysOf(a, q)
             R == 2^PassBits[q]
             g == f[q - 1].prefix
             low == f[q - 1].below
             h == hist(parts, q, g)
             v == KeysOf(a, q - 1)
             d == DigitOfRank(h, r - low)
  <2>3. g \in Nat /\ Brackets(P, v, g, low, r)
    BY <2>2
  <2>4. R \in Nat \ {0} /\ u \in [P -> Nat] /\ v = [x \in P |-> u[x] \div R]
    BY <2>1, KeysNarrow
  <2>5. IsFiniteSet(P) /\ r \in Nat
    <3>1. a \in Seq(Seq(Bits))
      BY DEF AreData, Bits
    <3>2. IsFiniteSet(P)
      BY <3>1, PlacesAre
    <3>3. Cardinality(P) \in Nat /\ Size(a) = Cardinality(P)
      BY <3>2, FS_CardinalityType DEF Size
    <3> QED
      BY <3>2, <3>3
  <2>6. CountsDigits(h, P, u, g, R)
    BY <2>1, <2>3, HistCounts
  <2>7. f[q] = [prefix |-> g * R + d, below |-> low + CountBelow(h, d)]
    <3>1. f[q] = Narrowed(parts, r, f[q - 1], q)
      BY <1>2, <2>1
    <3> QED
      BY <3>1 DEF Narrowed
  <2> HIDE DEF P, u, v, R, g, low, h
  <2>8. /\ d \in 0 .. R - 1
        /\ Brackets(P, u, g * R + d, low + CountBelow(h, d), r)
    BY <2>3, <2>4, <2>5, <2>6, DigitBrackets
  <2> HIDE DEF d
  <2>9. g * R + d \in Nat
    BY <2>3, <2>4, <2>8
  <2>10. f[q].prefix = g * R + d /\ f[q].below = low + CountBelow(h, d)
    BY <2>7
  <2>11. f[q].prefix \in Nat /\ Brackets(P, u, f[q].prefix, f[q].below, r)
    BY <2>8, <2>9, <2>10
  <2>12. Good(q)
    BY <2>11 DEF P, u
  <2> QED
    BY <1>3, <2>12
<1> QED
  BY <1>4, <1>5

(* The value found for a rank has that rank. *)
LEMMA RankFound ==
  ASSUME NEW a, AreData(a), NEW step \in Nat \ {0}, NEW r \in 0 .. Size(a) - 1
  PROVE  IsOfRank(a, ValueOfRank(read_slabs(a, step), r), r)
<1> DEFINE parts == read_slabs(a, step)
           n == Len(PassBits)
           P == Places(a)
           v == ValueOfRank(parts, r)
           u == KeysOf(a, n)
<1>1. a \in Seq(Seq(Bits)) /\ CutInSlabs(parts, a, step)
  <2>1. a \in Seq(Seq(Bits))
    BY DEF AreData, Bits
  <2> DEFINE S == Seq(Bits)
  <2>2. a \in Seq(S)
    BY <2>1
  <2> HIDE DEF S
  <2>3. CutInSlabs(read_slabs(a, step), a, step)
    BY <2>2, SlabsCut
  <2> QED
    BY <2>1, <2>3
<1> HIDE DEF parts
<1>2. PICK f : Narrows(f, parts, r, n) /\ v = _key_value(f[n].prefix)
  BY ValueFound
<1> DEFINE k == f[n].prefix
           low == f[n].below
<1>3. k \in Nat /\ Brackets(P, u, k, low, r)
  <2>1. n \in 0 .. n
    BY ShiftsAre
  <2> QED
    BY <1>1, <1>2, <2>1, EachBrackets
<1>4. /\ IsFiniteSet(P)
      /\ \A x \in P : AtPlace(a, x) \in Bits /\ u[x] = SortKey(AtPlace(a, x))
  <2>1. IsFiniteSet(P) /\ \A x \in P : AtPlace(a, x) \in Bits
    BY <1>1, PlacesAre
  <2>2. 2^0 = 1 /\ Shift(n) = 0
    BY ShiftsAre
  <2>3. \A b \in Bits : b \div 1 = b
    BY SignIsHalf DEF Bits
  <2>4. \A x \in P : u[x] = SortKey(AtPlace(a, x)) \div 1
    BY <2>2 DEF KeysOf
  <2> QED
    BY <2>1, <2>3, <2>4, KeysAre
<1>5. v = _key_value(k)
  BY <1>2
<1> HIDE DEF P, u, k, low, v, n
<1> DEFINE A == ValuesBelow(P, u, k)
           B == ValuesAt(P, u, k)
           U == A \cup B
           Less == {x \in P : Number(AtPlace(a, x)) < Number(v)}
           Most == {x \in P : Number(AtPlace(a, x)) <= Number(v)}
<1>6. low = Cardinality(A) /\ low <= r /\ r < low + Cardinality(B)
  BY <1>3 DEF Brackets
<1>7. A \in SUBSET P /\ B \in SUBSET P /\ A \cap B = {}
  <2>1. \A x \in P : ~(u[x] < k /\ u[x] = k)
    BY <1>3
  <2> QED
    BY <2>1 DEF ValuesBelow, ValuesAt
<1>8. k \in Bits /\ v \in Bits /\ SortKey(v) = k
  <2>1. B # {}
    <3> SUFFICES ASSUME B = {} PROVE FALSE
      OBVIOUS
    <3>1. Cardinality(B) = 0
      BY FS_EmptySet
    <3>2. IsFiniteSet(A)
      BY <1>4, <1>7, FS_Subset
    <3>3. Cardinality(A) \in Nat
      BY <3>2, FS_CardinalityType
    <3> HIDE DEF A, B
    <3> QED
      BY <1>6, <3>1, <3>3
  <2>2. PICK x \in P : u[x] = k
    BY <2>1 DEF ValuesAt
  <2>3. k \in Bits
    BY <1>4, <2>2, KeysAre
  <2> QED
    BY <1>5, <2>3, KeysAre
<1>9. Less \in SUBSET A /\ U \in SUBSET Most
  <2>1. \A x \in P : Number(AtPlace(a, x)) < Number(v) => u[x] < k
    BY <1>4, <1>8, KeysAre
  <2>2. ASSUME NEW x \in P, u[x] < k \/ u[x] = k
        PROVE  Number(AtPlace(a, x)) <= Number(v)
    <3> DEFINE y == AtPlace(a, x)
    <3>1. y \in Bits /\ SortKey(y) = u[x] /\ SortKey(y) \in Bits
      BY <1>4, KeysAre
    <3>2. Number(y) \in Int /\ Number(v) \in Int /\ SortKey(y) \in Int /\ k \in Int
      BY <1>8, <3>1, SignIsHalf DEF Number, Bits
    <3>3. ~(Number(v) < Number(y))
      <4> SUFFICES ASSUME Number(v) < Number(y) PROVE FALSE
        OBVIOUS
      <4>1. SortKey(v) < SortKey(y)
        BY <1>8, <3>1, KeysAre
      <4> HIDE DEF y
      <4> QED
        BY <1>8, <2>2, <3>1, <3>2, <4>1
    <3> HIDE DEF y
    <3>4. Number(y) <= Number(v)
      BY <3>2, <3>3
    <3> QED
      BY <3>4 DEF y
  <2> QED
    BY <2>1, <2>2 DEF ValuesBelow, ValuesAt
<1>10. Most \in SUBSET P /\ U \in SUBSET P
  BY <1>7
<1>11. Smaller(a, v) = Cardinality(Less) /\ NotLarger(a, v) = Cardinality(Most)
  BY DEF Smaller, NotLarger, P
<1> HIDE DEF A, B, Less, Most
<1>12. /\ Cardinality(U) = Cardinality(A) + Cardinality(B)
       /\ Cardinality(A) \in Nat /\ Cardinality(B) \in Nat
  <2> HIDE DEF U
  <2>1. U = A \cup B
    BY DEF U
  <2>2. A \in SUBSET P /\ B \in SUBSET P /\ A \cap B = {} /\ IsFiniteSet(P)
    BY <1>4, <1>7, Zenon
  <2>3. Cardinality(U) = Cardinality(A) + Cardinality(B)
    BY <2>1, <2>2, PartsAdd
  <2>4. Cardinality(A) \in Nat
    BY <2>2, PartsAdd
  <2>5. Cardinality(B) \in Nat
    BY <2>2, PartsAdd
  <2> QED
    BY <2>3, <2>4, <2>5
<1> HIDE DEF U
<1>13. Cardinality(Less) <= Cardinality(A) /\ Cardinality(Less) \in Nat
  <2>1. IsFiniteSet(A)
    BY <1>4, <1>7, FS_Subset
  <2>2. IsFiniteSet(Less) /\ Cardinality(Less) <= Cardinality(A)
    BY <1>9, <2>1, FS_Subset
  <2> QED
    BY <2>2, FS_CardinalityType
<1>14. Cardinality(U) <= Cardinality(Most) /\ Cardinality(Most) \in Nat
  <2>1. IsFiniteSet(Most)
    BY <1>4, <1>10, FS_Subset
  <2>2. Cardinality(U) <= Cardinality(Most)
    BY <1>9, <2>1, FS_Subset
  <2> QED
    BY <2>1, <2>2, FS_CardinalityType
<1>15. Smaller(a, v) <= r /\ r < NotLarger(a, v)
  <2>1. r \in Int
    OBVIOUS
  <2> QED
    BY <1>6, <1>11, <1>12, <1>13, <1>14, <2>1
<1> QED
  BY <1>15 DEF IsOfRank, v, parts

(* The two ranks of a quantile are ranks. *)
LEMMA RanksAre ==
  ASSUME NEW n \in Nat \ {0}, NEW q \in Nat \X (Nat \ {0}), q[1] <= q[2]
  PROVE  Lower(q, n) \in 0 .. n - 1 /\ Upper(q, n) \in 0 .. n - 1
<1> DEFINE x == q[1] * (n - 1)
           d == q[2]
           l == x \div d
           m == n - 1
<1>1. q[1] \in Nat /\ d \in Nat \ {0} /\ q[1] <= d /\ m \in Nat /\ n = m + 1
  OBVIOUS
<1>2. x \in Nat /\ x <= d * m
  <2>1. q[1] * m <= d * m
    BY <1>1, ProductGrows
  <2> QED
    BY <1>1, <2>1
<1>3. Lower(q, n) = l /\ Upper(q, n) = Min({l + 1, n - 1})
  BY DEF Lower, Upper
<1> HIDE DEF x, d
<1>4. l \in Nat /\ x % d \in 0 .. d - 1 /\ x = l * d + (x % d)
  BY <1>1, <1>2, DivisionOf
<1>5. l <= m
  <2> DEFINE k == m + 1
  <2>1. d * m < k * d
    BY <1>1
  <2>2. k \in Nat /\ x < k * d
    <3> HIDE DEF m, k
    <3>1. d * m \in Int /\ k * d \in Int
      BY <1>1 DEF k
    <3> QED
      BY <1>1, <1>2, <2>1, <3>1 DEF k
  <2> HIDE DEF k
  <2>3. l < k
    BY <1>1, <1>2, <2>2, DivisionOrder
  <2> QED
    BY <1>1, <1>4, <2>3 DEF k
<1> HIDE DEF l
<1>6. Min({l + 1, n - 1}) \in {l + 1, n - 1} /\ Min({l + 1, n - 1}) <= n - 1
  <2> DEFINE e == l + 1
  <2>1. e \in Int /\ m \in Int
    BY <1>1, <1>4
  <2> HIDE DEF e, m
  <2>2. Min({e, m}) \in {e, m} /\ Min({e, m}) <= m
    BY <2>1, LesserOfTwo
  <2> QED
    BY <2>2 DEF e, m
<1> QED
  BY <1>1, <1>3, <1>4, <1>5, <1>6

(* Quantiles are order statistics of any data, for any slabs. *)
LEMMA QuantilesOrdered ==
  ASSUME NEW a, AreData(a), NEW qs, AreFractions(qs), NEW step \in Nat \ {0}
  PROVE  OrderStatistics(a, qs, step)
<1> DEFINE n == Size(a)
           parts == read_slabs(a, step)
           value == [r \in ranks(qs, n) |-> ValueOfRank(parts, r)]
           found == quantiles(a, qs, step)
<1>1. n \in Nat \ {0}
  <2>1. a \in Seq(Seq(Bits)) /\ Places(a) # {}
    BY DEF AreData, Bits
  <2> DEFINE P == Places(a)
  <2>2. IsFiniteSet(P) /\ P # {}
    BY <2>1, PlacesAre
  <2> HIDE DEF P
  <2>3. Cardinality(P) \in Nat /\ Cardinality(P) # 0
    BY <2>2, FS_CardinalityType, FS_EmptySet
  <2> QED
    BY <2>3 DEF P, Size
<1>2. found = [q \in qs |-> <<value[Lower(q, n)], value[Upper(q, n)]>>]
  BY DEF quantiles
<1> HIDE DEF found, n
<1>3. ASSUME NEW q \in qs
      PROVE  IsOfRank(a, found[q][1], Lower(q, n)) /\ IsOfRank(a, found[q][2], Upper(q, n))
  <2>1. q \in Nat \X (Nat \ {0}) /\ q[1] <= q[2]
    BY DEF AreFractions
  <2>2. Lower(q, n) \in 0 .. n - 1 /\ Upper(q, n) \in 0 .. n - 1
    BY <1>1, <2>1, RanksAre
  <2>3. Lower(q, n) \in ranks(qs, n) /\ Upper(q, n) \in ranks(qs, n)
    BY DEF ranks
  <2>4. found[q][1] = ValueOfRank(parts, Lower(q, n)) /\ found[q][2] = ValueOfRank(parts, Upper(q, n))
    BY <1>2, <2>3
  <2>5. \A r \in 0 .. n - 1 : IsOfRank(a, ValueOfRank(parts, r), r)
    BY RankFound DEF n
  <2> HIDE DEF parts
  <2> QED
    BY <2>2, <2>4, <2>5
<1> QED
  BY <1>3 DEF OrderStatistics, found, n

(* A threshold is interpolated between the two values that its place among *)
(* all values lies between: for every array, slab length, set of quantiles *)
(* and split of the key's bits into passes, the passes over the slabs find *)
(* the values that sorting the whole array would.                          *)
THEOREM QuantilesAlwaysExact == AlgorithmsSpec => []QuantilesExact
<1>1. GivenInput => QuantilesExact
  <2> SUFFICES ASSUME GivenInput, Is("quantiles")
               PROVE  OrderStatistics(input.a, input.qs, input.step)
    BY DEF QuantilesExact
  <2>1. AreData(input.a) /\ AreFractions(input.qs) /\ input.step \in Nat \ {0}
    BY QuantilesAssumption DEF GivenInput, Is
  <2> QED
    BY <2>1, QuantilesOrdered
<1> QED
  BY <1>1, InputsAreGiven, PTL

(* The steps of an array. *)
LEMMA StepsAre ==
  ASSUME NEW a, AreSteps(a)
  PROVE  /\ a \in Seq(Seq(Int)) /\ Len(a) \in Nat \ {0} /\ Len(a[1]) \in Nat \ {0}
         /\ \A t \in 1 .. Len(a) : a[t] \in Seq(Int) /\ Len(a[t]) = Len(a[1])
         /\ Places(a) = (1 .. Len(a)) \X (1 .. Len(a[1]))
<1>1. a \in Seq(Seq(Int)) /\ Places(a) # {}
  BY DEF AreSteps
<1>2. DOMAIN a = 1 .. Len(a) /\ Len(a) \in Nat /\ \A t \in 1 .. Len(a) : a[t] \in Seq(Int)
  BY <1>1
<1>3. \A t \in 1 .. Len(a) : Len(a[t]) = Len(a[1])
  BY <1>2 DEF AreSteps
<1>4. \A t \in 1 .. Len(a) : DOMAIN a[t] = 1 .. Len(a[1])
  BY <1>2, <1>3
<1>5. Places(a) = (1 .. Len(a)) \X (1 .. Len(a[1]))
  <2> DEFINE m == Len(a[1])
  <2>1. Places(a) = UNION {{t} \X (1 .. m) : t \in 1 .. Len(a)}
    <3>1. {{t} \X DOMAIN a[t] : t \in 1 .. Len(a)} = {{t} \X (1 .. m) : t \in 1 .. Len(a)}
      BY <1>4
    <3> QED
      BY <1>2, <3>1 DEF Places
  <2> HIDE DEF m
  <2>2. UNION {{t} \X (1 .. m) : t \in 1 .. Len(a)} = (1 .. Len(a)) \X (1 .. m)
    OBVIOUS
  <2> QED
    BY <2>1, <2>2 DEF m
<1>6. PICK p \in (1 .. Len(a)) \X (1 .. Len(a[1])) : TRUE
  BY <1>1, <1>5
<1>7. p[1] \in 1 .. Len(a) /\ p[2] \in 1 .. Len(a[1])
  BY <1>6
<1>8. 1 \in 1 .. Len(a)
  BY <1>2, <1>7
<1>9. Len(a[1]) \in Nat
  BY <1>2, <1>8
<1> QED
  BY <1>1, <1>2, <1>3, <1>5, <1>7, <1>9

(* A length that is cut evenly: the parts and what lies in them. *)
EvenlyCut(n, d, g) ==
  /\ g \in Nat /\ n = g * d
  /\ \A k \in 0 .. g - 1, r \in 1 .. d :
       /\ k * d + r \in 1 .. n
       /\ ((k * d + r) - 1) \div d = k /\ ((k * d + r) - 1) % d = r - 1
  /\ \A t \in 1 .. n : /\ (t - 1) \div d \in 0 .. g - 1 /\ ((t - 1) % d) + 1 \in 1 .. d
                       /\ t = ((t - 1) \div d) * d + (((t - 1) % d) + 1)
LEMMA EvenParts ==
  ASSUME NEW d \in Nat \ {0}, NEW n \in Nat, n % d = 0, NEW g, g = n \div d
  PROVE  EvenlyCut(n, d, g)
<1>1. g \in Nat /\ n = g * d
  BY DivisionOf
<1>2. ASSUME NEW k \in 0 .. g - 1, NEW r \in 1 .. d
      PROVE  /\ k * d + r \in 1 .. n
             /\ ((k * d + r) - 1) \div d = k /\ ((k * d + r) - 1) % d = r - 1
  <2> DEFINE p == k * d
             l == k + 1
             u == l * d
  <2>1. p \in Nat /\ k \in Nat /\ l \in Int /\ l <= g /\ u = p + d
    BY <1>1
  <2>2. u <= n
    <3>1. l * d <= g * d
      <4> HIDE DEF l
      <4> QED
        BY <1>1, <2>1, ProductGrows
    <3> QED
      BY <1>1, <3>1
  <2> DEFINE q == r - 1
  <2>3. q \in 0 .. d - 1 /\ p + r - 1 = p + q /\ u \in Int
    BY <2>1
  <2>4. (p + q) \div d = k /\ (p + q) % d = q
    <3> HIDE DEF q
    <3> QED
      BY <2>1, <2>3, Division
  <2> HIDE DEF p, u
  <2>5. p + r \in 1 .. n
    BY <2>1, <2>2, <2>3
  <2> QED
    BY <2>3, <2>4, <2>5 DEF p
<1>3. ASSUME NEW t \in 1 .. n
      PROVE  /\ (t - 1) \div d \in 0 .. g - 1 /\ ((t - 1) % d) + 1 \in 1 .. d
             /\ t = ((t - 1) \div d) * d + (((t - 1) % d) + 1)
  <2> DEFINE s == t - 1
             k == s \div d
             r == s % d
             p == k * d
  <2>1. s \in Nat /\ s < n
    OBVIOUS
  <2>2. k \in Nat /\ r \in 0 .. d - 1 /\ s = p + r
    <3> HIDE DEF s
    <3> QED
      BY <2>1, DivisionOf
  <2>3. t = p + (r + 1) /\ r + 1 \in 1 .. d
    <3>1. p \in Nat /\ r \in Nat /\ r <= d - 1
      BY <2>2
    <3> HIDE DEF p, k, r
    <3> QED
      BY <2>2, <3>1 DEF s
  <2>4. k < g
    <3> SUFFICES ASSUME g <= k PROVE FALSE
      BY <1>1, <2>2
    <3>1. g * d <= p
      <4> HIDE DEF k
      <4> QED
        BY <1>1, <2>2, ProductGrows
    <3>2. p <= s
      <4>1. p \in Nat /\ r \in Nat
        BY <2>2
      <4> HIDE DEF p, k, r, s
      <4> QED
        BY <2>2, <4>1
    <3>3. p \in Nat
      BY <2>2
    <3> HIDE DEF p, k, r
    <3> QED
      BY <1>1, <2>1, <3>1, <3>2, <3>3
  <2> HIDE DEF k, r
  <2> QED
    BY <1>1, <2>2, <2>3, <2>4 DEF k, r, s
<1> QED
  BY <1>1, <1>2, <1>3 DEF EvenlyCut

-----------------------------------------------------------------------------
(* Chunks of an array *)

(* A chunk is an array of its shape, of values of the array. *)
IsChunk(x, a, chunk, c) ==
  /\ AreSteps(x) /\ Len(x) = chunk[1] /\ Len(x[1]) = chunk[2]
  /\ Places(x) = (1 .. chunk[1]) \X (1 .. chunk[2])
  /\ \A p \in Places(x) :
       /\ p[1] \in 1 .. chunk[1] /\ p[2] \in 1 .. chunk[2]
       /\ <<c[1] * chunk[1] + p[1], c[2] * chunk[2] + p[2]>> \in Places(a)
       /\ AtPlace(x, p) = AtPlace(a, <<c[1] * chunk[1] + p[1], c[2] * chunk[2] + p[2]>>)
Cuts(a, chunk) == AreSteps(a) /\ IsCut(Len(a), Len(a[1]), chunk)
LEMMA ChunkIs ==
  ASSUME NEW a, NEW chunk, Cuts(a, chunk), NEW c \in Grid(a, chunk)
  PROVE  IsChunk(Chunk(a, chunk, c), a, chunk, c)
<1> DEFINE n == Len(a)
           m == Len(a[1])
           d == chunk[1]
           e == chunk[2]
           g == n \div d
           h == m \div e
           x == Chunk(a, chunk, c)
<1>1. /\ n \in Nat /\ m \in Nat /\ Places(a) = (1 .. n) \X (1 .. m)
      /\ \A t \in 1 .. n : a[t] \in Seq(Int) /\ Len(a[t]) = m
  BY StepsAre DEF Cuts
<1>2. d \in Nat \ {0} /\ e \in Nat \ {0} /\ n % d = 0 /\ m % e = 0
  BY DEF Cuts, IsCut
<1>3. c[1] \in 0 .. g - 1 /\ c[2] \in 0 .. h - 1
  BY DEF Grid
<1>4. x = [t \in 1 .. d |-> [i \in 1 .. e |-> a[c[1] * d + t][c[2] * e + i]]]
  BY DEF Chunk
<1> HIDE DEF n, m, d, e, g, h, x
<1>5. \A r \in 1 .. d : c[1] * d + r \in 1 .. n
  <2>1. EvenlyCut(n, d, g)
    BY <1>1, <1>2, EvenParts DEF g
  <2> QED
    BY <1>3, <2>1 DEF EvenlyCut
<1>6. \A r \in 1 .. e : c[2] * e + r \in 1 .. m
  <2>1. EvenlyCut(m, e, h)
    BY <1>1, <1>2, EvenParts DEF h
  <2> QED
    BY <1>3, <2>1 DEF EvenlyCut
<1>7. \A t \in 1 .. d, i \in 1 .. e : a[c[1] * d + t][c[2] * e + i] \in Int
  BY <1>1, <1>5, <1>6
<1>8. x \in Seq(Seq(Int)) /\ Len(x) = d /\ \A t \in 1 .. d : x[t] \in Seq(Int) /\ Len(x[t]) = e
  <2>1. ASSUME NEW t \in 1 .. d PROVE x[t] \in Seq(Int) /\ Len(x[t]) = e
    <3>1. x[t] = [i \in 1 .. e |-> a[c[1] * d + t][c[2] * e + i]]
      BY <1>4
    <3>2. [i \in 1 .. e |-> a[c[1] * d + t][c[2] * e + i]] \in [1 .. e -> Int]
      BY <1>7
    <3> QED
      BY <1>2, <3>1, <3>2
  <2>2. x \in [1 .. d -> Seq(Int)]
    BY <1>4, <2>1
  <2> QED
    BY <1>2, <2>1, <2>2
<1>9. DOMAIN x = 1 .. d /\ \A t \in 1 .. d : DOMAIN x[t] = 1 .. e
  BY <1>4
<1>10. Places(x) = (1 .. d) \X (1 .. e)
  <2>1. Places(x) = UNION {{t} \X (1 .. e) : t \in 1 .. d}
    <3>1. {{t} \X DOMAIN x[t] : t \in 1 .. d} = {{t} \X (1 .. e) : t \in 1 .. d}
      BY <1>9
    <3> QED
      BY <1>9, <3>1 DEF Places
  <2>2. UNION {{t} \X (1 .. e) : t \in 1 .. d} = (1 .. d) \X (1 .. e)
    OBVIOUS
  <2> QED
    BY <2>1, <2>2
<1>11. AreSteps(x) /\ Len(x[1]) = e
  <2>1. 1 \in 1 .. d /\ <<1, 1>> \in (1 .. d) \X (1 .. e)
    BY <1>2
  <2>2. \A t \in DOMAIN x : Len(x[t]) = Len(x[1])
    BY <1>8, <1>9, <2>1
  <2> QED
    BY <1>8, <1>10, <2>1, <2>2 DEF AreSteps
<1>12. ASSUME NEW p \in Places(x)
       PROVE  /\ p[1] \in 1 .. d /\ p[2] \in 1 .. e
              /\ <<c[1] * d + p[1], c[2] * e + p[2]>> \in Places(a)
              /\ AtPlace(x, p) = AtPlace(a, <<c[1] * d + p[1], c[2] * e + p[2]>>)
  <2>1. p[1] \in 1 .. d /\ p[2] \in 1 .. e
    BY <1>10
  <2>2. c[1] * d + p[1] \in 1 .. n /\ c[2] * e + p[2] \in 1 .. m
    BY <1>5, <1>6, <2>1
  <2>3. AtPlace(x, p) = a[c[1] * d + p[1]][c[2] * e + p[2]]
    BY <1>4, <2>1 DEF AtPlace
  <2>4. AtPlace(a, <<c[1] * d + p[1], c[2] * e + p[2]>>) = a[c[1] * d + p[1]][c[2] * e + p[2]]
    BY DEF AtPlace
  <2> QED
    BY <1>1, <2>1, <2>2, <2>3, <2>4
<1> QED
  BY <1>8, <1>10, <1>11, <1>12 DEF IsChunk, d, e, x

(* Values above a threshold. *)
PlacesAbove(a, th) == {p \in Places(a) : AtPlace(a, p) > th}
ChunkOf(chunk, p) == <<(p[1] - 1) \div chunk[1], (p[2] - 1) \div chunk[2]>>

(* The values above the threshold of a chunk are those of the array in it. *)
LEMMA AboveInChunk ==
  ASSUME NEW a, NEW chunk, Cuts(a, chunk), NEW c \in Grid(a, chunk), NEW th \in Int,
         NEW group, group = [p \in PlacesAbove(a, th) |-> ChunkOf(chunk, p)]
  PROVE  \E f : f \in Bijection(PlacesAbove(Chunk(a, chunk, c), th),
                               Group(group, PlacesAbove(a, th), c))
<1> DEFINE n == Len(a)
           m == Len(a[1])
           d == chunk[1]
           e == chunk[2]
           g == n \div d
           k == m \div e
           x == Chunk(a, chunk, c)
           S == PlacesAbove(x, th)
           T == Group(group, PlacesAbove(a, th), c)
           f == [p \in S |-> <<c[1] * d + p[1], c[2] * e + p[2]>>]
<1>1. n \in Nat /\ m \in Nat /\ Places(a) = (1 .. n) \X (1 .. m)
  BY StepsAre DEF Cuts
<1>2. d \in Nat \ {0} /\ e \in Nat \ {0} /\ n % d = 0 /\ m % e = 0
  BY DEF Cuts, IsCut
<1>3. c \in (0 .. g - 1) \X (0 .. k - 1) /\ c[1] \in 0 .. g - 1 /\ c[2] \in 0 .. k - 1
  BY DEF Grid
<1>4. /\ Places(x) = (1 .. d) \X (1 .. e)
      /\ \A p \in Places(x) :
           /\ <<c[1] * d + p[1], c[2] * e + p[2]>> \in Places(a)
           /\ AtPlace(x, p) = AtPlace(a, <<c[1] * d + p[1], c[2] * e + p[2]>>)
  <2>1. IsChunk(x, a, chunk, c)
    BY ChunkIs
  <2> HIDE DEF x
  <2> QED
    BY <2>1 DEF IsChunk
<1>5. T = {p \in PlacesAbove(a, th) : ChunkOf(chunk, p) = c}
  BY DEF Group
<1>6. ASSUME NEW p \in PlacesAbove(a, th) PROVE ChunkOf(chunk, p) = <<(p[1] - 1) \div d, (p[2] - 1) \div e>>
  BY DEF ChunkOf
<1> HIDE DEF n, m, d, e, g, k, x, T
<1>7. EvenlyCut(n, d, g)
  BY <1>1, <1>2, EvenParts DEF g
<1>8. EvenlyCut(m, e, k)
  BY <1>1, <1>2, EvenParts DEF k
<1>9. ASSUME NEW p \in S
      PROVE  /\ p = <<p[1], p[2]>> /\ p[1] \in 1 .. d /\ p[2] \in 1 .. e
             /\ f[p] = <<c[1] * d + p[1], c[2] * e + p[2]>> /\ f[p] \in T
  <2>1. p \in Places(x) /\ AtPlace(x, p) > th
    BY DEF PlacesAbove
  <2>2. p = <<p[1], p[2]>> /\ p[1] \in 1 .. d /\ p[2] \in 1 .. e
    BY <1>4, <2>1
  <2> DEFINE q == <<c[1] * d + p[1], c[2] * e + p[2]>>
  <2>3. f[p] = q /\ q[1] = c[1] * d + p[1] /\ q[2] = c[2] * e + p[2]
    OBVIOUS
  <2>4. q \in Places(a) /\ AtPlace(a, q) = AtPlace(x, p)
    BY <1>4, <2>1
  <2> HIDE DEF q
  <2>5. q \in PlacesAbove(a, th)
    BY <2>1, <2>4 DEF PlacesAbove
  <2>6. (q[1] - 1) \div d = c[1] /\ (q[2] - 1) \div e = c[2]
    <3>1. ((c[1] * d + p[1]) - 1) \div d = c[1] /\ ((c[2] * e + p[2]) - 1) \div e = c[2]
      BY <1>3, <1>7, <1>8, <2>2 DEF EvenlyCut
    <3> DEFINE u == c[1] * d + p[1]
               v == c[2] * e + p[2]
    <3>2. q[1] = u /\ q[2] = v
      BY <2>3
    <3>3. (u - 1) \div d = c[1] /\ (v - 1) \div e = c[2]
      BY <3>1
    <3> HIDE DEF u, v
    <3> QED
      BY <3>2, <3>3
  <2>7. c = <<c[1], c[2]>>
    BY <1>3
  <2>8. ChunkOf(chunk, q) = c
    BY <1>6, <2>5, <2>6, <2>7
  <2> QED
    BY <1>5, <2>2, <2>3, <2>5, <2>8 DEF q
<1>10. ASSUME NEW p \in S, NEW q \in S, f[p] = f[q] PROVE p = q
  <2>1. c[1] * d + p[1] = c[1] * d + q[1] /\ c[2] * e + p[2] = c[2] * e + q[2]
    BY <1>9, <1>10
  <2>2. c[1] * d \in Int /\ c[2] * e \in Int
    BY <1>2, <1>3, <1>7, <1>8 DEF EvenlyCut
  <2>3. p[1] = q[1] /\ p[2] = q[2]
    <3> DEFINE u == c[1] * d
               v == c[2] * e
    <3>1. u \in Int /\ v \in Int /\ u + p[1] = u + q[1] /\ v + p[2] = v + q[2]
      BY <2>1, <2>2
    <3> HIDE DEF u, v
    <3>2. p[1] \in Int /\ q[1] \in Int /\ p[2] \in Int /\ q[2] \in Int
      <4>1. p[1] \in 1 .. d /\ q[1] \in 1 .. d /\ p[2] \in 1 .. e /\ q[2] \in 1 .. e
        BY <1>9
      <4> QED
        BY <4>1
    <3>3. \A i, j, w \in Int : w + i = w + j => i = j
      OBVIOUS
    <3> QED
      BY <3>1, <3>2, <3>3, Zenon
  <2> QED
    BY <1>9, <2>3, Zenon
<1>11. ASSUME NEW q \in T PROVE \E p \in S : f[p] = q
  <2>1. q \in Places(a) /\ AtPlace(a, q) > th /\ ChunkOf(chunk, q) = c
    BY <1>5 DEF PlacesAbove
  <2>2. q \in PlacesAbove(a, th)
    BY <1>5
  <2>3. q = <<q[1], q[2]>> /\ q[1] \in 1 .. n /\ q[2] \in 1 .. m
    BY <1>1, <2>1
  <2>4. c[1] = (q[1] - 1) \div d /\ c[2] = (q[2] - 1) \div e
    BY <1>6, <2>1, <2>2
  <2> DEFINE r == ((q[1] - 1) % d) + 1
             s == ((q[2] - 1) % e) + 1
             p == <<r, s>>
  <2>5. r \in 1 .. d /\ s \in 1 .. e /\ q[1] = c[1] * d + r /\ q[2] = c[2] * e + s
    BY <1>7, <1>8, <2>3, <2>4 DEF EvenlyCut
  <2> HIDE DEF r, s
  <2>6. p[1] = r /\ p[2] = s /\ p \in Places(x)
    BY <1>4, <2>5
  <2> HIDE DEF p
  <2>7. <<c[1] * d + p[1], c[2] * e + p[2]>> = q
    BY <2>3, <2>5, <2>6
  <2>8. AtPlace(x, p) = AtPlace(a, q)
    BY <1>4, <2>6, <2>7
  <2>9. p \in S
    BY <2>1, <2>6, <2>8 DEF PlacesAbove
  <2> QED
    BY <2>7, <2>9
<1>12. f \in Bijection(S, T)
  <2>1. \A p \in S : f[p] \in T
    BY <1>9
  <2>2. f \in [S -> T]
    BY <2>1
  <2> HIDE DEF f, S
  <2> QED
    BY <1>10, <1>11, <2>2 DEF Bijection, Injection, Surjection, IsInjective
<1> QED
  BY <1>12 DEF x, T

(* Every value of the array is in one chunk. *)
LEMMA AboveByChunks ==
  ASSUME NEW a, NEW chunk, Cuts(a, chunk), NEW th \in Int,
         NEW F, \A c \in Grid(a, chunk) : F[c] = Above(Chunk(a, chunk, c), th)
  PROVE  IsFiniteSet(Grid(a, chunk)) /\ SumOf(F, Grid(a, chunk)) = Above(a, th)
<1> DEFINE n == Len(a)
           m == Len(a[1])
           d == chunk[1]
           e == chunk[2]
           g == n \div d
           k == m \div e
           G == Grid(a, chunk)
           S == PlacesAbove(a, th)
           group == [p \in S |-> ChunkOf(chunk, p)]
<1>1. n \in Nat /\ m \in Nat /\ Places(a) = (1 .. n) \X (1 .. m) /\ a \in Seq(Seq(Int))
  BY StepsAre DEF Cuts
<1>2. d \in Nat \ {0} /\ e \in Nat \ {0} /\ n % d = 0 /\ m % e = 0
  BY DEF Cuts, IsCut
<1>3. G = (0 .. g - 1) \X (0 .. k - 1)
  BY DEF Grid
<1>4. \A p \in S : ChunkOf(chunk, p) = <<(p[1] - 1) \div d, (p[2] - 1) \div e>>
  BY DEF ChunkOf
<1> HIDE DEF n, m, d, e, g, k, G
<1>5. EvenlyCut(n, d, g) /\ EvenlyCut(m, e, k)
  BY <1>1, <1>2, EvenParts DEF g, k
<1>6. IsFiniteSet(G)
  <2>1. g - 1 \in Int /\ k - 1 \in Int
    BY <1>5 DEF EvenlyCut
  <2>2. IsFiniteSet(0 .. g - 1) /\ IsFiniteSet(0 .. k - 1)
    BY <2>1, FS_Interval
  <2> QED
    BY <1>3, <2>2, FS_Product
<1>7. IsFiniteSet(S)
  <2>1. IsFiniteSet(Places(a)) /\ S \in SUBSET Places(a)
    BY <1>1, PlacesAre DEF PlacesAbove
  <2> QED
    BY <2>1, FS_Subset
<1>8. \A p \in S : ChunkOf(chunk, p) \in G
  <2> SUFFICES ASSUME NEW p \in S PROVE ChunkOf(chunk, p) \in G
    OBVIOUS
  <2>1. p[1] \in 1 .. n /\ p[2] \in 1 .. m
    BY <1>1 DEF PlacesAbove
  <2>2. (p[1] - 1) \div d \in 0 .. g - 1 /\ (p[2] - 1) \div e \in 0 .. k - 1
    BY <1>5, <2>1 DEF EvenlyCut
  <2> QED
    BY <1>3, <1>4, <2>2
<1>9. group \in [S -> G]
  BY <1>8
<1>10. ASSUME NEW c \in G PROVE F[c] = Cardinality(Group(group, S, c))
  <2> DEFINE T == PlacesAbove(Chunk(a, chunk, c), th)
  <2>1. PICK f : f \in Bijection(T, Group(group, S, c))
    BY AboveInChunk DEF G
  <2>2. IsFiniteSet(T)
    <3> DEFINE x == Chunk(a, chunk, c)
    <3>1. x \in Seq(Seq(Int))
      BY ChunkIs DEF IsChunk, AreSteps, G
    <3> HIDE DEF x
    <3>2. IsFiniteSet(Places(x)) /\ PlacesAbove(x, th) \in SUBSET Places(x)
      BY <3>1, PlacesAre DEF PlacesAbove
    <3>3. IsFiniteSet(PlacesAbove(x, th))
      BY <3>2, FS_Subset
    <3> QED
      BY <3>3 DEF x
  <2>3. Cardinality(Group(group, S, c)) = Cardinality(T)
    <3> HIDE DEF T, group, S
    <3> QED
      BY <2>1, <2>2, AsMany
  <2>4. F[c] = Cardinality(T)
    BY DEF G, Above, PlacesAbove
  <2> QED
    BY <2>3, <2>4
<1>11. SumOf(F, G) = Cardinality(S)
  <2> HIDE DEF group, S
  <2> QED
    BY <1>6, <1>7, <1>9, <1>10, CountByGroups
<1> QED
  BY <1>6, <1>11 DEF G, Above, PlacesAbove

(* The number of values of an array. *)
LEMMA SizeIs ==
  ASSUME NEW x, AreSteps(x)
  PROVE  IsFiniteSet(Places(x)) /\ Cardinality(Places(x)) = Len(x) * Len(x[1])
<1> DEFINE n == Len(x)
           m == Len(x[1])
<1>1. n \in Nat /\ m \in Nat /\ Places(x) = (1 .. n) \X (1 .. m)
  BY StepsAre
<1> HIDE DEF n, m
<1>2. 1 \in Int /\ n \in Int /\ m \in Int
  BY <1>1
<1>3. /\ IsFiniteSet(1 .. n) /\ Cardinality(1 .. n) = IF 1 > n THEN 0 ELSE n - 1 + 1
      /\ IsFiniteSet(1 .. m) /\ Cardinality(1 .. m) = IF 1 > m THEN 0 ELSE m - 1 + 1
  BY <1>2, FS_Interval
<1>4. IsFiniteSet((1 .. n) \X (1 .. m))
      /\ Cardinality((1 .. n) \X (1 .. m)) = Cardinality(1 .. n) * Cardinality(1 .. m)
  BY <1>3, FS_Product
<1>5. Cardinality(1 .. n) = n /\ Cardinality(1 .. m) = m
  BY <1>1, <1>3
<1> QED
  BY <1>1, <1>4, <1>5 DEF n, m

(* All values count, or none, when all are, or none is, above the threshold. *)
LEMMA AboveAllOrNone ==
  ASSUME NEW x, AreSteps(x), NEW th \in Int
  PROVE  /\ Above(x, th) \in Nat
         /\ (\A p \in Places(x) : AtPlace(x, p) > th) => Above(x, th) = Len(x) * Len(x[1])
         /\ (\A p \in Places(x) : ~(AtPlace(x, p) > th)) => Above(x, th) = 0
<1>1. IsFiniteSet(Places(x)) /\ Cardinality(Places(x)) = Len(x) * Len(x[1])
  BY SizeIs
<1>2. PlacesAbove(x, th) \in SUBSET Places(x) /\ Above(x, th) = Cardinality(PlacesAbove(x, th))
  BY DEF PlacesAbove, Above
<1>3. Above(x, th) \in Nat
  BY <1>1, <1>2, FS_Subset, FS_CardinalityType
<1>4. ASSUME \A p \in Places(x) : AtPlace(x, p) > th PROVE Above(x, th) = Len(x) * Len(x[1])
  <2>1. PlacesAbove(x, th) = Places(x)
    BY <1>4 DEF PlacesAbove
  <2> QED
    BY <1>1, <1>2, <2>1
<1>5. ASSUME \A p \in Places(x) : ~(AtPlace(x, p) > th) PROVE Above(x, th) = 0
  <2>1. PlacesAbove(x, th) = {}
    BY <1>5 DEF PlacesAbove
  <2> QED
    BY <1>2, <2>1, FS_EmptySet
<1> QED
  BY <1>3, <1>4, <1>5

(* The least and the largest value are values, and bound all. *)
LEMMA StatsBound ==
  ASSUME NEW x, AreSteps(x)
  PROVE  /\ StatsOf(x).low \in Int /\ StatsOf(x).high \in Int
         /\ \A p \in Places(x) : /\ AtPlace(x, p) \in Int
                                 /\ StatsOf(x).low <= AtPlace(x, p)
                                 /\ AtPlace(x, p) <= StatsOf(x).high
         /\ IsFill(x) => StatsOf(x).low = Fill /\ StatsOf(x).high = Fill
<1>1. x \in Seq(Seq(Int)) /\ Places(x) # {}
  BY DEF AreSteps
<1>2. IsFiniteSet(Places(x)) /\ \A p \in Places(x) : AtPlace(x, p) \in Int
  BY <1>1, PlacesAre
<1> DEFINE f == [p \in Places(x) |-> AtPlace(x, p)]
           V == ValuesOf(x)
<1>3. V = {f[p] : p \in Places(x)} /\ \A p \in Places(x) : f[p] \in Int
  BY <1>2 DEF ValuesOf
<1>4. Numbers(V)
  <2> HIDE DEF f, V
  <2> QED
    BY <1>1, <1>2, <1>3, ImageNumbers
<1>5. /\ Min(V) \in V /\ \A v \in V : Min(V) <= v
      /\ Max(V) \in V /\ \A v \in V : v <= Max(V)
  <2> HIDE DEF V
  <2> QED
    BY <1>4, LeastGreatest
<1>6. StatsOf(x).low = Min(V) /\ StatsOf(x).high = Max(V) /\ \A v \in V : v \in Int
  BY <1>4 DEF StatsOf, Numbers
<1>7. \A p \in Places(x) : AtPlace(x, p) \in V
  BY DEF ValuesOf
<1>8. IsFill(x) => V = {Fill}
  BY DEF IsFill
<1> HIDE DEF V
<1> QED
  BY <1>2, <1>5, <1>6, <1>7, <1>8

(* A list that is cut into parts, the ends of which are in R. *)
ArePartsOf(seqs, row, g, R, m) ==
  /\ m \in Nat \ {0} /\ g \in Nat /\ R[0] = 0 /\ R[m] = g
  /\ \A i \in 0 .. m : R[i] \in 0 .. g
  /\ \A i \in 1 .. m : R[i - 1] <= R[i]
  /\ seqs = [i \in 1 .. m |-> [t \in 1 .. R[i] - R[i - 1] |-> row[R[i - 1] + t]]]
(* Joining the parts gives the list. *)
LEMMA PartsJoined ==
  ASSUME NEW seqs, NEW row, NEW g, NEW R, NEW m, ArePartsOf(seqs, row, g, R, m)
  PROVE  FlattenSeq(seqs) = [t \in 1 .. g |-> row[t]]
<1> DEFINE S == {row[t] : t \in 1 .. g}
           h == [i \in 1 .. m |-> [t \in 1 .. R[i] |-> row[t]]]
           P(i) == [t \in 1 .. R[i] - R[i - 1] |-> row[R[i - 1] + t]]
<1>1. /\ m \in Nat \ {0} /\ g \in Nat /\ R[0] = 0 /\ R[m] = g
      /\ \A i \in 0 .. m : R[i] \in 0 .. g
      /\ \A i \in 1 .. m : R[i - 1] <= R[i] /\ R[i - 1] \in 0 .. g /\ R[i] \in 0 .. g
  <2>1. \A i \in 1 .. m : i - 1 \in 0 .. m /\ i \in 0 .. m
    BY DEF ArePartsOf
  <2> QED
    BY <2>1 DEF ArePartsOf
<1>2. seqs = [i \in 1 .. m |-> P(i)]
  BY DEF ArePartsOf
<1>3. \A t \in 1 .. g : row[t] \in S
  OBVIOUS
<1> HIDE DEF S
<1>4. ASSUME NEW i \in 1 .. m PROVE P(i) \in Seq(S) /\ Len(P(i)) = R[i] - R[i - 1]
  <2> DEFINE r == R[i - 1]
             l == R[i] - r
  <2>1. r \in Nat /\ l \in Nat /\ r + l <= g
    BY <1>1
  <2> HIDE DEF r, l
  <2>2. \A t \in 1 .. l : r + t \in 1 .. g
    BY <1>1, <2>1
  <2>3. [t \in 1 .. l |-> row[r + t]] \in [1 .. l -> S]
    BY <1>3, <2>2
  <2>4. [t \in 1 .. l |-> row[r + t]] \in Seq(S) /\ Len([t \in 1 .. l |-> row[r + t]]) = l
    BY <2>1, <2>3
  <2> QED
    BY <2>4 DEF r, l
<1>5. Len(seqs) = m
  <2>1. seqs \in [1 .. m -> Seq(S)]
    BY <1>2, <1>4
  <2> QED
    BY <1>1, <2>1
<1>6. ASSUME NEW i \in 0 .. m
      PROVE  /\ [t \in 1 .. R[i] |-> row[t]] \in Seq(S)
             /\ Len([t \in 1 .. R[i] |-> row[t]]) = R[i]
  <2>1. R[i] \in Nat /\ \A t \in 1 .. R[i] : row[t] \in S
    BY <1>1, <1>3
  <2>2. [t \in 1 .. R[i] |-> row[t]] \in [1 .. R[i] -> S]
    BY <2>1
  <2> QED
    BY <2>1, <2>2
<1>7. ASSUME NEW i \in 1 .. m, i # 1
      PROVE  [t \in 1 .. R[i] |-> row[t]] = [t \in 1 .. R[i - 1] |-> row[t]] \o P(i)
  <2> DEFINE u == [t \in 1 .. R[i - 1] |-> row[t]]
             v == P(i)
             w == [t \in 1 .. R[i] |-> row[t]]
             q == R[i - 1]
             r == R[i]
  <2>1. i - 1 \in 0 .. m /\ i \in 0 .. m
    BY <1>1
  <2>2. u \in Seq(S) /\ Len(u) = q /\ w \in Seq(S) /\ Len(w) = r
    BY <1>6, <2>1
  <2>3. v \in Seq(S) /\ Len(v) = r - q
    BY <1>4
  <2>4. q \in Nat /\ r \in Nat /\ q <= r
    BY <1>1
  <2>5. /\ \A t \in 1 .. q : u[t] = row[t]
        /\ \A t \in 1 .. r - q : v[t] = row[q + t]
        /\ \A t \in 1 .. r : w[t] = row[t]
    OBVIOUS
  <2> HIDE DEF u, v, w, q, r, P
  <2>6. /\ u \o v \in Seq(S) /\ Len(u \o v) = q + (r - q)
        /\ \A t \in 1 .. q : (u \o v)[t] = u[t]
        /\ \A t \in 1 .. r - q : (u \o v)[q + t] = v[t]
    <3>1. /\ u \o v \in Seq(S) /\ Len(u \o v) = Len(u) + Len(v)
          /\ \A t \in 1 .. Len(u) : (u \o v)[t] = u[t]
          /\ \A t \in 1 .. Len(v) : (u \o v)[Len(u) + t] = v[t]
      <4>1. u \in Seq(S) /\ v \in Seq(S)
        BY <2>2, <2>3
      <4> QED
        BY <4>1, Joined
    <3> QED
      BY <2>2, <2>3, <3>1
  <2>7. ASSUME NEW t \in 1 .. r PROVE (u \o v)[t] = w[t]
    <3>1. CASE t <= q
      BY <2>4, <2>5, <2>6, <3>1
    <3>2. CASE ~(t <= q)
      <4> DEFINE k == t - q
      <4>1. k \in 1 .. r - q /\ q + k = t
        BY <2>4, <3>2
      <4> HIDE DEF k
      <4>2. (u \o v)[q + k] = row[q + k]
        BY <2>5, <2>6, <4>1
      <4> QED
        BY <2>5, <4>1, <4>2
    <3> QED
      BY <3>1, <3>2
  <2>8. Len(u \o v) = Len(w)
    BY <2>2, <2>4, <2>6
  <2>9. w = u \o v
    BY <2>2, <2>6, <2>7, <2>8, SameList
  <2> QED
    BY <2>9 DEF u, v, w
<1>8. P(1) = [t \in 1 .. R[1] |-> row[t]]
  <2>1. R[1] \in Nat /\ R[1 - 1] = 0 /\ 1 \in 1 .. m
    BY <1>1
  <2> QED
    BY <2>1
<1>9. Flattens(seqs, h)
  <2>1. ASSUME NEW i \in 1 .. m PROVE h[i] = IF i = 1 THEN seqs[i] ELSE h[i - 1] \o seqs[i]
    <3>1. CASE i = 1
      BY <1>2, <1>8, <3>1
    <3>2. CASE i # 1
      <4>1. i - 1 \in 1 .. m
        BY <1>1, <3>2
      <4>2. h[i] = [t \in 1 .. R[i] |-> row[t]] /\ h[i - 1] = [t \in 1 .. R[i - 1] |-> row[t]]
        BY <4>1
      <4>3. seqs[i] = P(i)
        BY <1>2
      <4> HIDE DEF h, P
      <4> QED
        BY <1>7, <3>2, <4>2, <4>3
    <3> QED
      BY <3>1, <3>2
  <2>2. h = [i \in 1 .. m |-> IF i = 1 THEN seqs[i] ELSE h[i - 1] \o seqs[i]]
    <3>1. DOMAIN h = 1 .. m /\ h = [i \in DOMAIN h |-> h[i]]
      OBVIOUS
    <3> HIDE DEF h
    <3> QED
      BY <2>1, <3>1
  <2> HIDE DEF h
  <2> QED
    BY <1>5, <2>2 DEF Flattens
<1>10. FlattenSeq(seqs) = h[m]
  <2> HIDE DEF h
  <2> QED
    BY <1>1, <1>5, <1>9, Flattened
<1>11. h[m] = [t \in 1 .. R[m] |-> row[t]]
  <2>1. m \in 1 .. m
    BY <1>1
  <2> QED
    BY <2>1
<1> QED
  BY <1>1, <1>10, <1>11

(* The larger of two numbers. *)
LEMMA LargerOfTwo ==
  ASSUME NEW a \in Int, NEW b \in Int
  PROVE  Max({a, b}) \in {a, b} /\ a <= Max({a, b}) /\ b <= Max({a, b})
<1> DEFINE T == {a, b}
<1>1. IsFiniteSet({a}) /\ T = {a} \cup {b}
  BY FS_Singleton
<1>2. IsFiniteSet({a} \cup {b})
  BY <1>1, FS_AddElement
<1>3. a \in T /\ b \in T /\ \A x \in T : x \in Int
  OBVIOUS
<1>4. IsFiniteSet(T)
  BY <1>1, <1>2, Zenon
<1>5. Numbers(T)
  BY <1>3, <1>4 DEF Numbers
<1> HIDE DEF T
<1>6. Max(T) \in T /\ \A x \in T : x <= Max(T)
  BY <1>5, LeastGreatest
<1>7. Max(T) \in T /\ a <= Max(T) /\ b <= Max(T)
  BY <1>3, <1>6
<1> QED
  BY <1>7 DEF T

(* A slab has whole chunks. *)
LEMMA SlabStepFits ==
  ASSUME NEW n \in Nat \ {0}, NEW bytes \in Nat, NEW d \in Nat \ {0},
         n % d = 0, StepMultiple % d = 0
  PROVE  slab_step(1, bytes, n) \in Nat \ {0} /\ slab_step(1, bytes, n) % d = 0
<1> DEFINE s == StepMultiple
           b == (bytes \div 1) \div s
           p == b * s
           x == Max({s, p})
           y == Min({n, x})
<1>1. s \in Nat \ {0}
  BY PassBitsAssumption
<1>2. bytes \div 1 = bytes
  OBVIOUS
<1>3. b \in Nat
  BY <1>1, <1>2, DivisionOf
<1>4. p \in Nat /\ p % d = 0
  <2> DEFINE q == s \div d
             k == b * q
  <2>1. q \in Nat /\ s = q * d
    BY <1>1, DivisionOf
  <2> HIDE DEF b, q
  <2>2. k \in Nat /\ b * s = k * d /\ b * s \in Nat
    BY <1>1, <1>3, <2>1
  <2>3. (k * d + 0) % d = 0 /\ k * d \in Nat
    <3> HIDE DEF k
    <3>1. 0 \in 0 .. d - 1
      OBVIOUS
    <3>2. k * d \in Nat
      BY <2>2
    <3> QED
      BY <2>2, <3>1, <3>2, Division
  <2>4. k * d + 0 = k * d
    BY <2>3
  <2> HIDE DEF k, p
  <2>5. p = b * s
    BY DEF p
  <2> QED
    BY <2>2, <2>3, <2>4, <2>5
<1>5. s % d = 0
  OBVIOUS
<1> HIDE DEF b, p, s
<1>6. x \in {s, p} /\ s <= x
  <2>1. s \in Int /\ p \in Int
    BY <1>1, <1>4
  <2> QED
    BY <2>1, LargerOfTwo
<1>7. x \in Nat \ {0} /\ x % d = 0
  BY <1>1, <1>4, <1>5, <1>6
<1> HIDE DEF x
<1>8. y \in {n, x}
  <2>1. n \in Int /\ x \in Int
    BY <1>7
  <2> QED
    BY <2>1, LesserOfTwo
<1>9. y \in Nat \ {0} /\ y % d = 0
  BY <1>7, <1>8
<1> QED
  BY <1>9 DEF slab_step, y, x, p, b, s

(* Slabs of whole chunks: where they end, in chunks. *)
OfWholeChunks(parts, a, d, S, m, R) ==
  /\ m \in Nat \ {0} /\ R[0] = 0 /\ R[m] = Len(a) \div d /\ DOMAIN parts = 1 .. m
  /\ \A i \in 0 .. m : R[i] \in 0 .. Len(a) \div d
  /\ \A i \in 1 .. m :
       /\ R[i - 1] < R[i] /\ parts[i] \in Seq(S) /\ Len(parts[i]) = (R[i] - R[i - 1]) * d
       /\ \A j \in 1 .. Len(parts[i]) : parts[i][j] = a[R[i - 1] * d + j]
(* Slabs of a multiple of the chunk length have whole chunks. *)
LEMMA SlabsOfChunks ==
  ASSUME NEW S, NEW a \in Seq(S), NEW d \in Nat \ {0}, NEW step \in Nat \ {0},
         step % d = 0, Len(a) % d = 0, Len(a) # 0
  PROVE  \E m, R : OfWholeChunks(read_slabs(a, step), a, d, S, m, R)
<1> DEFINE n == Len(a)
           g == n \div d
           q == step \div d
           m == (n + step - 1) \div step
           End(i) == Min({i * step, n})
           parts == read_slabs(a, step)
           R == [i \in 0 .. m |-> IF i = m THEN g ELSE i * q]
<1>1. /\ n \in Nat \ {0} /\ g \in Nat /\ n = g * d
      /\ q \in Nat /\ step = q * d
  <2>1. n \in Nat \ {0} /\ n % d = 0
    OBVIOUS
  <2> HIDE DEF n
  <2>2. g \in Nat /\ n = g * d + (n % d) /\ q \in Nat /\ step = q * d + (step % d)
    BY <2>1, DivisionOf
  <2>3. g * d \in Nat /\ q * d \in Nat
    BY <2>2
  <2> HIDE DEF g, q
  <2> QED
    BY <2>1, <2>2, <2>3
<1>2. DOMAIN parts = 1 .. m /\ \A i \in 1 .. m : parts[i] = SubSeq(a, (i - 1) * step + 1, End(i))
  BY DEF read_slabs, slabs
<1> HIDE DEF n, g, q
<1>3. /\ m \in Nat
      /\ \A t \in 1 .. n : (t - 1) \div step + 1 \in 1 .. m
      /\ \A i \in 1 .. m : (i - 1) * step + 1 <= n
  <2>1. n \in Nat
    BY <1>1
  <2> QED
    BY <2>1, SlabNumber
<1> HIDE DEF m, parts
<1>4. m \in Nat \ {0} /\ n <= m * step
  <2> DEFINE k == n - 1
             p == k \div step
             l == p + 1
  <2>1. k \in Nat /\ n \in 1 .. n /\ k + 1 = n
    BY <1>1
  <2>2. l \in 1 .. m
    BY <1>3, <2>1
  <2> HIDE DEF k
  <2>3. p \in Nat /\ k % step \in 0 .. step - 1 /\ k = p * step + (k % step)
    BY <2>1, DivisionOf
  <2> HIDE DEF p
  <2>4. l * step = p * step + step /\ p * step \in Nat
    BY <2>3
  <2>5. n <= l * step
    <3> DEFINE u == p * step
               v == l * step
    <3>1. k = u + (k % step) /\ v = u + step /\ u \in Nat
      BY <2>3, <2>4
    <3> HIDE DEF u, v
    <3>2. n <= v
      BY <2>1, <2>3, <3>1
    <3> QED
      BY <3>2 DEF v
  <2>6. l * step <= m * step
    <3>1. l \in Int /\ m \in Int /\ l <= m /\ step \in Nat
      BY <1>3, <2>2
    <3> HIDE DEF l
    <3> QED
      BY <3>1, ProductGrows
  <2> DEFINE v == l * step
             w == m * step
  <2>7. v \in Int /\ w \in Int /\ n <= v /\ v <= w
    BY <1>3, <2>2, <2>5, <2>6
  <2>8. n <= w
    <3> HIDE DEF v, w
    <3> QED
      BY <1>1, <2>7
  <2> QED
    BY <1>3, <2>2, <2>8 DEF w
<1>5. ASSUME NEW i \in 1 .. m
      PROVE  R[i - 1] = (i - 1) * q /\ R[i - 1] * d = (i - 1) * step /\ R[i] * d = End(i)
  <2>1. i - 1 \in 0 .. m /\ i \in 0 .. m /\ i - 1 # m
    BY <1>4
  <2>2. R[i - 1] = (i - 1) * q /\ R[i] = IF i = m THEN g ELSE i * q
    BY <2>1
  <2>3. \A j \in Int : (j * q) * d = j * step
    <3> SUFFICES ASSUME NEW j \in Int PROVE (j * q) * d = j * step
      OBVIOUS
    <3>1. (j * q) * d = j * (q * d)
      BY <1>1
    <3> QED
      BY <1>1, <3>1, Zenon
  <2>4. End(i) \in {i * step, n} /\ End(i) <= i * step /\ End(i) <= n /\ i * step \in Int
    <3>1. i * step \in Int /\ n \in Int
      BY <1>1, <1>4
    <3> QED
      BY <3>1, LesserOfTwo
  <2> DEFINE e == End(i)
             o == i * step
  <2>5. CASE i = m
    <3>1. n <= o /\ o \in Int
      BY <1>4, <2>4, <2>5
    <3>2. e \in {o, n} /\ e <= n
      BY <2>4
    <3> HIDE DEF e, o
    <3>3. e = n
      BY <1>1, <3>1, <3>2
    <3>4. R[i] = g
      BY <2>2, <2>5
    <3> QED
      BY <1>1, <2>1, <2>2, <2>3, <3>3, <3>4 DEF e
  <2>6. CASE i # m
    <3>1. i + 1 \in 1 .. m
      BY <1>4, <2>6
    <3> DEFINE j == i + 1
    <3>2. j \in 1 .. m /\ j - 1 = i
      BY <3>1
    <3> HIDE DEF j
    <3>3. (j - 1) * step + 1 <= n
      BY <1>3, <3>2
    <3>4. o + 1 <= n /\ o \in Int
      BY <2>4, <3>2, <3>3
    <3>5. e \in {o, n} /\ e <= o
      BY <2>4
    <3> HIDE DEF e, o
    <3>6. e = o
      BY <1>1, <3>4, <3>5
    <3>7. R[i] = i * q
      BY <2>2, <2>6
    <3> QED
      BY <2>1, <2>2, <2>3, <3>6, <3>7 DEF e, o
  <2> QED
    BY <2>5, <2>6
<1>6. R[m] = g /\ R[0] = 0 /\ \A i \in 0 .. m : R[i] \in Int
  <2>1. 0 \in 0 .. m /\ m \in 0 .. m /\ 0 # m /\ 0 * q = 0
    BY <1>1, <1>4
  <2>2. \A i \in 0 .. m : i * q \in Int
    BY <1>1, <1>4
  <2> QED
    BY <1>1, <2>1, <2>2
<1> HIDE DEF R
<1>7. ASSUME NEW i \in 1 .. m
      PROVE  /\ R[i - 1] < R[i] /\ R[i] <= g /\ parts[i] \in Seq(S)
             /\ Len(parts[i]) = (R[i] - R[i - 1]) * d
             /\ \A j \in 1 .. Len(parts[i]) : parts[i][j] = a[R[i - 1] * d + j]
  <2> DEFINE f == (i - 1) * step
             e == End(i)
             r == R[i - 1]
             u == R[i]
             o == i * step
             rd == r * d
             ud == u * d
             gd == g * d
  <2>1. r \in Int /\ u \in Int /\ rd = f /\ ud = e /\ f \in Nat
    <3>1. i - 1 \in 0 .. m /\ i \in 0 .. m /\ i - 1 \in Nat
      BY <1>4
    <3> QED
      BY <1>5, <1>6, <3>1
  <2>2. f + 1 <= n /\ e \in {o, n} /\ e <= n /\ o = f + step /\ o \in Int
    <3>1. o \in Int /\ n \in Int /\ o = f + step
      BY <1>1, <1>4
    <3>2. f + 1 <= n
      BY <1>3
    <3>3. e \in {o, n} /\ e <= n
      <4> HIDE DEF o
      <4>1. Min({o, n}) \in {o, n} /\ Min({o, n}) <= n
        BY <3>1, LesserOfTwo
      <4> QED
        BY <4>1 DEF o
    <3> QED
      BY <3>1, <3>2, <3>3
  <2>3. f < e /\ e \in Int
    <3> HIDE DEF e, f, o
    <3>1. f \in Nat /\ n \in Nat
      BY <1>1, <2>1
    <3> QED
      BY <2>2, <3>1
  <2>4. parts[i] = SubSeq(a, f + 1, e)
    BY <1>2
  <2> HIDE DEF e, f
  <2>5. /\ SubSeq(a, f + 1, e) \in Seq(S) /\ Len(SubSeq(a, f + 1, e)) = e - f
        /\ \A j \in 1 .. e - f : SubSeq(a, f + 1, e)[j] = a[f + j]
    <3> DEFINE b == f + 1
    <3>1. b \in 1 .. Len(a) + 1 /\ e \in b - 1 .. Len(a) /\ b - 1 = f /\ e - b + 1 = e - f
      BY <2>1, <2>2, <2>3, <1>1 DEF n
    <3> HIDE DEF b
    <3>2. /\ SubSeq(a, b, e) \in Seq(S) /\ Len(SubSeq(a, b, e)) = e - b + 1
          /\ \A j \in 1 .. e - b + 1 : SubSeq(a, b, e)[j] = a[b - 1 + j]
      BY <3>1, PartOfList
    <3> QED
      BY <3>1, <3>2 DEF b
  <2>6. (u - r) * d = e - f
    <3>1. (u - r) * d = ud - rd
      <4> HIDE DEF u, r
      <4> QED
        BY <2>1
    <3> QED
      BY <2>1, <3>1, Zenon
  <2>7. r < u
    <3> SUFFICES ASSUME u <= r PROVE FALSE
      BY <2>1
    <3>1. ud <= rd
      <4> HIDE DEF u, r
      <4> QED
        BY <2>1, ProductGrows
    <3> HIDE DEF ud, rd
    <3> QED
      BY <2>1, <2>3, <3>1
  <2>8. u <= g
    <3> SUFFICES ASSUME g + 1 <= u PROVE FALSE
      BY <1>1, <2>1
    <3>1. (g + 1) * d <= ud
      <4> DEFINE k == g + 1
      <4>1. k \in Int /\ k <= u /\ d \in Nat
        BY <1>1
      <4> HIDE DEF u, k
      <4>2. k * d <= u * d
        BY <2>1, <4>1, ProductGrows
      <4> QED
        BY <4>2 DEF k
    <3>2. (g + 1) * d = gd + d
      BY <1>1
    <3>3. gd = n /\ ud \in Int
      BY <1>1, <2>1, <2>3
    <3> HIDE DEF ud, gd
    <3> QED
      BY <1>1, <2>1, <2>2, <3>1, <3>2, <3>3
  <2>9. \A j \in 1 .. Len(parts[i]) : parts[i][j] = a[rd + j]
    BY <2>1, <2>4, <2>5
  <2>10. parts[i] \in Seq(S) /\ Len(parts[i]) = (u - r) * d
    BY <2>4, <2>5, <2>6
  <2> QED
    BY <2>7, <2>8, <2>9, <2>10
<1>8. \A i \in 0 .. m : R[i] \in 0 .. g
  <2> SUFFICES ASSUME NEW i \in 0 .. m PROVE R[i] \in 0 .. g
    OBVIOUS
  <2>1. CASE i = 0
    BY <1>1, <1>6, <2>1
  <2>2. CASE i # 0
    <3>1. i \in 1 .. m /\ i - 1 \in 0 .. m
      BY <1>4, <2>2
    <3>2. R[i] <= g /\ R[i - 1] = (i - 1) * q /\ R[i - 1] < R[i]
      BY <1>5, <1>7, <3>1
    <3>3. (i - 1) * q \in Nat
      BY <1>1, <3>1
    <3> DEFINE v == (i - 1) * q
    <3> HIDE DEF v
    <3> QED
      BY <1>1, <1>6, <3>2, <3>3 DEF v
  <2> QED
    BY <2>1, <2>2
<1>9. OfWholeChunks(parts, a, d, S, m, R)
  BY <1>2, <1>4, <1>6, <1>7, <1>8 DEF OfWholeChunks, n, g
<1> QED
  BY <1>9 DEF parts

(* The chunks of a slab are chunks of the array. *)
IsSlab(slab, a, d, r, l) ==
  /\ slab \in Seq(Seq(Int)) /\ r \in Nat /\ l \in Nat /\ Len(slab) = l * d
  /\ \A j \in 1 .. Len(slab) : slab[j] = a[r * d + j]
LEMMA ChunkOfSlab ==
  ASSUME NEW a, NEW chunk, Cuts(a, chunk), NEW slab, NEW r, NEW l,
         IsSlab(slab, a, chunk[1], r, l), NEW t \in 1 .. l, NEW j
  PROVE  Chunk(slab, chunk, <<t - 1, j - 1>>) = Chunk(a, chunk, <<r + t - 1, j - 1>>)
<1> DEFINE d == chunk[1]
           e == chunk[2]
           n == Len(slab)
<1>1. /\ d \in Nat \ {0} /\ n = l * d /\ \A i \in 1 .. n : slab[i] = a[r * d + i]
      /\ r \in Nat /\ l \in Nat
  BY DEF Cuts, IsCut, IsSlab
<1>2. ASSUME NEW s \in 1 .. d PROVE slab[(t - 1) * d + s] = a[(r + t - 1) * d + s]
  <2> DEFINE i == (t - 1) * d + s
             u == r * d
  <2>1. n % d = 0 /\ n \in Nat /\ n \div d = l
    <3>1. 0 \in 0 .. d - 1 /\ l * d \in Nat
      BY <1>1
    <3>2. (l * d + 0) \div d = l /\ (l * d + 0) % d = 0
      <4> HIDE DEF d
      <4> QED
        BY <1>1, <3>1, Division
    <3> DEFINE p == l * d
    <3>3. p + 0 = p /\ (p + 0) \div d = l /\ (p + 0) % d = 0 /\ n = p /\ p \in Nat
      BY <1>1, <3>1, <3>2
    <3> HIDE DEF p, n, d
    <3> QED
      BY <3>3
  <2>2. EvenlyCut(n, d, l)
    <3> HIDE DEF n, d
    <3> QED
      BY <1>1, <2>1, EvenParts
  <2>3. t - 1 \in 0 .. l - 1
    BY <1>1
  <2>4. i \in 1 .. n
    BY <2>2, <2>3 DEF EvenlyCut
  <2>5. slab[i] = a[u + i]
    <3> HIDE DEF i, n, d
    <3> QED
      BY <1>1, <2>4
  <2>6. u + i = (r + t - 1) * d + s
    <3> HIDE DEF d
    <3> QED
      BY <1>1
  <2> HIDE DEF u
  <2> QED
    BY <2>5, <2>6
<1>3. /\ Chunk(slab, chunk, <<t - 1, j - 1>>)
           = [s \in 1 .. d |-> [i \in 1 .. e |-> slab[(t - 1) * d + s][(j - 1) * e + i]]]
      /\ Chunk(a, chunk, <<r + t - 1, j - 1>>)
           = [s \in 1 .. d |-> [i \in 1 .. e |-> a[(r + t - 1) * d + s][(j - 1) * e + i]]]
  BY DEF Chunk
<1> HIDE DEF d, e
<1>4. \A s \in 1 .. d :
        [i \in 1 .. e |-> slab[(t - 1) * d + s][(j - 1) * e + i]]
          = [i \in 1 .. e |-> a[(r + t - 1) * d + s][(j - 1) * e + i]]
  BY <1>2
<1> QED
  BY <1>3, <1>4

(* The statistics of all chunks, whatever the slabs. *)
LEMMA StatsBySlabs ==
  ASSUME NEW a, NEW chunk, Cuts(a, chunk), NEW step \in Nat \ {0}, step % chunk[1] = 0
  PROVE  chunk_stats(a, chunk, step) = [c \in Grid(a, chunk) |-> StatsOf(Chunk(a, chunk, c))]
<1> DEFINE n == Len(a)
           w == Len(a[1])
           d == chunk[1]
           e == chunk[2]
           g == n \div d
           k == w \div e
           parts == read_slabs(a, step)
           Row(t) == [j \in 1 .. k |-> StatsOf(Chunk(a, chunk, <<t - 1, j - 1>>))]
           row == [t \in 1 .. g |-> Row(t)]
           seqs == [i \in DOMAIN parts |-> StatRows(parts[i], chunk)]
<1>1. /\ a \in Seq(Seq(Int)) /\ n \in Nat \ {0} /\ w \in Nat \ {0}
      /\ \A t \in 1 .. n : a[t] \in Seq(Int) /\ Len(a[t]) = w
  BY StepsAre DEF Cuts
<1>2. d \in Nat \ {0} /\ e \in Nat \ {0} /\ n % d = 0 /\ w % e = 0
  BY DEF Cuts, IsCut
<1>3. PICK m, R : OfWholeChunks(parts, a, d, Seq(Int), m, R)
  <2> HIDE DEF d
  <2> QED
    BY <1>1, <1>2, SlabsOfChunks DEF d
<1>4. EvenlyCut(n, d, g) /\ EvenlyCut(w, e, k)
  <2>1. EvenlyCut(n, d, g)
    <3> HIDE DEF n, d
    <3> QED
      BY <1>1, <1>2, EvenParts
  <2>2. EvenlyCut(w, e, k)
    <3> HIDE DEF w, e
    <3> QED
      BY <1>1, <1>2, EvenParts
  <2> QED
    BY <2>1, <2>2
<1>5. g \in Nat \ {0} /\ k \in Nat \ {0}
  <2>1. g \in Nat /\ n = g * d /\ k \in Nat /\ w = k * e
    BY <1>4 DEF EvenlyCut
  <2>2. 0 * d = 0 /\ 0 * e = 0
    BY <1>2
  <2> HIDE DEF g, k, n, w, d, e
  <2> QED
    BY <1>1, <2>1, <2>2
<1> HIDE DEF parts, g, k
<1>6. ASSUME NEW i \in 1 .. m
      PROVE  StatRows(parts[i], chunk) = [t \in 1 .. R[i] - R[i - 1] |-> row[R[i - 1] + t]]
  <2> DEFINE slab == parts[i]
             r == R[i - 1]
             u == R[i]
             l == u - r
  <2>1. /\ r < u /\ slab \in Seq(Seq(Int)) /\ Len(slab) = l * d
        /\ \A j \in 1 .. Len(slab) : slab[j] = a[r * d + j]
    BY <1>3 DEF OfWholeChunks
  <2>2. r \in 0 .. g /\ u \in 0 .. g
    <3>1. i - 1 \in 0 .. m /\ i \in 0 .. m
      BY <1>3 DEF OfWholeChunks
    <3> QED
      BY <1>3, <3>1 DEF OfWholeChunks, g
  <2>3. r \in Nat /\ l \in Nat \ {0} /\ r + l <= g
    BY <1>5, <2>1, <2>2
  <2> HIDE DEF slab, r, u, l
  <2>4. Len(slab) \div d = l
    <3>1. 0 \in 0 .. d - 1 /\ l * d + 0 = l * d
      BY <1>2, <2>3
    <3> HIDE DEF d
    <3>2. (l * d + 0) \div d = l
      BY <1>2, <2>3, <3>1, Division
    <3> QED
      BY <2>1, <3>1, <3>2
  <2>5. Len(slab[1]) = w
    <3>1. 1 \in 1 .. l * d
      <4>1. 1 * d <= l * d
        <5> HIDE DEF d
        <5>1. 1 \in Int /\ l \in Int /\ 1 <= l /\ d \in Nat
          BY <1>2, <2>3
        <5> QED
          BY <5>1, ProductGrows
      <4>2. l * d \in Int /\ 1 * d = d
        BY <1>2, <2>3
      <4> DEFINE v == l * d
      <4>3. d <= v /\ v \in Int
        BY <4>1, <4>2
      <4> HIDE DEF v, d
      <4>4. 1 \in 1 .. v
        BY <1>2, <4>3
      <4> QED
        BY <4>4 DEF v
    <3>2. slab[1] = a[r * d + 1]
      BY <2>1, <3>1
    <3>3. r * d + 1 \in 1 .. n
      <4>1. r \in 0 .. g - 1 /\ 1 \in 1 .. d
        BY <1>2, <1>5, <2>3
      <4> HIDE DEF n, d
      <4> QED
        BY <1>4, <4>1 DEF EvenlyCut
    <3> QED
      BY <1>1, <3>2, <3>3
  <2>6. StatRows(slab, chunk)
          = [t \in 1 .. l |-> [j \in 1 .. k |-> StatsOf(Chunk(slab, chunk, <<t - 1, j - 1>>))]]
    BY <2>4, <2>5 DEF StatRows, k
  <2>7. ASSUME NEW t \in 1 .. l
        PROVE  [j \in 1 .. k |-> StatsOf(Chunk(slab, chunk, <<t - 1, j - 1>>))] = row[r + t]
    <3>1. \A j \in 1 .. k :
            Chunk(slab, chunk, <<t - 1, j - 1>>) = Chunk(a, chunk, <<r + t - 1, j - 1>>)
      <4>1. IsSlab(slab, a, chunk[1], r, l)
        BY <2>1, <2>3 DEF IsSlab
      <4> HIDE DEF d
      <4> SUFFICES ASSUME NEW j \in 1 .. k
                   PROVE  Chunk(slab, chunk, <<t - 1, j - 1>>) = Chunk(a, chunk, <<r + t - 1, j - 1>>)
        OBVIOUS
      <4>2. t \in 1 .. l
        OBVIOUS
      <4> QED
        <5>1. Cuts(a, chunk)
          OBVIOUS
        <5>2. \A y : Chunk(slab, chunk, <<t - 1, y - 1>>) = Chunk(a, chunk, <<r + t - 1, y - 1>>)
          BY <4>1, <4>2, <5>1, ChunkOfSlab
        <5> QED
          BY <5>2
    <3>2. r + t \in 1 .. g
      BY <1>5, <2>3
    <3>3. row[r + t] = Row(r + t)
      BY <3>2
    <3> DEFINE v == r + t
    <3>4. v - 1 = r + t - 1
      BY <2>3
    <3>5. \A j \in 1 .. k :
            Chunk(slab, chunk, <<t - 1, j - 1>>) = Chunk(a, chunk, <<v - 1, j - 1>>)
      <4> HIDE DEF v
      <4> QED
        BY <3>1, <3>4
    <3>6. [j \in 1 .. k |-> StatsOf(Chunk(slab, chunk, <<t - 1, j - 1>>))] = Row(v)
      <4> HIDE DEF v
      <4> QED
        BY <3>5
    <3> QED
      BY <3>3, <3>6
  <2> HIDE DEF row
  <2>8. StatRows(slab, chunk) = [t \in 1 .. l |-> row[r + t]]
    BY <2>6, <2>7
  <2> QED
    BY <2>8 DEF slab, l, r, u
<1>7. ArePartsOf(seqs, row, g, R, m)
  <2>1. /\ m \in Nat \ {0} /\ R[0] = 0 /\ R[m] = g /\ DOMAIN parts = 1 .. m
        /\ \A i \in 0 .. m : R[i] \in 0 .. g
        /\ \A i \in 1 .. m : R[i - 1] < R[i]
    BY <1>3 DEF OfWholeChunks, g
  <2>2. \A i \in 1 .. m : i - 1 \in 0 .. m /\ i \in 0 .. m
    BY <2>1
  <2>3. \A i \in 1 .. m : R[i - 1] <= R[i]
    BY <2>1, <2>2
  <2> HIDE DEF row
  <2>4. seqs = [i \in 1 .. m |-> [t \in 1 .. R[i] - R[i - 1] |-> row[R[i - 1] + t]]]
    BY <1>6, <2>1
  <2> HIDE DEF seqs
  <2> QED
    BY <1>5, <2>1, <2>3, <2>4 DEF ArePartsOf
<1>8. FlattenSeq(seqs) = [t \in 1 .. g |-> row[t]]
  <2> HIDE DEF seqs, row
  <2> QED
    BY <1>7, PartsJoined
<1> DEFINE rows == FlattenSeq(seqs)
<1>9. Len(rows) = g /\ Len(rows[1]) = k /\ \A t \in 1 .. g : rows[t] = Row(t)
  <2>1. \A t \in 1 .. g : rows[t] = Row(t)
    BY <1>8
  <2>2. Len(rows) = g
    <3>1. rows \in [1 .. g -> {Row(t) : t \in 1 .. g}]
      BY <1>8
    <3> HIDE DEF rows
    <3> QED
      BY <1>5, <3>1
  <2>3. Len(Row(1)) = k
    <3>1. Row(1) \in [1 .. k -> {StatsOf(Chunk(a, chunk, <<1 - 1, j - 1>>)) : j \in 1 .. k}]
      OBVIOUS
    <3> QED
      BY <1>5, <3>1
  <2>4. 1 \in 1 .. g
    BY <1>5
  <2> HIDE DEF rows
  <2> QED
    BY <2>1, <2>2, <2>3, <2>4
<1>10. chunk_stats(a, chunk, step)
         = [c \in (0 .. Len(rows) - 1) \X (0 .. Len(rows[1]) - 1) |-> rows[c[1] + 1][c[2] + 1]]
  BY DEF chunk_stats, parts
<1> HIDE DEF rows
<1>11. Grid(a, chunk) = (0 .. g - 1) \X (0 .. k - 1)
  BY DEF Grid, g, k
<1>12. ASSUME NEW c \in Grid(a, chunk)
       PROVE  rows[c[1] + 1][c[2] + 1] = StatsOf(Chunk(a, chunk, c))
  <2> DEFINE t == c[1] + 1
             j == c[2] + 1
  <2>1. c = <<c[1], c[2]>> /\ c[1] \in 0 .. g - 1 /\ c[2] \in 0 .. k - 1
    BY <1>11
  <2>2. t \in 1 .. g /\ j \in 1 .. k /\ t - 1 = c[1] /\ j - 1 = c[2]
    BY <1>5, <2>1
  <2> HIDE DEF t, j
  <2>3. rows[t][j] = StatsOf(Chunk(a, chunk, <<t - 1, j - 1>>))
    BY <1>9, <2>2
  <2>4. <<t - 1, j - 1>> = c
    BY <2>1, <2>2, Zenon
  <2> QED
    BY <2>3, <2>4 DEF t, j
<1> QED
  BY <1>9, <1>10, <1>11, <1>12

-----------------------------------------------------------------------------
(* Chunks that are read, counted or skipped *)

(* What is counted of a chunk that lies above the threshold is all of it,  *)
(* of one that lies below nothing, and the rest is read.                   *)
DividesCounts(F, G, In, Maybe, v) ==
  /\ In \cap Maybe = {} /\ \A c \in In : F[c] = v
  /\ \A c \in G : c \notin In /\ c \notin Maybe => F[c] = 0
CountsApart(F, G, In, Maybe, v) ==
  /\ IsFiniteSet(In) /\ IsFiniteSet(Maybe) /\ Cardinality(In) \in Nat
  /\ SumOf(F, Maybe) \in Int
  /\ SumOf(F, G) = v * Cardinality(In) + SumOf(F, Maybe)
LEMMA CountedInParts ==
  ASSUME NEW G, IsFiniteSet(G), NEW F, Integers(F, G), NEW In \in SUBSET G, NEW Maybe \in SUBSET G,
         NEW v \in Int, DividesCounts(F, G, In, Maybe, v)
  PROVE  CountsApart(F, G, In, Maybe, v)
<1> DEFINE B == In \cup Maybe
           Out == G \ B
<1>0. /\ In \cap Maybe = {} /\ \A c \in In : F[c] = v
      /\ \A c \in G : c \notin In /\ c \notin Maybe => F[c] = 0
  BY DEF DividesCounts
<1>1. IsFiniteSet(In) /\ IsFiniteSet(Maybe) /\ IsFiniteSet(B) /\ IsFiniteSet(Out)
  <2>1. B \in SUBSET G /\ Out \in SUBSET G
    OBVIOUS
  <2> HIDE DEF B, Out
  <2> QED
    BY <2>1, FS_Subset
<1>2. G = B \cup Out /\ B \cap Out = {} /\ Integers(F, B \cup Out) /\ Integers(F, In \cup Maybe)
      /\ Integers(F, Maybe)
  BY DEF Integers
<1>3. SumOf(F, B \cup Out) = SumOf(F, B) + SumOf(F, Out)
  <2> HIDE DEF B, Out
  <2> QED
    BY <1>1, <1>2, SumOfTwo
<1>4. SumOf(F, B) = SumOf(F, In) + SumOf(F, Maybe)
  BY <1>0, <1>1, <1>2, SumOfTwo
<1>5. SumOf(F, In) = v * Cardinality(In)
  BY <1>0, <1>1, SumOfEqual
<1>6. SumOf(F, Out) = 0
  <2>1. \A c \in Out : F[c] = 0
    BY <1>0
  <2> HIDE DEF Out
  <2>2. SumOf(F, Out) = 0 * Cardinality(Out)
    BY <1>1, <2>1, SumOfEqual
  <2>3. Cardinality(Out) \in Nat
    BY <1>1, FS_CardinalityType
  <2> QED
    BY <2>2, <2>3
<1>7. Cardinality(In) \in Nat /\ SumOf(F, Maybe) \in Int
  BY <1>1, <1>2, FS_CardinalityType, SumType
<1>8. SumOf(F, G) = (v * Cardinality(In) + SumOf(F, Maybe)) + 0
  BY <1>2, <1>3, <1>4, <1>5, <1>6, Zenon
<1>9. v * Cardinality(In) \in Int
  BY <1>7
<1> HIDE DEF B, Out
<1> QED
  BY <1>1, <1>7, <1>8, <1>9 DEF CountsApart

(* What was decoded of an array, and the chunks of both. *)
LEMMA NearChunks ==
  ASSUME NEW a, NEW b, NEW chunk, Cuts(a, chunk), NEW eps \in Nat, AreNear(a, b, eps)
  PROVE  /\ Cuts(b, chunk) /\ Grid(b, chunk) = Grid(a, chunk)
         /\ \A c \in Grid(a, chunk) :
              LET x == Chunk(a, chunk, c)
                  y == Chunk(b, chunk, c)
              IN  /\ AreSteps(x) /\ AreSteps(y) /\ Len(y) = chunk[1] /\ Len(y[1]) = chunk[2]
                  /\ Places(y) = Places(x)
                  /\ \A p \in Places(x) : AtPlace(x, p) - AtPlace(y, p) \in -eps .. eps
<1>1. AreSteps(b) /\ Len(b) = Len(a) /\ Len(b[1]) = Len(a[1])
      /\ \A p \in Places(a) : AtPlace(a, p) - AtPlace(b, p) \in -eps .. eps
  BY DEF AreNear
<1>2. Cuts(b, chunk) /\ Grid(b, chunk) = Grid(a, chunk)
  BY <1>1 DEF Cuts, Grid
<1>3. ASSUME NEW c \in Grid(a, chunk)
      PROVE  LET x == Chunk(a, chunk, c)
                 y == Chunk(b, chunk, c)
             IN  /\ AreSteps(x) /\ AreSteps(y) /\ Len(y) = chunk[1] /\ Len(y[1]) = chunk[2]
                 /\ Places(y) = Places(x)
                 /\ \A p \in Places(x) : AtPlace(x, p) - AtPlace(y, p) \in -eps .. eps
  <2> DEFINE x == Chunk(a, chunk, c)
             y == Chunk(b, chunk, c)
  <2>1. IsChunk(x, a, chunk, c)
    BY ChunkIs
  <2>2. IsChunk(y, b, chunk, c)
    BY <1>2, ChunkIs
  <2> HIDE DEF x, y
  <2>3. AreSteps(x) /\ AreSteps(y) /\ Places(y) = Places(x)
        /\ Len(y) = chunk[1] /\ Len(y[1]) = chunk[2]
    BY <2>1, <2>2 DEF IsChunk
  <2>4. ASSUME NEW p \in Places(x) PROVE AtPlace(x, p) - AtPlace(y, p) \in -eps .. eps
    <3> DEFINE q == <<c[1] * chunk[1] + p[1], c[2] * chunk[2] + p[2]>>
    <3>1. q \in Places(a) /\ AtPlace(x, p) = AtPlace(a, q)
      BY <2>1 DEF IsChunk
    <3>2. AtPlace(y, p) = AtPlace(b, q)
      BY <2>2, <2>3 DEF IsChunk
    <3> HIDE DEF q
    <3> QED
      BY <1>1, <3>1, <3>2
  <2> QED
    BY <2>3, <2>4 DEF x, y
<1> QED
  BY <1>2, <1>3

(* The statistics, widened by the error, bound what was decoded. *)
DecidedBy(s, v, size, eps, th) ==
  /\ s.low \in Int /\ s.high \in Int /\ v \in Int /\ s.low <= s.high
  /\ s.low - eps > th => v = size
  /\ s.high + eps <= th => v = 0
LEMMA ChunkBounded ==
  ASSUME NEW a, NEW b, NEW chunk, Cuts(a, chunk), NEW eps \in Nat, AreNear(a, b, eps),
         NEW c \in Grid(a, chunk), NEW th \in Int
  PROVE  /\ DecidedBy(StatsOf(Chunk(a, chunk, c)), Above(Chunk(b, chunk, c), th),
                   chunk[1] * chunk[2], eps, th)
         /\ IsFill(Chunk(a, chunk, c)) =>
              StatsOf(Chunk(a, chunk, c)).low = Fill /\ StatsOf(Chunk(a, chunk, c)).high = Fill
<1> DEFINE x == Chunk(a, chunk, c)
           y == Chunk(b, chunk, c)
           s == StatsOf(x)
           v == Above(y, th)
<1>1. /\ AreSteps(x) /\ AreSteps(y) /\ Len(y) = chunk[1] /\ Len(y[1]) = chunk[2]
      /\ Places(y) = Places(x)
      /\ \A p \in Places(x) : AtPlace(x, p) - AtPlace(y, p) \in -eps .. eps
  BY NearChunks
<1>2. v = Above(y, th)
  OBVIOUS
<1>3. s = StatsOf(x)
  OBVIOUS
<1> HIDE DEF x, y, s, v
<1>4. /\ s.low \in Int /\ s.high \in Int
      /\ \A p \in Places(x) : AtPlace(x, p) \in Int /\ s.low <= AtPlace(x, p) /\ AtPlace(x, p) <= s.high
      /\ IsFill(x) => s.low = Fill /\ s.high = Fill
  BY <1>1, <1>3, StatsBound
<1>5. \A p \in Places(y) : AtPlace(y, p) \in Int
  BY <1>1, StatsBound
<1>6. /\ v \in Nat
      /\ (\A p \in Places(y) : AtPlace(y, p) > th) => v = Len(y) * Len(y[1])
      /\ (\A p \in Places(y) : ~(AtPlace(y, p) > th)) => v = 0
  BY <1>1, <1>2, AboveAllOrNone
<1>7. ASSUME s.low - eps > th PROVE v = chunk[1] * chunk[2]
  <2>1. ASSUME NEW p \in Places(y) PROVE AtPlace(y, p) > th
    <3> DEFINE u == AtPlace(x, p)
               w == AtPlace(y, p)
    <3>1. u \in Int /\ s.low <= u /\ w \in Int /\ u - w \in -eps .. eps
      BY <1>1, <1>4, <1>5
    <3> HIDE DEF u, w
    <3>2. w > th
      BY <1>4, <1>7, <3>1
    <3> QED
      BY <3>2 DEF w
  <2>2. v = Len(y) * Len(y[1])
    BY <1>6, <2>1
  <2> QED
    BY <1>1, <2>2
<1>8. ASSUME s.high + eps <= th PROVE v = 0
  <2>1. ASSUME NEW p \in Places(y) PROVE ~(AtPlace(y, p) > th)
    <3> DEFINE u == AtPlace(x, p)
               w == AtPlace(y, p)
    <3>1. u \in Int /\ u <= s.high /\ w \in Int /\ u - w \in -eps .. eps
      BY <1>1, <1>4, <1>5
    <3> HIDE DEF u, w
    <3>2. ~(w > th)
      BY <1>4, <1>8, <3>1
    <3> QED
      BY <3>2 DEF w
  <2> QED
    BY <1>6, <2>1
<1>9. s.low <= s.high
  <2>1. PICK p \in Places(x) : TRUE
    BY <1>1 DEF AreSteps
  <2> DEFINE u == AtPlace(x, p)
  <2>2. u \in Int /\ s.low <= u /\ u <= s.high
    BY <1>4
  <2> HIDE DEF u
  <2> QED
    BY <1>4, <2>2
<1> QED
  BY <1>4, <1>6, <1>7, <1>8, <1>9 DEF DecidedBy, x, y, s, v

(* What stream returns. *)
CountOfKey(objects, keys, th) ==
  [k \in keys |-> IF k \in DOMAIN objects THEN Above(objects[k], th) ELSE 0]
LEMMA StreamIs ==
  ASSUME NEW objects, NEW keys, NEW th, NEW ok \in BOOLEAN,
         NEW n, n = SumOf(CountOfKey(objects, keys, th), keys)
  PROVE  /\ stream(objects, keys, th, ok).found <=> keys \subseteq DOMAIN objects \/ ok
         /\ stream(objects, keys, th, ok).found => stream(objects, keys, th, ok) = Counted(n)
<1>1. stream(objects, keys, th, ok)
        = IF keys \subseteq DOMAIN objects \/ ok THEN Counted(n) ELSE FileNotFound
  BY DEF stream, SumOf, CountOfKey
<1>2. Counted(n).found = TRUE /\ FileNotFound.found = FALSE
  BY DEF Counted, FileNotFound
<1> QED
  BY <1>1, <1>2, Zenon

(* chunk_zm: an answer is right; without errors there always is one. *)
LEMMA ChunkQueryRight ==
  ASSUME NEW a, NEW b, NEW chunk, Cuts(a, chunk), NEW eps \in Nat, AreNear(a, b, eps),
         NEW th \in Int,
         NEW stats, stats = [c \in Grid(a, chunk) |-> StatsOf(Chunk(a, chunk, c))],
         NEW answer, answer = ChunkQuery(stats, StoredObjects(a, b, chunk), chunk, eps, th)
  PROVE  /\ answer.found => answer = Counted(Above(b, th))
         /\ eps = 0 => answer.found
<1> DEFINE G == Grid(a, chunk)
           objects == StoredObjects(a, b, chunk)
           In == InChunks(stats, eps, th)
           Maybe == MaybeChunks(stats, eps, th)
           v == chunk[1] * chunk[2]
           F == [c \in G |-> Above(Chunk(b, chunk, c), th)]
           one == CountOfKey(objects, Maybe, th)
           n == SumOf(one, Maybe)
           read == stream(objects, Maybe, th, FALSE)
<1>1. /\ In = {c \in G : stats[c].low - eps > th}
      /\ Maybe = {c \in G : stats[c].low - eps <= th /\ stats[c].high + eps > th}
  BY DEF InChunks, MaybeChunks
<1>2. v \in Int
  BY DEF Cuts, IsCut
<1>3. IsFiniteSet(G) /\ SumOf(F, G) = Above(b, th)
  <2>1. Cuts(b, chunk) /\ Grid(b, chunk) = G
    BY NearChunks
  <2>2. \A c \in G : F[c] = Above(Chunk(b, chunk, c), th)
    OBVIOUS
  <2> HIDE DEF F, G
  <2> QED
    BY <2>1, <2>2, AboveByChunks
<1>4. ASSUME NEW c \in G
      PROVE  /\ stats[c].low \in Int /\ stats[c].high \in Int /\ F[c] \in Int
             /\ stats[c].low <= stats[c].high
             /\ stats[c].low - eps > th => F[c] = v
             /\ stats[c].high + eps <= th => F[c] = 0
             /\ IsFill(Chunk(a, chunk, c)) => stats[c].low = Fill /\ stats[c].high = Fill
  <2>1. stats[c] = StatsOf(Chunk(a, chunk, c)) /\ F[c] = Above(Chunk(b, chunk, c), th)
    OBVIOUS
  <2> HIDE DEF F
  <2>2. /\ DecidedBy(stats[c], F[c], chunk[1] * chunk[2], eps, th)
        /\ IsFill(Chunk(a, chunk, c)) => stats[c].low = Fill /\ stats[c].high = Fill
    BY <2>1, ChunkBounded
  <2> QED
    BY <2>2 DEF DecidedBy
<1>5. DOMAIN objects = Kept(a, chunk) /\ \A c \in Kept(a, chunk) : objects[c] = Chunk(b, chunk, c)
  BY DEF StoredObjects
<1> HIDE DEF G, objects, In, Maybe, v, F
<1>6. /\ read.found <=> Maybe \subseteq DOMAIN objects
      /\ read.found => read = Counted(n)
  <2>1. n = SumOf(CountOfKey(objects, Maybe, th), Maybe)
    OBVIOUS
  <2> HIDE DEF n
  <2>2. FALSE \in BOOLEAN
    OBVIOUS
  <2> QED
    BY <2>1, <2>2, StreamIs
<1>7. /\ IsFiniteSet(In) /\ IsFiniteSet(Maybe) /\ Cardinality(In) \in Nat /\ SumOf(F, Maybe) \in Int
      /\ SumOf(F, G) = v * Cardinality(In) + SumOf(F, Maybe)
  <2>1. In \in SUBSET G /\ Maybe \in SUBSET G /\ Integers(F, G)
    BY <1>1, <1>4 DEF Integers
  <2>2. In \cap Maybe = {} /\ \A c \in In : F[c] = v
    <3>1. \A c \in In : c \in G /\ stats[c].low - eps > th
      BY <1>1
    <3>2. \A c \in Maybe : c \in G /\ stats[c].low - eps <= th
      BY <1>1
    <3>3. \A c \in G : ~(stats[c].low - eps > th /\ stats[c].low - eps <= th)
      BY <1>4
    <3> QED
      BY <1>4, <3>1, <3>2, <3>3
  <2>3. \A c \in G : c \notin In /\ c \notin Maybe => F[c] = 0
    <3> SUFFICES ASSUME NEW c \in G, c \notin In, c \notin Maybe PROVE F[c] = 0
      OBVIOUS
    <3>1. ~(stats[c].low - eps > th) /\ ~(stats[c].low - eps <= th /\ stats[c].high + eps > th)
      BY <1>1
    <3>2. stats[c].high + eps <= th
      BY <1>4, <3>1
    <3> QED
      BY <1>4, <3>2
  <2>4. DividesCounts(F, G, In, Maybe, v)
    BY <2>2, <2>3 DEF DividesCounts
  <2>5. CountsApart(F, G, In, Maybe, v)
    BY <1>2, <1>3, <2>1, <2>4, CountedInParts
  <2> QED
    BY <2>5 DEF CountsApart
<1>8. ASSUME Maybe \subseteq DOMAIN objects PROVE n = SumOf(F, Maybe)
  <2>1. \A k \in Maybe : one[k] = F[k]
    <3> SUFFICES ASSUME NEW k \in Maybe PROVE one[k] = F[k]
      OBVIOUS
    <3>1. k \in G /\ k \in Kept(a, chunk)
      BY <1>1, <1>5, <1>8
    <3>2. one[k] = Above(objects[k], th)
      BY <1>8 DEF CountOfKey
    <3> QED
      BY <1>5, <3>1, <3>2 DEF F
  <2>2. Integers(F, Maybe)
    BY <1>1, <1>4 DEF Integers
  <2> HIDE DEF one
  <2> QED
    BY <1>7, <2>1, <2>2, SumSame
<1>9. answer = IF read.found THEN Counted(Cardinality(In) * chunk[1] * chunk[2] + read.count) ELSE read
  BY DEF ChunkQuery, CountedWith, In, Maybe, objects
<1> HIDE DEF n, read
<1>10. ASSUME read.found PROVE answer = Counted(Above(b, th))
  <2>1. read.count = n /\ n = SumOf(F, Maybe)
    BY <1>6, <1>8, <1>10 DEF Counted
  <2>2. Cardinality(In) * chunk[1] * chunk[2] = v * Cardinality(In)
    <3>1. chunk[1] \in Nat /\ chunk[2] \in Nat
      BY DEF Cuts, IsCut
    <3> QED
      BY <1>7, <3>1 DEF v
  <2>3. Cardinality(In) * chunk[1] * chunk[2] + read.count = Above(b, th)
    BY <1>3, <1>7, <2>1, <2>2, Zenon
  <2> QED
    BY <1>9, <1>10, <2>3, Zenon
<1>11. answer.found <=> read.found
  <2>1. Counted(Cardinality(In) * chunk[1] * chunk[2] + read.count).found = TRUE
    BY DEF Counted
  <2> QED
    BY <1>9, <2>1, Zenon
<1>12. ASSUME eps = 0 PROVE read.found
  <2>1. ASSUME NEW c \in Maybe PROVE c \in DOMAIN objects
    <3>1. c \in G /\ stats[c].low - eps <= th /\ stats[c].high + eps > th
      BY <1>1
    <3>2. stats[c].low # stats[c].high
      BY <1>4, <1>12, <3>1
    <3>3. ~IsFill(Chunk(a, chunk, c))
      BY <1>4, <3>1, <3>2
    <3> QED
      BY <1>5, <3>1, <3>3 DEF Kept, G
  <2> QED
    BY <1>6, <2>1
<1> QED
  BY <1>10, <1>11, <1>12

(* An array is near itself. *)
LEMMA NearItself ==
  ASSUME NEW a, AreSteps(a)
  PROVE  AreNear(a, a, 0)
<1>1. \A p \in Places(a) : AtPlace(a, p) \in Int
  BY StatsBound
<1>2. \A x \in Int : x - x \in -0 .. 0
  OBVIOUS
<1> QED
  BY <1>1, <1>2 DEF AreNear

(* full_scan: an answer is right, and there is one if no fill value counts. *)
LEMMA ScanRight ==
  ASSUME NEW a, NEW chunk, Cuts(a, chunk), NEW th \in Int,
         NEW answer, answer = full_scan(a, a, chunk, th)
  PROVE  /\ answer.found => answer = Counted(Above(a, th))
         /\ Fill <= th => answer.found
<1> DEFINE G == Grid(a, chunk)
           objects == StoredObjects(a, a, chunk)
           one == CountOfKey(objects, G, th)
           ok == Fill <= th
           F == [c \in G |-> Above(Chunk(a, chunk, c), th)]
           n == SumOf(one, G)
<1>1. answer = stream(objects, G, th, ok)
  BY DEF full_scan
<1>2. ok \in BOOLEAN /\ Fill \in Int
  BY ScansAssumption
<1>3. /\ answer.found <=> G \subseteq DOMAIN objects \/ ok
      /\ answer.found => answer = Counted(n)
  <2>1. n = SumOf(CountOfKey(objects, G, th), G)
    OBVIOUS
  <2> HIDE DEF n, objects, G, ok
  <2> QED
    BY <1>1, <1>2, <2>1, StreamIs
<1>4. IsFiniteSet(G) /\ SumOf(F, G) = Above(a, th)
  <2>1. \A c \in G : F[c] = Above(Chunk(a, chunk, c), th)
    OBVIOUS
  <2> HIDE DEF F
  <2> QED
    BY <2>1, AboveByChunks
<1>5. AreNear(a, a, 0) /\ 0 \in Nat
  BY NearItself DEF Cuts
<1>6. ASSUME NEW c \in G
      PROVE  F[c] \in Int /\ (IsFill(Chunk(a, chunk, c)) /\ ok => F[c] = 0)
  <2>1. F[c] = Above(Chunk(a, chunk, c), th)
    OBVIOUS
  <2> HIDE DEF F
  <2>2. /\ DecidedBy(StatsOf(Chunk(a, chunk, c)), F[c], chunk[1] * chunk[2], 0, th)
        /\ IsFill(Chunk(a, chunk, c)) =>
             StatsOf(Chunk(a, chunk, c)).low = Fill /\ StatsOf(Chunk(a, chunk, c)).high = Fill
    BY <1>5, <2>1, ChunkBounded
  <2> DEFINE s == StatsOf(Chunk(a, chunk, c))
  <2>3. s.high \in Int /\ F[c] \in Int /\ (s.high + 0 <= th => F[c] = 0)
    BY <2>2 DEF DecidedBy
  <2>4. IsFill(Chunk(a, chunk, c)) => s.high = Fill
    BY <2>2
  <2> HIDE DEF s
  <2> QED
    BY <2>3, <2>4
<1>7. DOMAIN objects = Kept(a, chunk) /\ \A c \in Kept(a, chunk) : objects[c] = Chunk(a, chunk, c)
  BY DEF StoredObjects
<1>8. Kept(a, chunk) = {c \in G : ~IsFill(Chunk(a, chunk, c))}
  BY DEF Kept
<1> HIDE DEF objects, G, ok
<1>9. ASSUME answer.found PROVE n = SumOf(F, G)
  <2>1. ASSUME NEW k \in G PROVE one[k] = F[k]
    <3>1. one[k] = IF k \in DOMAIN objects THEN Above(objects[k], th) ELSE 0
      BY DEF CountOfKey
    <3>2. F[k] = Above(Chunk(a, chunk, k), th)
      OBVIOUS
    <3> HIDE DEF one, F
    <3>3. CASE k \in DOMAIN objects
      BY <1>7, <3>1, <3>2, <3>3
    <3>4. CASE k \notin DOMAIN objects
      <4>1. ok /\ IsFill(Chunk(a, chunk, k))
        BY <1>3, <1>7, <1>8, <1>9, <3>4
      <4> QED
        BY <1>6, <3>1, <3>4, <4>1
    <3> QED
      BY <3>3, <3>4
  <2>2. Integers(F, G)
    BY <1>6 DEF Integers
  <2> HIDE DEF one, F
  <2> QED
    BY <1>4, <2>1, <2>2, SumSame
<1> HIDE DEF n
<1>10. answer.found => answer = Counted(Above(a, th))
  BY <1>3, <1>4, <1>9
<1>11. Fill <= th => ok
  BY DEF ok
<1> QED
  BY <1>3, <1>10, <1>11

-----------------------------------------------------------------------------
(* Inner chunks in their shards *)

(* What is put one behind another in the order of rank does not overlap. *)
LEMMA LaidApart ==
  ASSUME NEW S, IsFiniteSet(S), NEW rank, Integers(rank, S),
         \A b, c \in S : rank[b] = rank[c] => b = c,
         NEW sizes, \A b \in S : sizes[b] \in Nat \ {0}, NEW b \in S, NEW c \in S, rank[b] < rank[c]
  PROVE  /\ IndexOf(S, rank, sizes)[b].off \in Nat /\ IndexOf(S, rank, sizes)[c].off \in Nat
         /\ IndexOf(S, rank, sizes)[b].size = sizes[b] /\ IndexOf(S, rank, sizes)[c].size = sizes[c]
         /\ IndexOf(S, rank, sizes)[b].off + sizes[b] <= IndexOf(S, rank, sizes)[c].off
<1> DEFINE B == {x \in S : rank[x] < rank[b]}
           C == {x \in S : rank[x] < rank[c]}
           D == B \cup {b}
           R == C \ D
           f == IndexOf(S, rank, sizes)
<1>1. /\ f[b].off = SumOf(sizes, B) /\ f[b].size = sizes[b]
      /\ f[c].off = SumOf(sizes, C) /\ f[c].size = sizes[c]
  BY DEF IndexOf, SumOf
<1>2. rank[b] \in Int /\ rank[c] \in Int /\ \A x \in S : rank[x] \in Int
  BY DEF Integers
<1>3. D \in SUBSET C /\ b \notin B /\ B \in SUBSET S /\ C \in SUBSET S
  BY <1>2
<1> HIDE DEF B, C, f
<1>4. C = D \cup R /\ D \cap R = {} /\ D \in SUBSET S /\ R \in SUBSET S
  BY <1>3
<1>5. IsFiniteSet(B) /\ IsFiniteSet(C) /\ IsFiniteSet(D) /\ IsFiniteSet(R)
  <2> HIDE DEF D, R
  <2> QED
    BY <1>3, <1>4, FS_Subset
<1>6. Integers(sizes, D) /\ Integers(sizes, D \cup R) /\ Integers(sizes, B \cup {b})
  BY <1>3, <1>4 DEF Integers
<1>7. SumOf(sizes, D) = sizes[b] + SumOf(sizes, B)
  BY <1>3, <1>5, <1>6, SumJoin
<1>8. SumOf(sizes, D \cup R) = SumOf(sizes, D) + SumOf(sizes, R)
  <2> HIDE DEF D, R
  <2> QED
    BY <1>4, <1>5, <1>6, SumOfTwo
<1>9. SumOf(sizes, B) \in Nat /\ SumOf(sizes, R) \in Nat /\ SumOf(sizes, C) \in Nat
  <2>1. /\ \A x \in B : sizes[x] \in Nat
        /\ \A x \in C : sizes[x] \in Nat
        /\ \A x \in R : sizes[x] \in Nat
    BY <1>3, <1>4
  <2> HIDE DEF R
  <2> QED
    BY <1>5, <2>1, NaturalSum
<1> HIDE DEF D, R
<1>10. sizes[b] \in Nat
  OBVIOUS
<1>11. SumOf(sizes, B) + sizes[b] <= SumOf(sizes, C)
  BY <1>4, <1>7, <1>8, <1>9, <1>10
<1> QED
  BY <1>1, <1>9, <1>11 DEF f

(* Shards that cut a length evenly into parts that inner chunks cut evenly. *)
TwoLevels(n, e, g, p, m) ==
  /\ n % e = 0 /\ p \in Nat \ {0} /\ g \in Nat /\ m \in Nat
  /\ \A k \in 0 .. g - 1, b \in 0 .. p - 1 : k * p + b \in 0 .. m - 1
  /\ \A k \in 0 .. g - 1, b \in 0 .. p - 1 :
       \A l \in 0 .. g - 1, c \in 0 .. p - 1 : k * p + b = l * p + c => k = l /\ b = c
  /\ \A x \in 0 .. m - 1 : \E k \in 0 .. g - 1, b \in 0 .. p - 1 : x = k * p + b
LEMMA CutTwice ==
  ASSUME NEW n \in Nat, NEW d \in Nat \ {0}, NEW e \in Nat \ {0}, n % d = 0, d % e = 0,
         NEW g, g = n \div d, NEW p, p = d \div e, NEW m, m = n \div e
  PROVE  TwoLevels(n, e, g, p, m)
<1>1. g \in Nat /\ n = g * d
  BY DivisionOf
<1>2. p \in Nat /\ d = p * e
  BY DivisionOf
<1>3. p \in Nat \ {0}
  BY <1>2
<1> DEFINE w == g * p
<1>4. w \in Nat
  BY <1>1, <1>2
<1>5. n = w * e
  <2>1. \A x, y, z \in Nat : x * (y * z) = (x * y) * z
    OBVIOUS
  <2>2. g * (p * e) = (g * p) * e
    BY <1>1, <1>2, <2>1
  <2> QED
    BY <1>1, <1>2, <2>2, Zenon
<1>6. n % e = 0 /\ m = w
  <2>1. 0 \in 0 .. e - 1 /\ w * e + 0 = n
    <3>1. w * e \in Int
      BY <1>4
    <3> HIDE DEF w
    <3> QED
      BY <1>5, <3>1
  <2>2. (w * e + 0) \div e = w /\ (w * e + 0) % e = 0
    <3> HIDE DEF w
    <3> QED
      BY <1>4, <2>1, Division
  <2> QED
    BY <2>1, <2>2, Zenon
<1>7. w % p = 0 /\ w \div p = g
  <2>1. 0 \in 0 .. p - 1 /\ g * p + 0 = w
    BY <1>3, <1>4
  <2>2. (g * p + 0) \div p = g /\ (g * p + 0) % p = 0
    BY <1>1, <1>3, <2>1, Division
  <2> HIDE DEF w
  <2> QED
    BY <2>1, <2>2, Zenon
<1> HIDE DEF w
<1>8. EvenlyCut(w, p, g)
  BY <1>3, <1>4, <1>7, EvenParts
<1>9. ASSUME NEW k \in 0 .. g - 1, NEW b \in 0 .. p - 1
      PROVE  /\ k * p + b \in 0 .. w - 1
             /\ (k * p + b) \div p = k /\ (k * p + b) % p = b
  <2>1. b + 1 \in 1 .. p /\ k * p \in Int
    BY <1>1, <1>3
  <2>2. k * p + (b + 1) \in 1 .. w
    BY <1>8, <2>1 DEF EvenlyCut
  <2> DEFINE u == k * p
  <2>3. u + b \in 0 .. w - 1
    <3> HIDE DEF u
    <3> QED
      BY <1>4, <2>1, <2>2 DEF u
  <2>4. (k * p + b) \div p = k /\ (k * p + b) % p = b
    <3>1. k \in Nat
      BY <1>1
    <3> QED
      BY <1>3, <3>1, Division
  <2> QED
    BY <2>3, <2>4
<1>10. ASSUME NEW x \in 0 .. w - 1 PROVE \E k \in 0 .. g - 1, b \in 0 .. p - 1 : x = k * p + b
  <2> DEFINE t == x + 1
             k == (t - 1) \div p
             r == ((t - 1) % p) + 1
  <2>1. t \in 1 .. w
    BY <1>4
  <2>2. k \in 0 .. g - 1 /\ r \in 1 .. p /\ t = k * p + r
    <3> HIDE DEF t
    <3> QED
      BY <1>8, <2>1 DEF EvenlyCut
  <2> DEFINE u == k * p
  <2>3. u \in Int
    BY <1>1, <1>3, <2>2
  <2>4. x = u + (r - 1) /\ r - 1 \in 0 .. p - 1
    <3>1. t = u + r
      BY <2>2
    <3> HIDE DEF u, k, r
    <3> QED
      BY <1>3, <2>2, <2>3, <3>1
  <2> HIDE DEF k, r, t
  <2> QED
    BY <2>2, <2>4
<1>11. ASSUME NEW k \in 0 .. g - 1, NEW b \in 0 .. p - 1,
              NEW l \in 0 .. g - 1, NEW c \in 0 .. p - 1, k * p + b = l * p + c
       PROVE  k = l /\ b = c
  <2>1. (k * p + b) \div p = k /\ (k * p + b) % p = b
    BY <1>9
  <2>2. (l * p + c) \div p = l /\ (l * p + c) % p = c
    BY <1>9
  <2> QED
    BY <1>11, <2>1, <2>2, Zenon
<1>12. TwoLevels(n, e, g, p, w)
  <2>1. \A k \in 0 .. g - 1, b \in 0 .. p - 1 : k * p + b \in 0 .. w - 1
    BY <1>9
  <2>2. \A k \in 0 .. g - 1, b \in 0 .. p - 1 :
          \A l \in 0 .. g - 1, c \in 0 .. p - 1 : k * p + b = l * p + c => k = l /\ b = c
    BY <1>11
  <2>3. \A x \in 0 .. w - 1 : \E k \in 0 .. g - 1, b \in 0 .. p - 1 : x = k * p + b
    BY <1>10
  <2> QED
    BY <1>1, <1>3, <1>4, <1>6, <2>1, <2>2, <2>3, Zenon DEF TwoLevels
<1> QED
  BY <1>6, <1>12, Zenon

(* The inner chunks of all shards are the chunks of the array. *)
IsInnerGrid(a, shard, inner, per, P, h) ==
  /\ Cuts(a, inner) /\ h \in Bijection(P, Grid(a, inner))
  /\ \A e \in P : h[e] = InnerChunk(per, e[1], e[2]) /\ h[e] \in Grid(a, inner)
  /\ Grid(a, shard)
       = (0 .. (Len(a) \div shard[1]) - 1) \X (0 .. (Len(a[1]) \div shard[2]) - 1)
  /\ Len(a) \div shard[1] \in Nat /\ Len(a[1]) \div shard[2] \in Nat
  /\ per[1] \in Nat \ {0} /\ per[2] \in Nat \ {0}
LEMMA InnerGrid ==
  ASSUME NEW a, NEW shard, NEW inner, Cuts(a, shard), IsCut(shard[1], shard[2], inner),
         NEW per, per = ShardGrid(shard, inner),
         NEW P, P = Grid(a, shard) \X InShard(per),
         NEW h, h = [e \in P |-> InnerChunk(per, e[1], e[2])]
  PROVE  IsInnerGrid(a, shard, inner, per, P, h)
<1> DEFINE n1 == Len(a)
           n2 == Len(a[1])
           g1 == n1 \div shard[1]
           g2 == n2 \div shard[2]
           m1 == n1 \div inner[1]
           m2 == n2 \div inner[2]
<1>1. AreSteps(a) /\ n1 \in Nat /\ n2 \in Nat
  BY StepsAre DEF Cuts
<1>2. /\ shard[1] \in Nat \ {0} /\ shard[2] \in Nat \ {0} /\ n1 % shard[1] = 0 /\ n2 % shard[2] = 0
      /\ inner \in (Nat \ {0}) \X (Nat \ {0}) /\ inner[1] \in Nat \ {0} /\ inner[2] \in Nat \ {0}
      /\ shard[1] % inner[1] = 0 /\ shard[2] % inner[2] = 0
  BY DEF Cuts, IsCut
<1>3. per[1] = shard[1] \div inner[1] /\ per[2] = shard[2] \div inner[2]
  BY DEF ShardGrid
<1>4. /\ Grid(a, shard) = (0 .. g1 - 1) \X (0 .. g2 - 1)
      /\ Grid(a, inner) = (0 .. m1 - 1) \X (0 .. m2 - 1)
      /\ InShard(per) = (0 .. per[1] - 1) \X (0 .. per[2] - 1)
  BY DEF Grid, InShard
<1> HIDE DEF n1, n2, g1, g2, m1, m2
<1>5. TwoLevels(n1, inner[1], g1, per[1], m1)
  BY <1>1, <1>2, <1>3, CutTwice DEF g1, m1
<1>6. TwoLevels(n2, inner[2], g2, per[2], m2)
  BY <1>1, <1>2, <1>3, CutTwice DEF g2, m2
<1>7. Cuts(a, inner)
  BY <1>1, <1>2, <1>5, <1>6 DEF Cuts, IsCut, TwoLevels, n1, n2
<1>8. ASSUME NEW e \in P
      PROVE  /\ e = <<e[1], e[2]>> /\ e[1] = <<e[1][1], e[1][2]>> /\ e[2] = <<e[2][1], e[2][2]>>
             /\ e[1][1] \in 0 .. g1 - 1 /\ e[1][2] \in 0 .. g2 - 1
             /\ e[2][1] \in 0 .. per[1] - 1 /\ e[2][2] \in 0 .. per[2] - 1
             /\ h[e] = <<e[1][1] * per[1] + e[2][1], e[1][2] * per[2] + e[2][2]>>
             /\ h[e] \in Grid(a, inner)
  <2>1. e[1] \in Grid(a, shard) /\ e[2] \in InShard(per) /\ e = <<e[1], e[2]>>
    OBVIOUS
  <2>2. /\ e[1] = <<e[1][1], e[1][2]>> /\ e[2] = <<e[2][1], e[2][2]>>
        /\ e[1][1] \in 0 .. g1 - 1 /\ e[1][2] \in 0 .. g2 - 1
        /\ e[2][1] \in 0 .. per[1] - 1 /\ e[2][2] \in 0 .. per[2] - 1
    BY <1>4, <2>1
  <2>3. h[e] = <<e[1][1] * per[1] + e[2][1], e[1][2] * per[2] + e[2][2]>>
    BY DEF InnerChunk
  <2>4. e[1][1] * per[1] + e[2][1] \in 0 .. m1 - 1
    BY <1>5, <2>2 DEF TwoLevels
  <2>5. e[1][2] * per[2] + e[2][2] \in 0 .. m2 - 1
    BY <1>6, <2>2 DEF TwoLevels
  <2>6. h[e] \in Grid(a, inner)
    BY <1>4, <2>3, <2>4, <2>5
  <2> QED
    BY <2>1, <2>2, <2>3, <2>6
<1>9. ASSUME NEW e \in P, NEW x \in P, h[e] = h[x] PROVE e = x
  <2>1. e[1][1] * per[1] + e[2][1] = x[1][1] * per[1] + x[2][1]
    BY <1>8, <1>9
  <2>2. e[1][2] * per[2] + e[2][2] = x[1][2] * per[2] + x[2][2]
    BY <1>8, <1>9
  <2>3. e[1][1] \in 0 .. g1 - 1 /\ x[1][1] \in 0 .. g1 - 1
        /\ e[2][1] \in 0 .. per[1] - 1 /\ x[2][1] \in 0 .. per[1] - 1
    BY <1>8
  <2>4. e[1][2] \in 0 .. g2 - 1 /\ x[1][2] \in 0 .. g2 - 1
        /\ e[2][2] \in 0 .. per[2] - 1 /\ x[2][2] \in 0 .. per[2] - 1
    BY <1>8
  <2>5. e[1][1] = x[1][1] /\ e[2][1] = x[2][1]
    <3>1. \A k \in 0 .. g1 - 1, b \in 0 .. per[1] - 1 :
            \A l \in 0 .. g1 - 1, c \in 0 .. per[1] - 1 :
              k * per[1] + b = l * per[1] + c => k = l /\ b = c
      BY <1>5 DEF TwoLevels
    <3> QED
      BY <2>1, <2>3, <3>1
  <2>6. e[1][2] = x[1][2] /\ e[2][2] = x[2][2]
    <3>1. \A k \in 0 .. g2 - 1, b \in 0 .. per[2] - 1 :
            \A l \in 0 .. g2 - 1, c \in 0 .. per[2] - 1 :
              k * per[2] + b = l * per[2] + c => k = l /\ b = c
      BY <1>6 DEF TwoLevels
    <3> QED
      BY <2>2, <2>4, <3>1
  <2>7. e = <<e[1], e[2]>> /\ e[1] = <<e[1][1], e[1][2]>> /\ e[2] = <<e[2][1], e[2][2]>>
    BY <1>8
  <2>8. x = <<x[1], x[2]>> /\ x[1] = <<x[1][1], x[1][2]>> /\ x[2] = <<x[2][1], x[2][2]>>
    BY <1>8
  <2>9. e[1] = x[1] /\ e[2] = x[2]
    BY <2>5, <2>6, <2>7, <2>8, Zenon
  <2> QED
    BY <2>7, <2>8, <2>9, Zenon
<1>10. ASSUME NEW c \in Grid(a, inner) PROVE \E e \in P : h[e] = c
  <2>1. c = <<c[1], c[2]>> /\ c[1] \in 0 .. m1 - 1 /\ c[2] \in 0 .. m2 - 1
    BY <1>4
  <2>2. \E k \in 0 .. g1 - 1, b \in 0 .. per[1] - 1 : c[1] = k * per[1] + b
    BY <1>5, <2>1 DEF TwoLevels
  <2>3. \E k \in 0 .. g2 - 1, b \in 0 .. per[2] - 1 : c[2] = k * per[2] + b
    BY <1>6, <2>1 DEF TwoLevels
  <2>4. PICK k1 \in 0 .. g1 - 1, b1 \in 0 .. per[1] - 1 : c[1] = k1 * per[1] + b1
    BY <2>2
  <2>5. PICK k2 \in 0 .. g2 - 1, b2 \in 0 .. per[2] - 1 : c[2] = k2 * per[2] + b2
    BY <2>3
  <2> DEFINE e == <<<<k1, k2>>, <<b1, b2>>>>
  <2>6. e \in P
    BY <1>4, <2>4, <2>5
  <2>7. e[1][1] = k1 /\ e[1][2] = k2 /\ e[2][1] = b1 /\ e[2][2] = b2
    OBVIOUS
  <2> HIDE DEF e
  <2>8. h[e] = c
    BY <1>8, <2>1, <2>4, <2>5, <2>6, <2>7, Zenon
  <2> QED
    BY <2>6, <2>8
<1>11. h \in Bijection(P, Grid(a, inner))
  <2>1. h \in [P -> Grid(a, inner)]
    BY <1>8
  <2> QED
    BY <1>9, <1>10, <2>1 DEF Bijection, Injection, Surjection, IsInjective
<1>12. per[1] \in Nat \ {0} /\ per[2] \in Nat \ {0} /\ g1 \in Nat /\ g2 \in Nat
  BY <1>5, <1>6 DEF TwoLevels
<1> QED
  BY <1>4, <1>7, <1>8, <1>11, <1>12 DEF IsInnerGrid, g1, g2, n1, n2

(* The inner chunks of all shards, what an index says of them, and how     *)
(* many of their values count.                                             *)
InnerAre(Q, a, shard, inner, per, th) ==
  /\ IsFiniteSet(Q)
  /\ \A e \in Q : /\ e.s \in Grid(a, shard) /\ e.b \in InShard(per)
                  /\ InnerChunk(per, e.s, e.b) \in Grid(a, inner)
                  /\ e.stats = StatsOf(Chunk(a, inner, InnerChunk(per, e.s, e.b)))
  /\ \A e, x \in Q : e.s = x.s /\ e.b = x.b => e = x
AreInnerCounts(V, Q, a, inner, per, th) ==
  \A e \in Q : V[e] = Above(Chunk(a, inner, InnerChunk(per, e.s, e.b)), th)
LEMMA InnerCounts ==
  ASSUME NEW a, NEW shard, NEW inner, Cuts(a, shard), IsCut(shard[1], shard[2], inner),
         NEW per, per = ShardGrid(shard, inner), NEW th \in Int,
         NEW stats, stats = [c \in Grid(a, inner) |-> StatsOf(Chunk(a, inner, c))],
         NEW index, DOMAIN index = Grid(a, shard),
         NEW Q, Q = InnerChunks(index, stats, per),
         NEW V, AreInnerCounts(V, Q, a, inner, per, th)
  PROVE  /\ InnerAre(Q, a, shard, inner, per, th)
         /\ Integers(V, Q) /\ SumOf(V, Q) = Above(a, th)
<1> DEFINE P == Grid(a, shard) \X InShard(per)
           h == [e \in P |-> InnerChunk(per, e[1], e[2])]
           G == Grid(a, inner)
           F == [c \in G |-> Above(Chunk(a, inner, c), th)]
           f == [e \in P |-> [s |-> e[1], b |-> e[2], stats |-> stats[h[e]]]]
           W == [e \in P |-> F[h[e]]]
           g1 == Len(a) \div shard[1]
           g2 == Len(a[1]) \div shard[2]
<1>1. /\ Cuts(a, inner) /\ h \in Bijection(P, G)
      /\ \A e \in P : h[e] = InnerChunk(per, e[1], e[2]) /\ h[e] \in G
      /\ Grid(a, shard) = (0 .. g1 - 1) \X (0 .. g2 - 1) /\ g1 \in Nat /\ g2 \in Nat
      /\ per[1] \in Nat \ {0} /\ per[2] \in Nat \ {0}
  <2>1. P = Grid(a, shard) \X InShard(per) /\ h = [e \in P |-> InnerChunk(per, e[1], e[2])]
    OBVIOUS
  <2> HIDE DEF P, h
  <2>2. IsInnerGrid(a, shard, inner, per, P, h)
    BY <2>1, InnerGrid
  <2> QED
    BY <2>2 DEF IsInnerGrid
<1>2. IsFiniteSet(G) /\ SumOf(F, G) = Above(a, th) /\ Integers(F, G)
  <2>1. \A c \in G : F[c] = Above(Chunk(a, inner, c), th)
    OBVIOUS
  <2>2. \A c \in G : F[c] \in Int
    <3> SUFFICES ASSUME NEW c \in G PROVE F[c] \in Int
      OBVIOUS
    <3>1. IsChunk(Chunk(a, inner, c), a, inner, c)
      BY <1>1, ChunkIs
    <3>2. Above(Chunk(a, inner, c), th) \in Nat
      BY <3>1, AboveAllOrNone DEF IsChunk
    <3> QED
      BY <3>2
  <2> HIDE DEF F, G
  <2>3. IsFiniteSet(G) /\ SumOf(F, G) = Above(a, th)
    BY <1>1, <2>1, AboveByChunks DEF G
  <2> QED
    BY <2>2, <2>3 DEF Integers
<1>3. IsFiniteSet(P)
  <2>1. 0 \in Int /\ g1 - 1 \in Int /\ g2 - 1 \in Int /\ per[1] - 1 \in Int /\ per[2] - 1 \in Int
    BY <1>1
  <2>2. /\ IsFiniteSet(0 .. g1 - 1) /\ IsFiniteSet(0 .. g2 - 1)
        /\ IsFiniteSet(0 .. per[1] - 1) /\ IsFiniteSet(0 .. per[2] - 1)
    <3> HIDE DEF g1, g2
    <3> QED
      BY <2>1, FS_Interval
  <2>3. IsFiniteSet(Grid(a, shard)) /\ IsFiniteSet(InShard(per))
    <3>1. InShard(per) = (0 .. per[1] - 1) \X (0 .. per[2] - 1)
      BY DEF InShard
    <3>2. Grid(a, shard) = (0 .. g1 - 1) \X (0 .. g2 - 1)
      BY <1>1
    <3> HIDE DEF g1, g2
    <3>3. IsFiniteSet((0 .. g1 - 1) \X (0 .. g2 - 1))
      BY <2>2, FS_Product
    <3>4. IsFiniteSet((0 .. per[1] - 1) \X (0 .. per[2] - 1))
      BY <2>2, FS_Product
    <3> QED
      BY <3>1, <3>2, <3>3, <3>4, Zenon
  <2> QED
    BY <2>3, FS_Product
<1>4. Q = {f[e] : e \in P}
  <2>1. Q = {[s |-> e[1], b |-> e[2], stats |-> stats[InnerChunk(per, e[1], e[2])]] : e \in P}
    BY DEF InnerChunks
  <2>2. \A e \in P : f[e] = [s |-> e[1], b |-> e[2], stats |-> stats[h[e]]]
    OBVIOUS
  <2>3. \A e \in P : h[e] = InnerChunk(per, e[1], e[2])
    BY <1>1
  <2> HIDE DEF f, P, h
  <2>4. \A e \in P :
          f[e] = [s |-> e[1], b |-> e[2], stats |-> stats[InnerChunk(per, e[1], e[2])]]
    BY <2>2, <2>3
  <2> DEFINE R(e) == [s |-> e[1], b |-> e[2], stats |-> stats[InnerChunk(per, e[1], e[2])]]
  <2>5. Q = {R(e) : e \in P} /\ \A e \in P : f[e] = R(e)
    BY <2>1, <2>4
  <2> HIDE DEF R
  <2> QED
    BY <2>5
<1>5. ASSUME NEW e \in P
      PROVE  /\ e = <<e[1], e[2]>> /\ e[1] \in Grid(a, shard) /\ e[2] \in InShard(per)
             /\ f[e].s = e[1] /\ f[e].b = e[2] /\ f[e].stats = StatsOf(Chunk(a, inner, h[e]))
             /\ h[e] = InnerChunk(per, e[1], e[2]) /\ h[e] \in G
             /\ W[e] = F[h[e]] /\ F[h[e]] = Above(Chunk(a, inner, h[e]), th)
  <2>1. h[e] = InnerChunk(per, e[1], e[2]) /\ h[e] \in G
    BY <1>1
  <2>2. stats[h[e]] = StatsOf(Chunk(a, inner, h[e])) /\ F[h[e]] = Above(Chunk(a, inner, h[e]), th)
    <3> HIDE DEF h
    <3> QED
      BY <2>1
  <2>3. /\ f[e].s = e[1] /\ f[e].b = e[2] /\ f[e].stats = stats[h[e]] /\ W[e] = F[h[e]]
        /\ e = <<e[1], e[2]>> /\ e[1] \in Grid(a, shard) /\ e[2] \in InShard(per)
    OBVIOUS
  <2> HIDE DEF h, f, W, F, G, P
  <2> QED
    BY <2>1, <2>2, <2>3
<1> HIDE DEF P, h, G, F, f, W
<1>6. f \in Bijection(P, Q)
  <2>1. f \in [P -> Q]
    BY <1>4 DEF f
  <2>2. \A e, x \in P : f[e] = f[x] => e = x
    <3> SUFFICES ASSUME NEW e \in P, NEW x \in P, f[e] = f[x] PROVE e = x
      OBVIOUS
    <3>1. e[1] = x[1] /\ e[2] = x[2]
      <4>1. f[e].s = e[1] /\ f[e].b = e[2] /\ f[x].s = x[1] /\ f[x].b = x[2]
        BY <1>5
      <4> QED
        BY <4>1
    <3> QED
      BY <1>5, <3>1, Zenon
  <2>3. \A q \in Q : \E e \in P : f[e] = q
    BY <1>4
  <2> QED
    BY <2>1, <2>2, <2>3 DEF Bijection, Injection, Surjection, IsInjective
<1>7. \A e \in P : f[e] \in Q /\ W[e] = V[f[e]]
  <2> SUFFICES ASSUME NEW e \in P PROVE f[e] \in Q /\ W[e] = V[f[e]]
    OBVIOUS
  <2>1. f[e] \in Q
    BY <1>4
  <2>2. V[f[e]] = Above(Chunk(a, inner, InnerChunk(per, f[e].s, f[e].b)), th)
    BY <2>1 DEF AreInnerCounts
  <2>3. InnerChunk(per, f[e].s, f[e].b) = h[e]
    BY <1>5, Zenon
  <2> QED
    BY <1>5, <2>1, <2>2, <2>3, Zenon
<1>8. ASSUME NEW q \in Q
      PROVE  /\ q.s \in Grid(a, shard) /\ q.b \in InShard(per)
             /\ InnerChunk(per, q.s, q.b) \in G
             /\ q.stats = StatsOf(Chunk(a, inner, InnerChunk(per, q.s, q.b)))
             /\ V[q] \in Int
             /\ \E e \in P : q = f[e] /\ e = <<q.s, q.b>>
  <2>1. PICK e \in P : q = f[e]
    BY <1>4
  <2>2. q.s = e[1] /\ q.b = e[2] /\ q.stats = StatsOf(Chunk(a, inner, h[e]))
    BY <1>5, <2>1
  <2>3. h[e] = InnerChunk(per, q.s, q.b)
    BY <1>5, <2>2, Zenon
  <2>4. V[q] = F[h[e]]
    BY <1>5, <1>7, <2>1
  <2>5. F[h[e]] \in Int
    BY <1>2, <1>5 DEF Integers
  <2>6. e = <<q.s, q.b>>
    BY <1>5, <2>2, Zenon
  <2>7. q.s \in Grid(a, shard) /\ q.b \in InShard(per)
    BY <1>5, <2>2, Zenon
  <2>8. InnerChunk(per, q.s, q.b) \in G
    BY <1>5, <2>3, Zenon
  <2>9. q.stats = StatsOf(Chunk(a, inner, InnerChunk(per, q.s, q.b)))
    BY <2>2, <2>3, Zenon
  <2> QED
    BY <2>1, <2>4, <2>5, <2>6, <2>7, <2>8, <2>9, Zenon
<1>9. Integers(V, Q)
  BY <1>8 DEF Integers
<1>10. IsFiniteSet(Q)
  BY <1>3, <1>6, AsMany
<1>11. SumOf(W, P) = SumOf(F, G)
  <2>1. \A e \in P : W[e] = F[h[e]]
    BY <1>5
  <2> QED
    BY <1>1, <1>2, <1>3, <2>1, SumMatched
<1>12. SumOf(W, P) = SumOf(V, Q)
  BY <1>3, <1>6, <1>7, <1>9, SumMatched
<1>13. \A e, x \in Q : e.s = x.s /\ e.b = x.b => e = x
  <2> SUFFICES ASSUME NEW e \in Q, NEW x \in Q, e.s = x.s, e.b = x.b PROVE e = x
    OBVIOUS
  <2>1. PICK y \in P : e = f[y] /\ y = <<e.s, e.b>>
    BY <1>8
  <2>2. PICK z \in P : x = f[z] /\ z = <<x.s, x.b>>
    BY <1>8
  <2> QED
    BY <2>1, <2>2, Zenon
<1> QED
  BY <1>2, <1>8, <1>9, <1>10, <1>11, <1>12, <1>13 DEF InnerAre, G

(* The inner chunks that have to be read are stored; the others count      *)
(* without a read.                                                         *)
AreStored(index, Q, a, inner, per) ==
  \A e \in Q : HasEntry(index, e) <=> ~IsFill(Chunk(a, inner, InnerChunk(per, e.s, e.b)))
CountsUnread(V, Q, M, index, inner, th) ==
  /\ M \in SUBSET Q /\ IsFiniteSet(M) /\ \A e \in M : HasEntry(index, e)
  /\ SumOf(V, Q) = CountUnread(index, Q, inner[1] * inner[2], th) + SumOf(V, M)
LEMMA InnerUnread ==
  ASSUME NEW a, NEW shard, NEW inner, Cuts(a, inner), NEW per, NEW th \in Int,
         NEW Q, InnerAre(Q, a, shard, inner, per, th),
         NEW V, AreInnerCounts(V, Q, a, inner, per, th), Integers(V, Q),
         NEW index, AreStored(index, Q, a, inner, per), NEW M, M = MaybeInner(Q, th)
  PROVE  CountsUnread(V, Q, M, index, inner, th)
<1> DEFINE In == InInner(Q, th)
           Maybe == MaybeInner(Q, th)
           v == inner[1] * inner[2]
           without == {e \in Maybe : ~HasEntry(index, e)}
<1>1. In = {e \in Q : e.stats.low > th}
      /\ Maybe = {e \in Q : e.stats.low <= th /\ e.stats.high > th}
  BY DEF InInner, MaybeInner
<1>2. v \in Int
  BY DEF Cuts, IsCut
<1>3. AreNear(a, a, 0) /\ 0 \in Nat
  BY NearItself DEF Cuts
<1>4. ASSUME NEW e \in Q
      PROVE  /\ e.stats.low \in Int /\ e.stats.high \in Int /\ V[e] \in Int
             /\ e.stats.low > th => V[e] = v
             /\ e.stats.high <= th => V[e] = 0
             /\ ~HasEntry(index, e) => e.stats.low = e.stats.high
  <2> DEFINE c == InnerChunk(per, e.s, e.b)
             s == StatsOf(Chunk(a, inner, c))
  <2>1. c \in Grid(a, inner) /\ e.stats = s
    BY DEF InnerAre
  <2>2. V[e] = Above(Chunk(a, inner, c), th)
    BY DEF AreInnerCounts
  <2>3. HasEntry(index, e) <=> ~IsFill(Chunk(a, inner, c))
    BY DEF AreStored
  <2> HIDE DEF c
  <2>4. /\ DecidedBy(s, Above(Chunk(a, inner, c), th), inner[1] * inner[2], 0, th)
        /\ IsFill(Chunk(a, inner, c)) => s.low = Fill /\ s.high = Fill
    BY <1>3, <2>1, ChunkBounded
  <2> HIDE DEF s
  <2>5. DecidedBy(s, V[e], v, 0, th)
    BY <2>2, <2>4, Zenon DEF v
  <2>6. /\ s.low \in Int /\ s.high \in Int /\ V[e] \in Int
        /\ s.low - 0 > th => V[e] = v
        /\ s.high + 0 <= th => V[e] = 0
    BY <2>5 DEF DecidedBy
  <2>7. /\ s.low > th => V[e] = v
        /\ s.high <= th => V[e] = 0
    BY <2>6
  <2> QED
    BY <2>1, <2>3, <2>4, <2>6, <2>7, Zenon
<1> HIDE DEF In, Maybe, v
<1>5. /\ IsFiniteSet(In) /\ IsFiniteSet(Maybe) /\ Cardinality(In) \in Nat
      /\ SumOf(V, Maybe) \in Int
      /\ SumOf(V, Q) = v * Cardinality(In) + SumOf(V, Maybe)
  <2>1. In \in SUBSET Q /\ Maybe \in SUBSET Q /\ IsFiniteSet(Q)
    BY <1>1 DEF InnerAre
  <2>2. In \cap Maybe = {}
    <3>1. \A e \in Q : ~(e.stats.low > th /\ e.stats.low <= th)
      BY <1>4
    <3> QED
      BY <1>1, <3>1
  <2>3. \A e \in In : V[e] = v
    BY <1>1, <1>4
  <2>4. \A e \in Q : e \notin In /\ e \notin Maybe => V[e] = 0
    <3> SUFFICES ASSUME NEW e \in Q, e \notin In, e \notin Maybe PROVE V[e] = 0
      OBVIOUS
    <3>1. ~(e.stats.low > th) /\ ~(e.stats.low <= th /\ e.stats.high > th)
      BY <1>1
    <3>2. e.stats.high <= th
      BY <1>4, <3>1
    <3> QED
      BY <1>4, <3>2
  <2>5. DividesCounts(V, Q, In, Maybe, v)
    BY <2>2, <2>3, <2>4 DEF DividesCounts
  <2>6. CountsApart(V, Q, In, Maybe, v)
    BY <1>2, <2>1, <2>5, CountedInParts
  <2> QED
    BY <2>6 DEF CountsApart
<1>6. ASSUME NEW e \in Maybe PROVE HasEntry(index, e)
  <2>1. e \in Q /\ e.stats.low <= th /\ e.stats.high > th
    BY <1>1
  <2>2. e.stats.low # e.stats.high
    BY <1>4, <2>1
  <2> QED
    BY <1>4, <2>1, <2>2
<1>7. Cardinality(without) = 0
  <2>1. without = {}
    BY <1>6
  <2> QED
    BY <2>1, FS_EmptySet
<1>8. CountUnread(index, Q, v, th) = v * Cardinality(In)
  <2>1. CountUnread(index, Q, v, th)
          = (Cardinality(In) + (IF Fill > th THEN Cardinality(without) ELSE 0)) * v
    BY DEF CountUnread, In, Maybe
  <2>2. (IF Fill > th THEN Cardinality(without) ELSE 0) = 0
    BY <1>7
  <2>3. CountUnread(index, Q, v, th) = (Cardinality(In) + 0) * v
    BY <2>1, <2>2, Zenon
  <2> QED
    BY <1>2, <1>5, <2>3
<1>9. Maybe \in SUBSET Q
  BY <1>1
<1>10. SumOf(V, Q) = CountUnread(index, Q, v, th) + SumOf(V, Maybe)
  BY <1>5, <1>8, Zenon
<1> QED
  BY <1>5, <1>6, <1>9, <1>10 DEF CountsUnread, Maybe, v

(* The entries of a shard's index: no two overlap. *)
EntriesApart(f, S) ==
  /\ DOMAIN f = S
  /\ \A b \in S : /\ f[b].off \in Nat /\ f[b].size \in Nat \ {0}
                  /\ f[b] = [off |-> f[b].off, size |-> f[b].size]
  /\ \A b, c \in S : \/ b = c
                     \/ f[b].off + f[b].size <= f[c].off
                     \/ f[c].off + f[c].size <= f[b].off
LEMMA EntriesAre ==
  ASSUME NEW S, IsFiniteSet(S), NEW per, S \subseteq InShard(per), NEW rank, NEW sizes,
         AreLaid(rank, sizes, per)
  PROVE  EntriesApart(IndexOf(S, rank, sizes), S)
<1> DEFINE f == IndexOf(S, rank, sizes)
           B(b) == {x \in S : rank[x] < rank[b]}
<1>1. Integers(rank, S) /\ (\A b \in S : sizes[b] \in Nat \ {0})
      /\ \A b, c \in S : rank[b] = rank[c] => b = c
  BY DEF AreLaid, Integers
<1>2. /\ f = [b \in S |-> [off |-> SumOf(sizes, B(b)), size |-> sizes[b]]]
  BY DEF IndexOf, SumOf
<1>3. ASSUME NEW b \in S
      PROVE  /\ f[b].off \in Nat /\ f[b].size = sizes[b]
             /\ f[b] = [off |-> f[b].off, size |-> f[b].size]
  <2>1. f[b] = [off |-> SumOf(sizes, B(b)), size |-> sizes[b]]
    BY <1>2
  <2>2. B(b) \in SUBSET S
    OBVIOUS
  <2> HIDE DEF B, f
  <2>3. IsFiniteSet(B(b)) /\ \A x \in B(b) : sizes[x] \in Nat
    <3>1. IsFiniteSet(B(b))
      BY <2>2, FS_Subset
    <3> QED
      BY <1>1, <2>2, <3>1
  <2> DEFINE D == B(b)
             w == SumOf(sizes, D)
  <2>4. w \in Nat
    <3>1. IsFiniteSet(D) /\ \A x \in D : sizes[x] \in Nat
      BY <2>3
    <3> HIDE DEF D
    <3> QED
      BY <3>1, NaturalSum
  <2>5. f[b] = [off |-> w, size |-> sizes[b]]
    BY <2>1
  <2> HIDE DEF w
  <2> QED
    BY <2>4, <2>5
<1>4. ASSUME NEW b \in S, NEW c \in S, rank[b] < rank[c]
      PROVE  f[b].off + f[b].size <= f[c].off
  <2>1. /\ f[b].off \in Nat /\ f[c].off \in Nat
        /\ f[b].size = sizes[b] /\ f[c].size = sizes[c]
        /\ f[b].off + sizes[b] <= f[c].off
    <3> HIDE DEF f, B
    <3> QED
      BY <1>1, <1>4, LaidApart DEF f
  <2> HIDE DEF f
  <2> QED
    BY <2>1, Zenon
<1>5. ASSUME NEW b \in S, NEW c \in S, b # c
      PROVE  f[b].off + f[b].size <= f[c].off \/ f[c].off + f[c].size <= f[b].off
  <2>1. rank[b] \in Int /\ rank[c] \in Int /\ rank[b] # rank[c]
    BY <1>1, <1>5 DEF Integers
  <2>2. rank[b] < rank[c] \/ rank[c] < rank[b]
    BY <2>1
  <2> HIDE DEF f
  <2> QED
    BY <1>4, <2>2
<1>6. DOMAIN f = S
  BY <1>2
<1> HIDE DEF f
<1> QED
  BY <1>1, <1>3, <1>5, <1>6, Zenon DEF EntriesApart, f

(* The items to read: one for each inner chunk, of its bytes. *)
IsItem(x, index, e) ==
  /\ x.s = e.s /\ x.shard \in Nat /\ x.off \in Nat /\ x.size \in Nat \ {0}
  /\ x = [shard |-> x.shard, s |-> x.s, off |-> x.off, size |-> x.size]
  /\ StoredAt(index[e.s], x.off, x.size) = {e.b}
AreApart(items) ==
  \A x, y \in items :
    x.shard = y.shard =>
      x.s = y.s /\ (x = y \/ x.off + x.size <= y.off \/ y.off + y.size <= x.off)
ItemsRead(items, M, it, index) ==
  /\ IsFiniteSet(items) /\ it \in Bijection(M, items) /\ AreApart(items)
  /\ \A e \in M : it[e] \in items /\ IsItem(it[e], index, e)
  /\ \A x \in items : \E e \in M : x = it[e]
OneEach(M) == \A e, x \in M : e.s = x.s /\ e.b = x.b => e = x
HaveEntries(M, index, a, shard) == \A e \in M : e.s \in Grid(a, shard) /\ HasEntry(index, e)
LEMMA ItemsAre ==
  ASSUME NEW a, NEW shard, NEW inner, Cuts(a, shard), NEW per, per = ShardGrid(shard, inner),
         per[1] \in Nat \ {0}, per[2] \in Nat \ {0},
         NEW rank, NEW sizes, AreLaid(rank, sizes, per),
         NEW index, index = shard_index(a, shard, inner, rank, sizes),
         NEW M, IsFiniteSet(M), HaveEntries(M, index, a, shard), OneEach(M),
         NEW cols, cols = Len(a[1]) \div shard[2],
         NEW it, it = [e \in M |-> Item(index, e, cols)]
  PROVE  ItemsRead(Items(index, M, cols), M, it, index)
<1> DEFINE St(s) == {b \in InShard(per) : ~IsFill(Chunk(a, inner, InnerChunk(per, s, b)))}
           items == Items(index, M, cols)
           rows == Len(a) \div shard[1]
<1>1. index = [s \in Grid(a, shard) |-> IndexOf(St(s), rank, sizes)]
  BY DEF shard_index
<1>2. ASSUME NEW s \in Grid(a, shard) PROVE EntriesApart(index[s], St(s))
  <2>1. index[s] = IndexOf(St(s), rank, sizes)
    BY <1>1
  <2>2. St(s) \in SUBSET InShard(per)
    OBVIOUS
  <2>3. IsFiniteSet(InShard(per))
    <3>1. 0 \in Int /\ per[1] - 1 \in Int /\ per[2] - 1 \in Int
      OBVIOUS
    <3>2. IsFiniteSet(0 .. per[1] - 1) /\ IsFiniteSet(0 .. per[2] - 1)
      BY <3>1, FS_Interval
    <3> QED
      BY <3>2, FS_Product DEF InShard
  <2> HIDE DEF St
  <2>4. IsFiniteSet(St(s))
    BY <2>2, <2>3, FS_Subset
  <2>5. EntriesApart(IndexOf(St(s), rank, sizes), St(s))
    BY <2>2, <2>4, EntriesAre
  <2> QED
    BY <2>1, <2>5
<1>3. /\ Grid(a, shard) = (0 .. rows - 1) \X (0 .. cols - 1)
      /\ rows \in Nat /\ cols \in Nat
  <2>1. Len(a) \in Nat /\ Len(a[1]) \in Nat
    BY StepsAre DEF Cuts
  <2>2. shard[1] \in Nat \ {0} /\ shard[2] \in Nat \ {0}
    BY DEF Cuts, IsCut
  <2> QED
    BY <2>1, <2>2, DivisionOf DEF Grid
<1> HIDE DEF St, rows
<1>4. ASSUME NEW e \in M
      PROVE  /\ e.s \in Grid(a, shard) /\ e.b \in St(e.s)
             /\ EntriesApart(index[e.s], St(e.s))
  <2>1. e.s \in Grid(a, shard) /\ e.b \in DOMAIN index[e.s]
    BY DEF HaveEntries, HasEntry
  <2>2. EntriesApart(index[e.s], St(e.s))
    BY <1>2, <2>1
  <2> QED
    BY <2>1, <2>2 DEF EntriesApart
<1>5. ASSUME NEW e \in M
      PROVE  /\ it[e].s = e.s /\ it[e].shard = e.s[1] * cols + e.s[2]
             /\ it[e].off = index[e.s][e.b].off /\ it[e].size = index[e.s][e.b].size
             /\ it[e] = [shard |-> it[e].shard, s |-> it[e].s, off |-> it[e].off,
                         size |-> it[e].size]
  <2>1. it[e] = [shard |-> e.s[1] * cols + e.s[2], s |-> e.s,
                 off |-> index[e.s][e.b].off, size |-> index[e.s][e.b].size]
    BY DEF Item
  <2> QED
    BY <2>1
<1>6. ASSUME NEW e \in M
      PROVE  /\ e.s = <<e.s[1], e.s[2]>> /\ e.s[1] \in Nat /\ e.s[2] \in 0 .. cols - 1
             /\ it[e].shard \in Nat
             /\ it[e].shard \div cols = e.s[1] /\ it[e].shard % cols = e.s[2]
  <2> DEFINE i == e.s[1]
             j == e.s[2]
             n == i * cols + j
  <2>1. e.s = <<i, j>> /\ i \in 0 .. rows - 1 /\ j \in 0 .. cols - 1
    BY <1>3, <1>4
  <2>2. it[e].shard = n
    BY <1>5
  <2>3. i \in Nat /\ cols \in Nat \ {0}
    BY <1>3, <2>1
  <2> HIDE DEF i, j
  <2>4. n \div cols = i /\ n % cols = j
    <3>1. (i * cols + j) \div cols = i /\ (i * cols + j) % cols = j
      BY ONLY <2>1, <2>3, Division
    <3> QED
      BY <3>1
  <2>5. n \in Nat
    BY <2>1, <2>3
  <2> HIDE DEF n
  <2> QED
    BY <2>1, <2>2, <2>3, <2>4, <2>5 DEF i, j
<1>7. ASSUME NEW e \in M, NEW x \in M, it[e].shard = it[x].shard PROVE e.s = x.s
  BY <1>6, <1>7, Zenon
<1>8. ASSUME NEW e \in M PROVE IsItem(it[e], index, e)
  <2> DEFINE f == index[e.s]
             b == e.b
             S == St(e.s)
  <2>1. EntriesApart(f, S) /\ b \in S /\ it[e].off = f[b].off /\ it[e].size = f[b].size
    BY <1>4, <1>5
  <2> HIDE DEF f, b, S
  <2>2. /\ DOMAIN f = S /\ f[b].off \in Nat /\ f[b].size \in Nat \ {0}
        /\ \A c \in S : f[c] = [off |-> f[c].off, size |-> f[c].size]
        /\ \A c \in S : f[c].off \in Nat /\ f[c].size \in Nat \ {0}
        /\ \A c \in S : c = b \/ f[c].off + f[c].size <= f[b].off \/ f[b].off + f[b].size <= f[c].off
    BY <2>1 DEF EntriesApart
  <2>3. StoredAt(f, it[e].off, it[e].size) = {b}
    <3> DEFINE y == [off |-> it[e].off, size |-> it[e].size]
    <3>1. f[b] = y
      BY <2>1, <2>2, Zenon
    <3>2. ASSUME NEW c \in S, f[c] = y PROVE c = b
      <4>1. f[c].off = f[b].off /\ f[c].size = f[b].size
        BY <3>1, <3>2, Zenon
      <4>2. /\ f[b].off \in Nat /\ f[b].size \in Nat \ {0}
            /\ c = b \/ f[c].off + f[c].size <= f[b].off \/ f[b].off + f[b].size <= f[c].off
        BY <2>2
      <4> QED
        BY <4>1, <4>2
    <3>3. StoredAt(f, it[e].off, it[e].size) = {c \in S : f[c] = y}
      BY <2>2 DEF StoredAt
    <3> HIDE DEF y
    <3> QED
      BY <2>1, <3>1, <3>2, <3>3
  <2> QED
    BY <1>5, <1>6, <2>1, <2>2, <2>3 DEF IsItem, f, b
<1>9. ASSUME NEW e \in M, NEW x \in M, it[e].shard = it[x].shard, e # x
      PROVE  it[e].off + it[e].size <= it[x].off \/ it[x].off + it[x].size <= it[e].off
  <2> DEFINE f == index[e.s]
             S == St(e.s)
  <2>1. x.s = e.s /\ e.b # x.b
    BY <1>7, <1>9 DEF OneEach
  <2>2. EntriesApart(f, S) /\ e.b \in S /\ x.b \in S
    BY <1>4, <2>1
  <2>3. it[e].off = f[e.b].off /\ it[e].size = f[e.b].size
        /\ it[x].off = f[x.b].off /\ it[x].size = f[x.b].size
    <3>1. /\ it[e].off = index[e.s][e.b].off /\ it[e].size = index[e.s][e.b].size
          /\ it[x].off = index[x.s][x.b].off /\ it[x].size = index[x.s][x.b].size
      BY <1>5
    <3>2. index[x.s] = f
      BY <2>1
    <3> QED
      BY <3>1, <3>2
  <2> HIDE DEF f, S
  <2>4. f[e.b].off + f[e.b].size <= f[x.b].off \/ f[x.b].off + f[x.b].size <= f[e.b].off
    BY <2>1, <2>2 DEF EntriesApart
  <2> QED
    BY <2>3, <2>4, Zenon
<1>10. items = {it[e] : e \in M}
  <2>1. {m \in M : HasEntry(index, m)} = M
    BY DEF HaveEntries
  <2>2. items = {Item(index, e, cols) : e \in M}
    BY <2>1, Zenon DEF Items
  <2>3. \A e \in M : it[e] = Item(index, e, cols)
    OBVIOUS
  <2> QED
    BY <2>2, <2>3
<1> HIDE DEF items
<1>11. it \in Bijection(M, items)
  <2>1. it \in [M -> items]
    BY <1>10
  <2>2. \A e, x \in M : it[e] = it[x] => e = x
    <3> SUFFICES ASSUME NEW e \in M, NEW x \in M, it[e] = it[x], e # x PROVE FALSE
      OBVIOUS
    <3>1. it[e].off + it[e].size <= it[x].off \/ it[x].off + it[x].size <= it[e].off
      BY <1>9
    <3>2. it[e].off \in Nat /\ it[e].size \in Nat \ {0}
      BY <1>8 DEF IsItem
    <3> QED
      BY <3>1, <3>2
  <2>3. \A x \in items : \E e \in M : it[e] = x
    BY <1>10
  <2> QED
    BY <2>1, <2>2, <2>3 DEF Bijection, Injection, Surjection, IsInjective
<1>12. IsFiniteSet(items)
  BY <1>11, AsMany
<1>13. AreApart(items)
  <2> SUFFICES ASSUME NEW x \in items, NEW y \in items, x.shard = y.shard
               PROVE  /\ x.s = y.s
                      /\ x = y \/ x.off + x.size <= y.off \/ y.off + y.size <= x.off
    BY DEF AreApart
  <2>1. PICK e \in M : x = it[e]
    BY <1>10
  <2>2. PICK z \in M : y = it[z]
    BY <1>10
  <2>3. x.s = e.s /\ y.s = z.s /\ e.s = z.s
    BY <1>5, <1>7, <2>1, <2>2
  <2>4. e = z \/ x.off + x.size <= y.off \/ y.off + y.size <= x.off
    BY <1>9, <2>1, <2>2
  <2> QED
    BY <2>1, <2>2, <2>3, <2>4, Zenon
<1> QED
  BY <1>8, <1>10, <1>11, <1>12, <1>13 DEF ItemsRead, items

(* They are read in the order of their bytes. *)
AreOfBytes(items) ==
  \A x \in items : x.shard \in Nat /\ x.off \in Nat /\ x.size \in Nat \ {0}
IsBefore(x, y) == x.shard < y.shard \/ (x.shard = y.shard /\ x.off < y.off)
ListsItems(list, items, n) ==
  /\ n \in Nat /\ DOMAIN list = 1 .. n /\ Len(list) = n
  /\ \A k \in 1 .. n : list[k] \in items
  /\ \A x \in items : \E k \in 1 .. n : list[k] = x
  /\ \A k, l \in 1 .. n : k < l => IsBefore(list[k], list[l])
LEMMA SortedLists ==
  ASSUME NEW items, IsFiniteSet(items), AreApart(items), AreOfBytes(items)
  PROVE  ListsItems(Sorted(items), items, Cardinality(items))
<1> DEFINE n == Cardinality(items)
           below == [x \in items |-> {y \in items : IsBefore(y, x)}]
           place == [x \in items |-> [chunk |-> x.shard, block |-> x.off]]
           At(k) == CHOOSE x \in items : Cardinality({y \in items : IsBefore(y, x)}) = k - 1
           list == Sorted(items)
<1>1. \A x \in items : place[x].chunk = x.shard /\ place[x].block = x.off
  OBVIOUS
<1>2. \A x, y \in items : Before(place[y], place[x]) <=> IsBefore(y, x)
  BY <1>1 DEF Before, IsBefore
<1>3. \A x \in items : below[x] = {y \in items : Before(place[y], place[x])}
  BY <1>2
<1>4. place = [x \in items |-> place[x]]
  OBVIOUS
<1>5. \A x \in items : place[x].chunk \in Int /\ place[x].block \in Int
  <2>1. \A x \in items : x.shard \in Int /\ x.off \in Int
    BY DEF AreOfBytes
  <2> HIDE DEF place
  <2> QED
    BY <1>1, <2>1
<1>6. \A x, y \in items :
        place[x].chunk = place[y].chunk /\ place[x].block = place[y].block => x = y
  <2> SUFFICES ASSUME NEW x \in items, NEW y \in items, x.shard = y.shard, x.off = y.off
               PROVE  x = y
    BY <1>1
  <2>1. x = y \/ x.off + x.size <= y.off \/ y.off + y.size <= x.off
    BY DEF AreApart
  <2>2. x.off \in Nat /\ x.size \in Nat \ {0} /\ y.size \in Nat \ {0}
    BY DEF AreOfBytes
  <2> QED
    BY <2>1, <2>2
<1> HIDE DEF place
<1>7. PICK p : ListsByRank(p, items, place, below)
  <2> HIDE DEF below
  <2> QED
    BY <1>3, <1>4, <1>5, <1>6, Ranked
<1>8. /\ n \in Nat /\ p \in Bijection(1 .. n, items)
      /\ \A k \in 1 .. n : p[k] \in items /\ Cardinality(below[p[k]]) = k - 1
      /\ \A k \in 1 .. n, x \in items : Cardinality(below[x]) = k - 1 => x = p[k]
      /\ \A k, l \in 1 .. n : k < l => Before(place[p[k]], place[p[l]])
  <2> HIDE DEF below
  <2> QED
    BY <1>7 DEF ListsByRank
<1>9. \A x \in items : below[x] = {y \in items : IsBefore(y, x)}
  OBVIOUS
<1>10. list = [k \in 1 .. n |-> At(k)]
  BY DEF Sorted, IsBefore
<1> HIDE DEF below, n, list
<1>11. ASSUME NEW k \in 1 .. n PROVE list[k] = p[k] /\ p[k] \in items
  <2>1. p[k] \in items /\ Cardinality({y \in items : IsBefore(y, p[k])}) = k - 1
    BY <1>8, <1>9
  <2>2. At(k) \in items /\ Cardinality({y \in items : IsBefore(y, At(k))}) = k - 1
    BY <2>1
  <2> HIDE DEF At
  <2>3. At(k) = p[k]
    BY <1>8, <1>9, <2>2
  <2> QED
    BY <1>10, <2>1, <2>3
<1>12. DOMAIN list = 1 .. n /\ Len(list) = n
  <2> HIDE DEF At
  <2>1. DOMAIN list = 1 .. n
    BY <1>10
  <2>2. Len([k \in 1 .. n |-> At(k)]) = n
    BY <1>8
  <2>3. Len(list) = n
    BY <1>10, <2>2, Zenon
  <2> QED
    BY <2>1, <2>3
<1> HIDE DEF At
<1>13. ASSUME NEW x \in items PROVE \E k \in 1 .. n : list[k] = x
  <2>1. PICK k \in 1 .. n : p[k] = x
    BY <1>8 DEF Bijection, Surjection
  <2> QED
    BY <1>11, <2>1
<1>14. ASSUME NEW k \in 1 .. n, NEW l \in 1 .. n, k < l PROVE IsBefore(list[k], list[l])
  <2>1. Before(place[p[k]], place[p[l]])
    BY <1>8, <1>14
  <2> QED
    BY <1>2, <1>11, <2>1
<1> QED
  BY <1>8, <1>11, <1>12, <1>13, <1>14 DEF ListsItems, n, list

(* Of two items in the order of their bytes one ends before the other. *)
LEMMA ItemsInOrder ==
  ASSUME NEW items, AreApart(items), AreOfBytes(items), NEW list, NEW n,
         ListsItems(list, items, n), NEW k \in 1 .. n, NEW l \in 1 .. n, k < l
  PROVE  \/ list[k].shard < list[l].shard
         \/ /\ list[k].shard = list[l].shard /\ list[k].s = list[l].s
            /\ list[k].off + list[k].size <= list[l].off
<1> DEFINE x == list[k]
           y == list[l]
<1>1. x \in items /\ y \in items /\ IsBefore(x, y)
  BY DEF ListsItems
<1> HIDE DEF x, y
<1>2. CASE x.shard < y.shard
  BY <1>2 DEF x, y
<1>3. CASE x.shard = y.shard /\ x.off < y.off
  <2>1. x.s = y.s /\ (x = y \/ x.off + x.size <= y.off \/ y.off + y.size <= x.off)
    BY <1>1, <1>3 DEF AreApart
  <2>2. x.off \in Nat /\ y.off \in Nat /\ x.size \in Nat \ {0} /\ y.size \in Nat \ {0}
    BY <1>1 DEF AreOfBytes
  <2>3. x.off + x.size <= y.off
    BY <1>3, <2>1, <2>2
  <2> QED
    BY <1>3, <2>1, <2>3 DEF x, y
<1> QED
  BY <1>1, <1>2, <1>3 DEF IsBefore

(* So the running maximum of their ends is the last one's end. *)
LEMMA RunEndIs ==
  ASSUME NEW items, AreApart(items), AreOfBytes(items), NEW list, NEW n,
         ListsItems(list, items, n), NEW i \in 1 .. n
  PROVE  RunEnd(list, i) = list[i].off + list[i].size
<1> DEFINE end == [j \in 1 .. n |-> list[j].off + list[j].size]
           E == {end[j] : j \in 1 .. n}
           span == Max(E) + 1
           high == [j \in 1 .. n |-> end[j] + list[j].shard * span]
           T == {high[j] : j \in 1 .. i}
<1>1. n \in Nat /\ DOMAIN list = 1 .. n
  BY DEF ListsItems
<1>2. \A j \in 1 .. n : /\ list[j].shard \in Nat /\ list[j].off \in Nat
                        /\ list[j].size \in Nat \ {0} /\ end[j] \in Nat
                        /\ end[j] = list[j].off + list[j].size
  BY DEF ListsItems, AreOfBytes
<1>3. RunEnd(list, i) = Max(T) - list[i].shard * span
  <2>1. {list[j].off + list[j].size : j \in DOMAIN list} = E
    BY <1>1
  <2>2. {list[j].off + list[j].size + list[j].shard * span : j \in 1 .. i} = T
    <3>1. \A j \in 1 .. i : high[j] = list[j].off + list[j].size + list[j].shard * span
      <4>1. \A j \in 1 .. i : j \in 1 .. n
        BY <1>1
      <4> HIDE DEF span
      <4> QED
        BY <4>1
    <3> HIDE DEF high
    <3> QED
      BY <3>1
  <2> HIDE DEF T
  <2> QED
    BY <2>1, <2>2, Zenon DEF RunEnd, span
<1>4. Max(E) \in Int /\ \A j \in 1 .. n : end[j] <= Max(E)
  <2>1. Numbers(E)
    <3>1. IsFiniteSet(1 .. n) /\ 1 .. n # {}
      <4>1. 1 \in Int /\ n \in Int
        BY <1>1
      <4> QED
        BY <4>1, FS_Interval
    <3>2. \A j \in 1 .. n : end[j] \in Int
      BY <1>2
    <3> HIDE DEF end
    <3> QED
      BY <3>1, <3>2, ImageNumbers
  <2>2. Max(E) \in Int /\ \A x \in E : x <= Max(E)
    <3> HIDE DEF E
    <3> QED
      BY <2>1, LeastGreatest DEF Numbers
  <2> QED
    BY <2>2
<1>5. span \in Nat /\ \A j \in 1 .. n : end[j] < span
  <2> DEFINE m == Max(E)
  <2>1. m \in Int /\ \A j \in 1 .. n : end[j] <= m
    BY <1>4
  <2>2. span = m + 1
    OBVIOUS
  <2>3. \A j \in 1 .. n : end[j] \in Nat
    BY <1>2
  <2> HIDE DEF E, m, end, span
  <2>4. \A j \in 1 .. n : end[j] < span
    BY <2>1, <2>2, <2>3
  <2>5. end[i] \in Nat /\ end[i] < span
    BY <2>3, <2>4
  <2> QED
    BY <2>1, <2>2, <2>4, <2>5
<1> HIDE DEF span, E
<1>6. \A j \in 1 .. n : high[j] = end[j] + list[j].shard * span /\ high[j] \in Int
  BY <1>2, <1>5
<1> HIDE DEF end, high
<1>7. ASSUME NEW j \in 1 .. i PROVE high[j] <= high[i]
  <2> DEFINE p == list[j].shard
             q == list[i].shard
             u == p * span
             w == q * span
  <2>1. j \in 1 .. n /\ j <= i /\ i \in Int /\ j \in Int
    BY <1>1
  <2>2. p \in Nat /\ q \in Nat /\ end[j] \in Nat /\ end[i] \in Nat /\ end[j] < span
        /\ end[j] = list[j].off + list[j].size /\ end[i] = list[i].off + list[i].size
        /\ list[i].off \in Nat /\ list[i].size \in Nat
        /\ high[j] = end[j] + u /\ high[i] = end[i] + w
    BY <1>2, <1>5, <1>6, <2>1
  <2>3. u \in Int /\ w \in Int
    BY <1>5, <2>2
  <2>4. CASE j = i
    <3>1. high[i] \in Int
      BY <1>6
    <3> QED
      BY <2>4, <3>1
  <2>5. CASE j < i
    <3>1. p < q \/ (p = q /\ list[j].off + list[j].size <= list[i].off)
      BY <2>1, <2>5, ItemsInOrder
    <3>2. CASE p < q
      <4> DEFINE r == p + 1
      <4>1. r \in Int /\ q \in Int /\ r <= q
        BY <2>2, <3>2
      <4>2. r * span <= q * span
        <5> HIDE DEF r, q
        <5> QED
          BY <1>5, <4>1, ProductGrows
      <4>3. r * span = u + span
        <5> HIDE DEF p
        <5> QED
          BY <1>5, <2>2
      <4> HIDE DEF p, q, u, w, r
      <4>4. u + span <= w
        BY <4>2, <4>3 DEF w
      <4> QED
        BY <1>5, <2>2, <2>3, <4>4
    <3>3. CASE p = q /\ list[j].off + list[j].size <= list[i].off
      <4>1. u = w
        BY <3>3
      <4> HIDE DEF p, q, u, w
      <4> QED
        BY <2>2, <2>3, <3>3, <4>1
    <3> QED
      BY <3>1, <3>2, <3>3
  <2> QED
    BY <2>1, <2>4, <2>5
<1>8. Max(T) = high[i]
  <2>1. i \in 1 .. i /\ \A j \in 1 .. i : j \in 1 .. n
    BY <1>1
  <2>2. Numbers(T)
    <3>1. IsFiniteSet(1 .. i) /\ 1 .. i # {}
      <4>1. 1 \in Int /\ i \in Int
        BY <1>1
      <4> QED
        BY <2>1, <4>1, FS_Interval
    <3>2. \A j \in 1 .. i : high[j] \in Int
      BY <1>6, <2>1
    <3> QED
      BY <3>1, <3>2, ImageNumbers
  <2>3. high[i] \in T /\ \A x \in T : x <= high[i]
    BY <1>7, <2>1
  <2>4. Max(T) \in T /\ (\A x \in T : x <= Max(T)) /\ Max(T) \in Int /\ high[i] \in Int
    <3>1. \A x \in T : x \in Int
      BY <1>6, <2>1
    <3> HIDE DEF T
    <3> QED
      BY <2>2, <2>3, <3>1, LeastGreatest
  <2> HIDE DEF T
  <2>5. Max(T) <= high[i] /\ high[i] <= Max(T)
    BY <2>3, <2>4
  <2> QED
    BY <2>4, <2>5
<1> DEFINE w == list[i].shard * span
<1>9. w \in Int /\ high[i] = end[i] + w /\ end[i] \in Int /\ end[i] = list[i].off + list[i].size
  BY <1>2, <1>5, <1>6
<1>10. RunEnd(list, i) = high[i] - w
  BY <1>3, <1>8
<1> HIDE DEF w
<1> QED
  BY <1>9, <1>10

(* A read is of one shard and spans its items. *)
IsRead(r, list, n) ==
  /\ r = <<r[1], r[2]>> /\ r[1] \in 1 .. n /\ r[2] \in r[1] .. n
  /\ \A i \in r[1] .. r[2] :
       /\ list[i].s = list[r[1]].s /\ list[r[1]].off <= list[i].off
       /\ list[i].off + list[i].size <= ReadEnd(list, r)
  /\ ReadEnd(list, r) \in Int
LEMMA ReadSpans ==
  ASSUME NEW items, AreApart(items), AreOfBytes(items), NEW list, NEW n,
         ListsItems(list, items, n), NEW gap, NEW r \in merge_runs(list, gap)
  PROVE  IsRead(r, list, n)
<1> DEFINE p == r[1]
           q == r[2]
           end == [j \in 1 .. n |-> list[j].off + list[j].size]
           E == {end[j] : j \in p .. q}
<1>1. n \in Nat /\ DOMAIN list = 1 .. n
  BY DEF ListsItems
<1>2. /\ r = <<p, q>> /\ p \in 1 .. n /\ q \in 1 .. n /\ p <= q
      /\ \A i \in p + 1 .. q : ~Breaks(list, gap, i)
  BY <1>1 DEF merge_runs
<1>3. \A j \in 1 .. n : /\ list[j].shard \in Nat /\ list[j].off \in Nat
                        /\ list[j].size \in Nat \ {0} /\ end[j] \in Int
                        /\ end[j] = list[j].off + list[j].size
  BY DEF ListsItems, AreOfBytes
<1> HIDE DEF p, q, end
<1>4. ASSUME NEW i \in p .. q PROVE list[i].shard = list[p].shard
  <2> DEFINE D == {j \in p .. q : list[j].shard # list[p].shard}
  <2>1. SUFFICES ASSUME D # {} PROVE FALSE
    OBVIOUS
  <2>2. D \subseteq Nat
    BY <1>1, <1>2
  <2>3. PICK j \in D : \A k \in D : j <= k
    <3> HIDE DEF D
    <3> QED
      BY <2>1, <2>2, LeastExists
  <2>4. j \in p .. q /\ j # p /\ list[j].shard # list[p].shard
    OBVIOUS
  <2> DEFINE k == j - 1
  <2>5. k \in p .. q /\ k < j /\ j \in p + 1 .. q /\ k \in Int /\ j \in Int
    BY <1>1, <1>2, <2>4
  <2>6. list[j].shard = list[k].shard
    BY <1>2, <2>5 DEF Breaks
  <2>7. k \notin D
    <3> HIDE DEF D, k
    <3> QED
      BY <2>3, <2>5
  <2>8. list[k].shard = list[p].shard
    <3> HIDE DEF k
    <3> QED
      BY <2>5, <2>7
  <2> HIDE DEF k
  <2> QED
    BY <2>4, <2>6, <2>8
<1>5. ASSUME NEW i \in p .. q PROVE list[i].s = list[p].s /\ list[p].off <= list[i].off
  <2>1. i \in 1 .. n /\ p \in Int /\ i \in Int /\ (i = p \/ p < i)
    BY <1>1, <1>2
  <2>2. list[p].off \in Nat /\ list[p].size \in Nat /\ list[i].off \in Nat
        /\ list[p].shard \in Nat /\ list[i].shard = list[p].shard
    BY <1>2, <1>3, <1>4, <2>1
  <2>3. CASE i = p
    BY <2>2, <2>3
  <2>4. CASE p < i
    <3>1. \/ list[p].shard < list[i].shard
          \/ /\ list[p].shard = list[i].shard /\ list[p].s = list[i].s
             /\ list[p].off + list[p].size <= list[i].off
      BY <1>2, <2>1, <2>4, ItemsInOrder
    <3> QED
      BY <2>2, <3>1
  <2> QED
    BY <2>1, <2>3, <2>4
<1>6. ReadEnd(list, r) = Max(E)
  <2>1. \A j \in p .. q : j \in 1 .. n
    BY <1>1, <1>2
  <2>2. {list[j].off + list[j].size : j \in p .. q} = E
    BY <1>3, <2>1
  <2> HIDE DEF E
  <2> QED
    BY <2>2 DEF ReadEnd, p, q
<1>7. Max(E) \in Int /\ \A i \in p .. q : end[i] <= Max(E)
  <2>1. \A j \in p .. q : end[j] \in Int
    BY <1>1, <1>2, <1>3
  <2>2. IsFiniteSet(p .. q) /\ p .. q # {}
    <3>1. p \in Int /\ q \in Int /\ p \in p .. q
      BY <1>1, <1>2
    <3>2. IsFiniteSet(p .. q)
      BY <3>1, FS_Interval
    <3> QED
      BY <3>1, <3>2
  <2>3. Numbers(E)
    BY <2>1, <2>2, ImageNumbers
  <2>4. Max(E) \in Int /\ \A x \in E : x <= Max(E)
    <3> HIDE DEF E
    <3> QED
      BY <2>3, LeastGreatest DEF Numbers
  <2> QED
    BY <2>4
<1>8. ASSUME NEW i \in p .. q PROVE list[i].off + list[i].size <= ReadEnd(list, r)
  <2>1. i \in 1 .. n
    BY <1>1, <1>2
  <2>2. end[i] = list[i].off + list[i].size
    BY <1>3, <2>1
  <2> QED
    BY <1>6, <1>7, <2>2
<1>9. q \in p .. n
  BY <1>1, <1>2
<1> QED
  BY <1>2, <1>5, <1>6, <1>7, <1>8, <1>9 DEF IsRead, p, q

(* Every item is in one read, and a read bridges no more than the gap. *)
ReadsCover(list, R, n) ==
  /\ \A i \in 1 .. n : \E r \in R : i \in r[1] .. r[2]
  /\ \A q, r \in R : \A i \in 1 .. n : i \in q[1] .. q[2] /\ i \in r[1] .. r[2] => q = r
LEMMA ReadsAre ==
  ASSUME NEW items, AreApart(items), AreOfBytes(items), NEW list, NEW n,
         ListsItems(list, items, n), NEW gap \in Nat, NEW R, R = merge_runs(list, gap)
  PROVE  /\ ReadsCover(list, R, n) /\ \A r \in R : IsRead(r, list, n)
         /\ \A g \in Bridged(list, R) : g <= gap
<1>1. n \in Nat /\ DOMAIN list = 1 .. n /\ Len(list) = n
  BY DEF ListsItems
<1>2. \A r \in R : IsRead(r, list, n)
  BY ReadSpans
<1> DEFINE S == {i \in 1 .. n : Breaks(list, gap, i)}
<1>3. ASSUME NEW r \in R
      PROVE  /\ r = <<r[1], r[2]>> /\ r[1] \in 1 .. n /\ r[2] \in r[1] .. n
             /\ r[1] \in S /\ \A i \in r[1] + 1 .. r[2] : i \notin S
             /\ r[2] < n => r[2] + 1 \in S
  <2>1. /\ r[1] \in 1 .. n /\ r[2] \in 1 .. n /\ r[1] <= r[2] /\ r = <<r[1], r[2]>>
        /\ Breaks(list, gap, r[1])
        /\ \A i \in r[1] + 1 .. r[2] : ~Breaks(list, gap, i)
        /\ r[2] < n => Breaks(list, gap, r[2] + 1)
    BY <1>1 DEF merge_runs
  <2>2. r[2] < n => r[2] + 1 \in 1 .. n
    BY <1>1, <2>1
  <2>3. r[2] \in r[1] .. n
    BY <1>1, <2>1
  <2> QED
    BY <2>1, <2>2, <2>3
<1>4. ASSUME NEW i \in 1 .. n PROVE \E r \in R : i \in r[1] .. r[2]
  <2>1. 1 \in S
    BY <1>1 DEF Breaks
  <2>2. /\ \E j \in 1 .. i : j \in S /\ \A k \in j + 1 .. i : k \notin S
        /\ \E e \in i .. n : (\A k \in i + 1 .. e : k \notin S) /\ (e < n => e + 1 \in S)
    <3> HIDE DEF S
    <3> QED
      BY <1>1, <2>1, RunAround
  <2>3. PICK j \in 1 .. i : j \in S /\ \A k \in j + 1 .. i : k \notin S
    BY <2>2
  <2>4. PICK e \in i .. n : (\A k \in i + 1 .. e : k \notin S) /\ (e < n => e + 1 \in S)
    BY <2>2
  <2>5. j \in 1 .. n /\ e \in 1 .. n /\ j <= e /\ i \in j .. e
    BY <1>1
  <2>6. ASSUME NEW k \in j + 1 .. e PROVE ~Breaks(list, gap, k)
    <3>1. k \in 1 .. n /\ (k \in j + 1 .. i \/ k \in i + 1 .. e)
      BY <1>1, <2>5
    <3>2. k \notin S
      BY <2>3, <2>4, <3>1
    <3> QED
      BY <3>1, <3>2
  <2>7. Breaks(list, gap, j) /\ (e < Len(list) => Breaks(list, gap, e + 1))
    BY <1>1, <2>3, <2>4
  <2>8. <<j, e>> \in R
    <3>1. <<j, e>> \in (DOMAIN list) \X (DOMAIN list)
      BY <1>1, <2>5
    <3>2. <<j, e>>[1] = j /\ <<j, e>>[2] = e
      OBVIOUS
    <3> HIDE DEF S
    <3> QED
      BY <2>5, <2>6, <2>7, <3>1, <3>2 DEF merge_runs
  <2> QED
    BY <2>5, <2>8
<1>5. ASSUME NEW q \in R, NEW r \in R, NEW i \in 1 .. n, i \in q[1] .. q[2], i \in r[1] .. r[2]
      PROVE  q = r
  <2> DEFINE a == q[1]
             b == q[2]
             c == r[1]
             d == r[2]
  <2>1. /\ q = <<a, b>> /\ a \in 1 .. n /\ b \in a .. n
        /\ a \in S /\ (\A k \in a + 1 .. b : k \notin S) /\ (b < n => b + 1 \in S)
    BY <1>3
  <2>2. /\ r = <<c, d>> /\ c \in 1 .. n /\ d \in c .. n
        /\ c \in S /\ (\A k \in c + 1 .. d : k \notin S) /\ (d < n => d + 1 \in S)
    BY <1>3
  <2>3. i \in a .. b /\ i \in c .. d
    BY <1>5
  <2> HIDE DEF a, b, c, d, S
  <2>4. a = c
    <3>1. ~(a < c)
      BY <2>1, <2>2, <2>3
    <3>2. ~(c < a)
      BY <2>1, <2>2, <2>3
    <3> QED
      BY <2>1, <2>2, <3>1, <3>2
  <2>5. b = d
    <3>1. ~(b < d)
      BY <1>1, <2>1, <2>2, <2>3
    <3>2. ~(d < b)
      BY <1>1, <2>1, <2>2, <2>3
    <3> QED
      BY <2>1, <2>2, <3>1, <3>2
  <2> QED
    BY <2>1, <2>2, <2>4, <2>5, Zenon
<1>6. ASSUME NEW g \in Bridged(list, R) PROVE g <= gap
  <2>1. PICK i \in UNION {r[1] + 1 .. r[2] : r \in R} :
          g = list[i].off - list[i - 1].off - list[i - 1].size
    BY DEF Bridged
  <2>2. PICK r \in R : i \in r[1] + 1 .. r[2]
    BY <2>1
  <2>3. i \notin S /\ i \in 1 .. n /\ i - 1 \in 1 .. n
    BY <1>1, <1>3, <2>2
  <2>4. ~(list[i].off - RunEnd(list, i - 1) > gap)
    BY <2>3 DEF Breaks
  <2>5. RunEnd(list, i - 1) = list[i - 1].off + list[i - 1].size
    BY <2>3, RunEndIs
  <2>6. list[i].off \in Nat /\ list[i - 1].off \in Nat /\ list[i - 1].size \in Nat
    BY <2>3 DEF ListsItems, AreOfBytes
  <2> DEFINE x == list[i].off
             y == list[i - 1].off
             z == list[i - 1].size
  <2>7. x \in Int /\ y \in Int /\ z \in Int /\ g = x - y - z /\ ~(x - (y + z) > gap)
    BY <2>1, <2>4, <2>5, <2>6
  <2> HIDE DEF x, y, z
  <2> QED
    BY <2>7
<1> QED
  BY <1>2, <1>4, <1>5, <1>6 DEF ReadsCover

(* An item is decoded from the read that spans it. *)
ItemCount(a, index, per, inner, x, th) ==
  Above(Chunk(a, inner, InnerChunk(per, x.s, CHOOSE b \in StoredAt(index[x.s], x.off, x.size) : TRUE)),
        th)
LEMMA ItemCountIs ==
  ASSUME NEW a, NEW index, NEW per, NEW inner, NEW th, NEW x, NEW e, IsItem(x, index, e)
  PROVE  ItemCount(a, index, per, inner, x, th) = Above(Chunk(a, inner, InnerChunk(per, e.s, e.b)), th)
<1> DEFINE D == StoredAt(index[x.s], x.off, x.size)
<1>1. x.s = e.s /\ D = {e.b}
  BY DEF IsItem
<1>2. (CHOOSE c \in D : TRUE) = e.b
  BY <1>1
<1>3. ItemCount(a, index, per, inner, x, th)
        = Above(Chunk(a, inner, InnerChunk(per, x.s, CHOOSE c \in D : TRUE)), th)
  BY DEF ItemCount
<1> HIDE DEF D
<1> QED
  BY <1>1, <1>2, <1>3, Zenon

(* It is decoded whole and counted once. *)
LEMMA DecodedIs ==
  ASSUME NEW a, NEW index, NEW per, NEW inner, NEW th, NEW x, NEW e, IsItem(x, index, e),
         NEW from \in Nat, NEW to \in Int, from <= x.off, x.off + x.size <= to, NEW s, s = x.s
  PROVE  DecodedItem(a, index, per, inner, [x EXCEPT !.s = s], from, to, th)
           = Above(Chunk(a, inner, InnerChunk(per, e.s, e.b)), th)
<1>1. /\ x.s = e.s /\ x.off \in Nat /\ x.size \in Nat \ {0}
      /\ x = [shard |-> x.shard, s |-> x.s, off |-> x.off, size |-> x.size]
      /\ StoredAt(index[e.s], x.off, x.size) = {e.b}
  BY DEF IsItem
<1>2. [x EXCEPT !.s = s] = x
  <2> DEFINE y == [shard |-> x.shard, s |-> x.s, off |-> x.off, size |-> x.size]
  <2>1. [y EXCEPT !.s = s] = y
    OBVIOUS
  <2>2. x = y
    BY <1>1
  <2> HIDE DEF y
  <2> QED
    BY <2>1, <2>2
<1> DEFINE D == StoredAt(index[x.s], from + (x.off - from), x.size)
<1>3. from + (x.off - from) = x.off /\ ~(x.off < from) /\ ~(x.off + x.size > to)
  BY <1>1
<1>4. D = {e.b}
  BY <1>1, <1>3, Zenon
<1>5. (CHOOSE c \in D : TRUE) = e.b
  BY <1>4
<1>6. DecodedItem(a, index, per, inner, x, from, to, th)
        = IF D = {} \/ x.off < from \/ x.off + x.size > to THEN 0
          ELSE Above(Chunk(a, inner, InnerChunk(per, x.s, CHOOSE c \in D : TRUE)), th)
  BY DEF DecodedItem
<1>7. D # {}
  BY <1>4
<1> HIDE DEF D
<1>8. DecodedItem(a, index, per, inner, x, from, to, th)
        = Above(Chunk(a, inner, InnerChunk(per, x.s, CHOOSE c \in D : TRUE)), th)
  BY <1>3, <1>6, <1>7, Zenon
<1>9. DecodedItem(a, index, per, inner, x, from, to, th)
        = Above(Chunk(a, inner, InnerChunk(per, e.s, e.b)), th)
  BY <1>1, <1>5, <1>8, Zenon
<1> QED
  BY <1>2, <1>9, Zenon

(* What the reads count is what the inner chunks to read hold. *)
LEMMA ReadsCount ==
  ASSUME NEW a, NEW index, NEW per, NEW inner, NEW th,
         NEW M, IsFiniteSet(M), NEW V, Integers(V, M),
         \A e \in M : V[e] = Above(Chunk(a, inner, InnerChunk(per, e.s, e.b)), th),
         NEW items, NEW it, ItemsRead(items, M, it, index),
         NEW list, NEW n, ListsItems(list, items, n),
         NEW R, ReadsCover(list, R, n), \A r \in R : IsRead(r, list, n)
  PROVE  InnerReads(a, index, per, inner, list, R, th) = SumOf(V, M)
<1> DEFINE W == [x \in items |-> ItemCount(a, index, per, inner, x, th)]
           L == [i \in 1 .. n |-> W[list[i]]]
           F == [r \in R |-> ReadCount(a, index, per, inner, list, r, th)]
           p == [i \in 1 .. n |-> list[i]]
           group == [i \in 1 .. n |-> CHOOSE r \in R : i \in r[1] .. r[2]]
<1>1. /\ n \in Nat /\ (\A i \in 1 .. n : list[i] \in items)
      /\ \A x \in items : \E k \in 1 .. n : list[k] = x
  BY DEF ListsItems
<1>2. /\ IsFiniteSet(items) /\ it \in Bijection(M, items)
      /\ \A e \in M : it[e] \in items /\ IsItem(it[e], index, e)
      /\ \A x \in items : \E e \in M : x = it[e]
  BY DEF ItemsRead
<1>3. ASSUME NEW e \in M PROVE W[it[e]] = V[e]
  <2>1. IsItem(it[e], index, e) /\ it[e] \in items
    BY <1>2
  <2>2. ItemCount(a, index, per, inner, it[e], th)
          = Above(Chunk(a, inner, InnerChunk(per, e.s, e.b)), th)
    BY <2>1, ItemCountIs
  <2> QED
    BY <2>1, <2>2
<1>4. Integers(W, items)
  <2>1. \A x \in items : W[x] \in Int
    <3> SUFFICES ASSUME NEW x \in items PROVE W[x] \in Int
      OBVIOUS
    <3>1. PICK e \in M : x = it[e]
      BY <1>2
    <3>2. W[it[e]] = V[e] /\ V[e] \in Int
      BY <1>3 DEF Integers
    <3> HIDE DEF W
    <3> QED
      BY <3>1, <3>2
  <2> QED
    BY <2>1 DEF Integers
<1> HIDE DEF W
<1>5. SumOf(V, M) = SumOf(W, items)
  <2>1. \A e \in M : V[e] = W[it[e]]
    BY <1>3
  <2> QED
    BY <1>2, <1>4, <2>1, SumMatched
<1>6. IsFiniteSet(1 .. n)
  <2>1. 1 \in Int /\ n \in Int
    BY <1>1
  <2> QED
    BY <2>1, FS_Interval
<1>7. p \in Bijection(1 .. n, items)
  <2>1. p \in [1 .. n -> items]
    BY <1>1
  <2>2. ASSUME NEW k \in 1 .. n, NEW l \in 1 .. n, list[k] = list[l] PROVE k = l
    <3>1. \A i, j \in 1 .. n : i < j => list[i] # list[j]
      <4> SUFFICES ASSUME NEW i \in 1 .. n, NEW j \in 1 .. n, i < j, list[i] = list[j] PROVE FALSE
        OBVIOUS
      <4>1. IsBefore(list[i], list[j])
        BY DEF ListsItems
      <4>2. list[i].shard \in Nat /\ list[i].off \in Nat
        <5>1. PICK e \in M : list[i] = it[e]
          BY <1>1, <1>2
        <5> QED
          BY <1>2, <5>1 DEF IsItem
      <4> DEFINE u == list[i].shard
                 w == list[i].off
      <4>3. u < u \/ (u = u /\ w < w)
        BY <4>1 DEF IsBefore
      <4>4. u \in Nat /\ w \in Nat
        BY <4>2
      <4> HIDE DEF u, w
      <4> QED
        BY <4>3, <4>4
    <3>2. ~(k < l) /\ ~(l < k)
      BY <2>2, <3>1
    <3> QED
      BY <1>1, <3>2
  <2>3. \A k \in 1 .. n : p[k] = list[k]
    OBVIOUS
  <2> HIDE DEF p
  <2> QED
    BY <1>1, <2>1, <2>2, <2>3 DEF Bijection, Injection, Surjection, IsInjective
<1>8. SumOf(L, 1 .. n) = SumOf(W, items) /\ Integers(L, 1 .. n)
  <2>1. \A i \in 1 .. n : L[i] = W[p[i]]
    OBVIOUS
  <2>2. Integers(L, 1 .. n)
    BY <1>1, <1>4 DEF Integers
  <2> DEFINE I == 1 .. n
  <2>3. IsFiniteSet(I) /\ p \in Bijection(I, items) /\ \A i \in I : L[i] = W[p[i]]
    BY <1>6, <1>7, <2>1
  <2> HIDE DEF L, p, I
  <2>4. SumOf(L, I) = SumOf(W, items)
    BY <1>4, <2>3, SumMatched
  <2> QED
    BY <2>2, <2>4 DEF I
<1>9. ASSUME NEW r \in R
      PROVE  /\ r[1] \in 1 .. n /\ r[2] \in 1 .. n /\ r = <<r[1], r[2]>>
             /\ \A i \in r[1] .. r[2] : i \in 1 .. n
             /\ F[r] = SumOf(L, r[1] .. r[2])
  <2>1. /\ r = <<r[1], r[2]>> /\ r[1] \in 1 .. n /\ r[2] \in r[1] .. n
        /\ \A i \in r[1] .. r[2] :
             /\ list[i].s = list[r[1]].s /\ list[r[1]].off <= list[i].off
             /\ list[i].off + list[i].size <= ReadEnd(list, r)
        /\ ReadEnd(list, r) \in Int
    BY DEF IsRead
  <2>2. r[2] \in 1 .. n /\ \A i \in r[1] .. r[2] : i \in 1 .. n
    BY <1>1, <2>1
  <2> DEFINE P == r[1] .. r[2]
             from == list[r[1]].off
             to == ReadEnd(list, r)
             s == list[r[1]].s
             D == [i \in P |-> DecodedItem(a, index, per, inner, [list[i] EXCEPT !.s = s],
                                           from, to, th)]
  <2>3. F[r] = SumOf(D, P)
    BY DEF ReadCount, SumOf
  <2>4. from \in Nat
    <3>1. PICK e \in M : list[r[1]] = it[e]
      BY <1>1, <1>2, <2>1
    <3> QED
      BY <1>2, <3>1 DEF IsItem
  <2>9. to \in Int
    BY <2>1
  <2>5. ASSUME NEW i \in P PROVE D[i] = L[i]
    <3> DEFINE x == list[i]
    <3>1. i \in 1 .. n /\ s = x.s /\ from <= x.off /\ x.off + x.size <= to /\ x \in items
      BY <1>1, <2>1, <2>2
    <3>2. PICK e \in M : x = it[e]
      BY <1>2, <3>1
    <3>3. IsItem(x, index, e)
      BY <1>2, <3>2
    <3>4. D[i] = DecodedItem(a, index, per, inner, [x EXCEPT !.s = s], from, to, th)
      OBVIOUS
    <3>5. L[i] = ItemCount(a, index, per, inner, x, th)
      BY <3>1 DEF W
    <3> HIDE DEF x, s, from, to, D, L
    <3>6. DecodedItem(a, index, per, inner, [x EXCEPT !.s = s], from, to, th)
            = Above(Chunk(a, inner, InnerChunk(per, e.s, e.b)), th)
      BY <2>4, <2>9, <3>1, <3>3, DecodedIs
    <3>7. ItemCount(a, index, per, inner, x, th)
            = Above(Chunk(a, inner, InnerChunk(per, e.s, e.b)), th)
      BY <3>3, ItemCountIs
    <3> QED
      BY <3>4, <3>5, <3>6, <3>7, Zenon
  <2>6. IsFiniteSet(P)
    <3>1. r[1] \in Int /\ r[2] \in Int
      BY <1>1, <2>1, <2>2
    <3> QED
      BY <3>1, FS_Interval
  <2>7. Integers(L, P)
    BY <1>8, <2>2 DEF Integers
  <2>8. SumOf(D, P) = SumOf(L, P)
    <3> HIDE DEF D, L, P
    <3> QED
      BY <2>5, <2>6, <2>7, SumSame
  <2> QED
    BY <2>1, <2>2, <2>3, <2>8
<1>10. ASSUME NEW i \in 1 .. n PROVE group[i] \in R /\ i \in group[i][1] .. group[i][2]
  <2>1. \E r \in R : i \in r[1] .. r[2]
    BY DEF ReadsCover
  <2> QED
    BY <2>1
<1>11. ASSUME NEW r \in R PROVE Group(group, 1 .. n, r) = r[1] .. r[2]
  <2>1. ASSUME NEW i \in 1 .. n PROVE group[i] = r <=> i \in r[1] .. r[2]
    <3>1. group[i] \in R /\ i \in group[i][1] .. group[i][2]
      BY <1>10
    <3> HIDE DEF group
    <3>2. i \in r[1] .. r[2] => group[i] = r
      BY <3>1 DEF ReadsCover
    <3>3. group[i] = r => i \in r[1] .. r[2]
      BY <3>1
    <3> QED
      BY <3>2, <3>3
  <2>2. \A i \in r[1] .. r[2] : i \in 1 .. n
    BY <1>9
  <2> HIDE DEF group
  <2> QED
    BY <2>1, <2>2 DEF Group
<1>12. IsFiniteSet(R)
  <2>1. R \in SUBSET ((1 .. n) \X (1 .. n))
    <3>1. \A r \in R : r[1] \in 1 .. n /\ r[2] \in 1 .. n /\ r = <<r[1], r[2]>>
      BY <1>9
    <3> QED
      BY <3>1
  <2>2. IsFiniteSet((1 .. n) \X (1 .. n))
    BY <1>6, FS_Product
  <2> QED
    BY <2>1, <2>2, FS_Subset
<1>13. SumOf(F, R) = SumOf(L, 1 .. n)
  <2>1. group \in [1 .. n -> R]
    BY <1>10
  <2>2. \A r \in R : F[r] = SumOf(L, Group(group, 1 .. n, r))
    <3> SUFFICES ASSUME NEW r \in R PROVE F[r] = SumOf(L, Group(group, 1 .. n, r))
      OBVIOUS
    <3>1. F[r] = SumOf(L, r[1] .. r[2])
      BY <1>9
    <3>2. Group(group, 1 .. n, r) = r[1] .. r[2]
      BY <1>11
    <3> QED
      BY <3>1, <3>2, Zenon
  <2> DEFINE I == 1 .. n
  <2>3. /\ IsFiniteSet(I) /\ group \in [I -> R] /\ Integers(L, I)
        /\ \A r \in R : F[r] = SumOf(L, Group(group, I, r))
    BY <1>6, <1>8, <2>1, <2>2
  <2> HIDE DEF group, F, L, I
  <2>4. SumOf(F, R) = SumOf(L, I)
    BY <1>12, <2>3, SumByGroups
  <2> QED
    BY <2>4 DEF I
<1>14. InnerReads(a, index, per, inner, list, R, th) = SumOf(F, R)
  BY DEF InnerReads, SumOf
<1> QED
  BY <1>5, <1>8, <1>13, <1>14, Zenon

(* inner_zm: the count is right, and a read bridges no more than the gap. *)
LEMMA InnerRight ==
  ASSUME NEW a, NEW shard, NEW inner, Cuts(a, shard), IsCut(shard[1], shard[2], inner),
         NEW rank, NEW sizes, AreLaid(rank, sizes, ShardGrid(shard, inner)), NEW gap \in Nat,
         NEW step \in Nat \ {0}, step % inner[1] = 0, NEW th \in Int,
         NEW answer, answer = inner_zm(a, shard, inner, rank, sizes, gap, step, th)
  PROVE  answer.count = Above(a, th) /\ \A g \in answer.bridged : g <= gap
<1> DEFINE per == ShardGrid(shard, inner)
           index == shard_index(a, shard, inner, rank, sizes)
           stats == chunk_stats(a, inner, step)
           Q == InnerChunks(index, stats, per)
           M == MaybeInner(Q, th)
           cols == Len(a[1]) \div shard[2]
           items == Items(index, M, cols)
           list == Sorted(items)
           n == Cardinality(items)
           R == merge_runs(list, gap)
           it == [e \in M |-> Item(index, e, cols)]
           V == [e \in Q |-> Above(Chunk(a, inner, InnerChunk(per, e.s, e.b)), th)]
           P == Grid(a, shard) \X InShard(per)
           h == [e \in P |-> InnerChunk(per, e[1], e[2])]
<1>1. /\ answer.count = CountUnread(index, Q, inner[1] * inner[2], th)
                          + InnerReads(a, index, per, inner, list, R, th)
      /\ answer.bridged = Bridged(list, R)
  BY DEF inner_zm
<1>2. Cuts(a, inner) /\ per[1] \in Nat \ {0} /\ per[2] \in Nat \ {0}
  <2>1. P = Grid(a, shard) \X InShard(per) /\ h = [e \in P |-> InnerChunk(per, e[1], e[2])]
    OBVIOUS
  <2>2. per = ShardGrid(shard, inner)
    OBVIOUS
  <2> HIDE DEF P, h, per
  <2>3. IsInnerGrid(a, shard, inner, per, P, h)
    BY <2>1, <2>2, InnerGrid
  <2> QED
    BY <2>3 DEF IsInnerGrid
<1>3. stats = [c \in Grid(a, inner) |-> StatsOf(Chunk(a, inner, c))]
  BY <1>2, StatsBySlabs
<1>4. /\ DOMAIN index = Grid(a, shard)
      /\ \A s \in Grid(a, shard) :
           DOMAIN index[s] = {b \in InShard(per) : ~IsFill(Chunk(a, inner, InnerChunk(per, s, b)))}
  BY DEF shard_index, IndexOf
<1>5. /\ per = ShardGrid(shard, inner) /\ AreLaid(rank, sizes, per)
      /\ index = shard_index(a, shard, inner, rank, sizes)
      /\ Q = InnerChunks(index, stats, per) /\ M = MaybeInner(Q, th)
      /\ cols = Len(a[1]) \div shard[2] /\ items = Items(index, M, cols)
      /\ list = Sorted(items) /\ n = Cardinality(items) /\ R = merge_runs(list, gap)
  OBVIOUS
<1>6. it = [e \in M |-> Item(index, e, cols)]
  OBVIOUS
<1>7. AreInnerCounts(V, Q, a, inner, per, th)
  BY DEF AreInnerCounts
<1> HIDE DEF per, index, stats, Q, M, cols, items, list, n, R, it, V, P, h
<1>8. InnerAre(Q, a, shard, inner, per, th) /\ Integers(V, Q) /\ SumOf(V, Q) = Above(a, th)
  BY <1>3, <1>4, <1>5, <1>7, InnerCounts
<1>9. AreStored(index, Q, a, inner, per)
  <2> SUFFICES ASSUME NEW e \in Q
               PROVE  HasEntry(index, e) <=> ~IsFill(Chunk(a, inner, InnerChunk(per, e.s, e.b)))
    BY DEF AreStored
  <2>1. e.s \in Grid(a, shard) /\ e.b \in InShard(per)
    BY <1>8 DEF InnerAre
  <2>2. DOMAIN index[e.s]
          = {b \in InShard(per) : ~IsFill(Chunk(a, inner, InnerChunk(per, e.s, b)))}
    BY <1>4, <2>1
  <2> QED
    BY <2>1, <2>2 DEF HasEntry
<1>10. /\ M \in SUBSET Q /\ IsFiniteSet(M) /\ (\A e \in M : HasEntry(index, e))
       /\ SumOf(V, Q) = CountUnread(index, Q, inner[1] * inner[2], th) + SumOf(V, M)
  <2>1. CountsUnread(V, Q, M, index, inner, th)
    BY <1>2, <1>5, <1>7, <1>8, <1>9, InnerUnread
  <2> QED
    BY <2>1 DEF CountsUnread
<1>11. HaveEntries(M, index, a, shard) /\ OneEach(M)
  BY <1>8, <1>10 DEF HaveEntries, OneEach, InnerAre
<1>12. ItemsRead(items, M, it, index)
  BY <1>2, <1>5, <1>6, <1>10, <1>11, ItemsAre
<1>13. IsFiniteSet(items) /\ AreApart(items) /\ AreOfBytes(items)
  <2>1. /\ IsFiniteSet(items) /\ AreApart(items)
        /\ \A x \in items : \E e \in M : x = it[e]
        /\ \A e \in M : IsItem(it[e], index, e)
    BY <1>12 DEF ItemsRead
  <2>2. \A x \in items : x.shard \in Nat /\ x.off \in Nat /\ x.size \in Nat \ {0}
    BY <2>1 DEF IsItem
  <2> QED
    BY <2>1, <2>2 DEF AreOfBytes
<1>14. ListsItems(list, items, n)
  BY <1>5, <1>13, SortedLists
<1>15. /\ ReadsCover(list, R, n) /\ \A r \in R : IsRead(r, list, n)
       /\ \A g \in Bridged(list, R) : g <= gap
  BY <1>5, <1>13, <1>14, ReadsAre
<1>16. InnerReads(a, index, per, inner, list, R, th) = SumOf(V, M)
  <2>1. \A e \in M : V[e] = Above(Chunk(a, inner, InnerChunk(per, e.s, e.b)), th)
    BY <1>7, <1>10 DEF AreInnerCounts
  <2>2. Integers(V, M)
    BY <1>8, <1>10 DEF Integers
  <2>3. \A r \in R : IsRead(r, list, n)
    BY <1>15
  <2>4. ReadsCover(list, R, n)
    BY <1>15
  <2> QED
    BY <1>10, <1>12, <1>14, <2>1, <2>2, <2>3, <2>4, ReadsCount
<1>17. answer.count = Above(a, th)
  BY <1>1, <1>8, <1>10, <1>16, Zenon
<1> QED
  BY <1>1, <1>15, <1>17

(* Every baseline counts the values above the threshold. *)
LEMMA BaselinesCount ==
  ASSUME NEW a, NEW decoded, NEW shard, NEW inner, Cuts(a, shard),
         IsCut(shard[1], shard[2], inner), AreNear(a, decoded, 1),
         NEW rank, NEW sizes, AreLaid(rank, sizes, ShardGrid(shard, inner)), NEW gap \in Nat,
         NEW bytes \in Nat, StepMultiple % inner[1] = 0, NEW th \in Int
  PROVE  BaselinesAgree(a, decoded, inner, 1, shard, rank, sizes, gap,
                        slab_step(1, bytes, Len(a)), th)
<1> DEFINE step == slab_step(1, bytes, Len(a))
           stats == chunk_stats(a, inner, step)
           lossy == chunk_zm(a, decoded, inner, 1, step, th)
           skipped == chunk_zm(a, a, inner, 0, step, th)
           scanned == full_scan(a, a, inner, th)
           sharded == inner_zm(a, shard, inner, rank, sizes, gap, step, th)
<1>1. Cuts(a, inner)
  <2> DEFINE per == ShardGrid(shard, inner)
             P == Grid(a, shard) \X InShard(per)
             h == [e \in P |-> InnerChunk(per, e[1], e[2])]
  <2>1. P = Grid(a, shard) \X InShard(per) /\ h = [e \in P |-> InnerChunk(per, e[1], e[2])]
        /\ per = ShardGrid(shard, inner)
    OBVIOUS
  <2> HIDE DEF P, h, per
  <2>2. IsInnerGrid(a, shard, inner, per, P, h)
    BY <2>1, InnerGrid
  <2> QED
    BY <2>2 DEF IsInnerGrid
<1>2. step \in Nat \ {0} /\ step % inner[1] = 0
  <2>1. Len(a) \in Nat \ {0}
    BY StepsAre DEF Cuts
  <2>2. inner[1] \in Nat \ {0} /\ Len(a) % inner[1] = 0
    BY <1>1 DEF Cuts, IsCut
  <2> QED
    BY <2>1, <2>2, SlabStepFits
<1> HIDE DEF step
<1>3. stats = [c \in Grid(a, inner) |-> StatsOf(Chunk(a, inner, c))]
  BY <1>1, <1>2, StatsBySlabs
<1>4. lossy.found => lossy = Counted(Above(decoded, th))
  <2>1. lossy = ChunkQuery(stats, StoredObjects(a, decoded, inner), inner, 1, th)
    BY DEF chunk_zm
  <2>2. 1 \in Nat
    OBVIOUS
  <2> HIDE DEF lossy, stats
  <2> QED
    BY <1>1, <1>3, <2>1, <2>2, ChunkQueryRight
<1>5. skipped = Counted(Above(a, th))
  <2>1. skipped = ChunkQuery(stats, StoredObjects(a, a, inner), inner, 0, th)
    BY DEF chunk_zm
  <2>2. 0 \in Nat /\ AreNear(a, a, 0)
    BY NearItself DEF Cuts
  <2> HIDE DEF skipped, stats
  <2>3. /\ skipped.found => skipped = Counted(Above(a, th))
        /\ 0 = 0 => skipped.found
    BY <1>1, <1>3, <2>1, <2>2, ChunkQueryRight
  <2> QED
    BY <2>3
<1>6. /\ scanned.found => scanned = Counted(Above(a, th))
      /\ Fill <= th => scanned.found
  <2>1. scanned = full_scan(a, a, inner, th)
    OBVIOUS
  <2> HIDE DEF scanned
  <2> QED
    BY <1>1, <2>1, ScanRight
<1>7. sharded.count = Above(a, th) /\ \A g \in sharded.bridged : g <= gap
  <2>1. sharded = inner_zm(a, shard, inner, rank, sizes, gap, step, th)
    OBVIOUS
  <2> HIDE DEF sharded
  <2> QED
    BY <1>2, <2>1, InnerRight
<1>8. Counted(Above(a, th)).count = Above(a, th)
      /\ Counted(Above(decoded, th)).count = Above(decoded, th)
  BY DEF Counted
<1> HIDE DEF lossy, skipped, scanned, sharded
<1>9. /\ skipped = Counted(Above(a, th))
      /\ scanned.found => scanned.count = Above(a, th)
      /\ Fill <= th => scanned.found
      /\ lossy.found => lossy.count = Above(decoded, th)
      /\ sharded.count = Above(a, th)
      /\ \A g \in sharded.bridged : g <= gap
  BY <1>4, <1>5, <1>6, <1>7, <1>8
<1> QED
  BY <1>9 DEF BaselinesAgree, lossy, skipped, scanned, sharded, step

(* Every baseline counts the values above the threshold: for every array,  *)
(* threshold, chunk and shard shape, layout of the inner chunks in their   *)
(* shards, gap of merged reads and length of the slabs the statistics are  *)
(* taken in.                                                               *)
THEOREM CountsAlwaysAgree == AlgorithmsSpec => []CountsAgree
<1>1. GivenInput => CountsAgree
  <2> SUFFICES ASSUME GivenInput, Is("scan")
               PROVE  BaselinesAgree(input.a, input.decoded, input.inner, 1, input.shard,
                                     input.rank, input.sizes, input.gap,
                                     slab_step(1, input.slabBytes, Len(input.a)), input.th)
    BY DEF CountsAgree
  <2>1. /\ AreSteps(input.a) /\ AreNear(input.a, input.decoded, 1) /\ input.th \in Int
        /\ input.gap \in Nat /\ IsCut(Len(input.a), Len(input.a[1]), input.shard)
        /\ IsCut(input.shard[1], input.shard[2], input.inner)
        /\ AreLaid(input.rank, input.sizes, ShardGrid(input.shard, input.inner))
        /\ StepMultiple % input.inner[1] = 0 /\ input.slabBytes \in Nat
    BY ScansAssumption DEF GivenInput, Is
  <2>2. Cuts(input.a, input.shard)
    BY <2>1 DEF Cuts
  <2> QED
    BY <2>1, <2>2, BaselinesCount
<1> QED
  BY <1>1, InputsAreGiven, PTL
===============================================================================
