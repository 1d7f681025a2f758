--------------------------- MODULE MCAlgorithms ---------------------------
(***************************************************************************)
(* Bounded inputs of the pure algorithms.                                  *)
(***************************************************************************)
EXTENDS Algorithms

-----------------------------------------------------------------------------
(* RangeBounds: floats three apart around zero, doubles at them, between   *)
(* them and beyond them.                                                   *)

SmallFloats == {-6, -3, 0, 3, 6}
SmallDoubles == -10 .. 10
SmallMinusInfinity == -10
SmallInfinity == 10

-----------------------------------------------------------------------------
(* MetaPacking: one to three units of one to three blocks. *)

Unit(eps, q, codes) ==
  [low |-> eps[1], high |-> Mod(eps[1] + 2), eps |-> eps,
   qmin |-> [i \in 1 .. Len(q) \div 2 |-> q[2 * i - 1]], qmax |-> [i \in 1 .. Len(q) \div 2 |-> q[2 * i]],
   codes |-> codes]
Quantized(blocks_) == [1 .. 2 * blocks_ -> Bytes]
Alternating(n) == [i \in 1 .. n |-> IF i % 2 = 1 THEN 3 ELSE 1]

Packings ==
  {[kind |-> "packing", padding |-> p, units |-> <<Unit(<<1, 2>>, q, <<>>), Unit(<<3, 0>>, Alternating(4), <<>>)>>] :
     q \in Quantized(2), p \in {<<>>, [i \in 1 .. 8 |-> 2]}}
  \cup {[kind |-> "packing", padding |-> <<>>,
         units |-> <<Unit(<<1>>, Alternating(2), <<0>>), Unit(<<2>>, q, <<1>>), Unit(<<0>>, r, <<1>>)>>] :
          q \in Quantized(1), r \in Quantized(1)}
  \cup {[kind |-> "packing", padding |-> <<>>, units |-> <<Unit(<<3>>, Alternating(6), c), Unit(<<1>>, Alternating(6), d)>>] :
          c \in [1 .. 3 -> Codes], d \in [1 .. 3 -> Codes]}

-----------------------------------------------------------------------------
(* CodecConfig: arguments right and wrong, of arrays that fit and do not,  *)
(* and of rates that ZFP keeps in some units, in all and in none.          *)

Arguments ==
  [rate : {0, 2, 3, 4, 16}, block_dim : {4},
   layers : {<<>>, <<4>>, <<2, 4>>, <<4, 2>>, <<1, 4>>, <<0, 4>>, <<4, 16>>},
   block_order : {<<0, 1, 2>>, <<1, 2, 0>>},
   sub_chunk : {<<>>, <<4, 4, 4>>, <<4, 4, 8>>, <<4, 4>>, <<2, 4, 4>>}, block_error_bits : {0, 2, 4}]
    \cup [rate : {4}, block_dim : {2, 4}, layers : {<<>>}, block_order : {<<0, 1, 2>>, <<0, 0, 2>>},
          sub_chunk : {<<>>}, block_error_bits : {0}]
Arrays ==
  [dtype : {"float32"}, shape : {<<8, 4, 8>>, <<8, 4, 12>>, <<8, 8, 8>>, <<8, 0, 8>>},
   chunk : {<<4, 4, 4>>, <<8, 4, 4>>, <<4, 4, 8>>, <<8, 8, 4>>, <<2, 4, 8>>}]
    \cup [dtype : {"float64"}, shape : {<<8, 4, 8>>}, chunk : {<<4, 4, 4>>}]
    \cup [dtype : {"float32"}, shape : {<<8, 8>>}, chunk : {<<4, 4>>}]
Configs ==
  {[kind |-> "config", c |-> c, dtype |-> a.dtype, shape |-> a.shape, chunk |-> a.chunk] :
     c \in Arguments, a \in Arrays}

-----------------------------------------------------------------------------
(* Quantiles of two to six steps of two values, of four bits each. *)

SmallPassBits == <<2, 1, 1>>
Fractions == {<<0, 1>>, <<1, 3>>, <<1, 2>>, <<9, 10>>, <<1, 1>>}
Data(n, p) == [t \in 1 .. n |-> [i \in 1 .. 2 |-> (t * p + i * (p + 3) + t * t * (p % 4)) % 2^Width]]
Statistics ==
  {[kind |-> "quantiles", a |-> a, qs |-> Fractions, step |-> s] :
     a \in {<<<<x, y>>, <<z, 8>>>> : x \in 0 .. 15, y \in {1, 9}, z \in {0, 1, 7, 8, 9, 15}}, s \in {1}}
  \cup {[kind |-> "quantiles", a |-> Data(n, p), qs |-> Fractions, step |-> s] : n \in 3 .. 6, p \in 0 .. 15, s \in {2, 4}}

-----------------------------------------------------------------------------
(* Baselines: four steps of four values in two rows of two shards; slabs   *)
(* may have one, three or four steps by their bytes, and chunks have one   *)
(* or two.                                                                 *)

Steps(p) ==
  [t \in 1 .. 4 |-> [i \in 1 .. 4 |->
     IF p = 0 THEN 0 ELSE IF (t + i * p) % 3 = 0 \/ (i > 2 /\ p = 2) \/ (t < 3 /\ p = 3) THEN 0
     ELSE (t * p + i * i + p \div 2) % 4]]
Lossy(a, chunk) ==
  [t \in 1 .. 4 |-> [i \in 1 .. 4 |->
     IF IsFill(Chunk(a, chunk, <<(t - 1) \div chunk[1], (i - 1) \div chunk[2]>>)) THEN Fill
     ELSE a[t][i] + ((t + i) % 3) - 1]]
Ranks == {[b \in (0 .. 1) \X (0 .. 1) |-> 2 * b[1] + b[2]], [b \in (0 .. 1) \X (0 .. 1) |-> 3 - b[1] - 2 * b[2]]}
Scans ==
  {[kind |-> "scan", a |-> Steps(p), decoded |-> Lossy(Steps(p), c), inner |-> c, shard |-> <<2, 2>>,
    rank |-> r, sizes |-> [b \in DOMAIN r |-> 1 + ((b[1] + b[2]) % 2)], th |-> th, gap |-> g,
    slabBytes |-> s] :
     p \in 0 .. 7, th \in -1 .. 3, r \in Ranks, g \in 0 .. 3, s \in {1, 3, 4}, c \in {<<2, 2>>, <<1, 1>>}}

-----------------------------------------------------------------------------
(* PointReads: two chunks of 2 x 2 x 2 or 4 x 2 x 2 blocks. *)

Lay(chunk, unit_, order) == [chunk |-> chunk, unit |-> unit_, order |-> order, bytes |-> <<1>>]
Indexes ==
  {[b \in 0 .. 7 |-> [off |-> 2 * b, size |-> 2]], [b \in 0 .. 7 |-> [off |-> 21 - 3 * b, size |-> 1 + (b % 2)]],
   [b \in 0 .. 7 |-> [off |-> ((b * 5) % 8) + 4 * (b % 2), size |-> 1]]}
Stores ==
  {[nt |-> 2, lay |-> l, inner |-> <<2, 2, 2>>, shard |-> <<4, 4, 4>>, index |-> [t \in 0 .. 1 |-> IF t = 0 THEN i ELSE j]] :
     l \in {Lay(<<2, 2, 2>>, <<2, 1, 2>>, o) : o \in {<<1, 2, 3>>, <<2, 3, 1>>}}
             \cup {Lay(<<2, 2, 2>>, <<1, 2, 2>>, <<2, 3, 1>>), Lay(<<2, 2, 2>>, <<2, 2, 2>>, <<1, 2, 3>>),
                   Lay(<<2, 2, 2>>, <<2, 2, 2>>, <<2, 3, 1>>)},
     i \in Indexes, j \in Indexes}
Points == (0 .. 3) \X (0 .. 3)
Reads ==
  {[kind |-> "points", store |-> s, pts |-> p] :
     s \in Stores, p \in {<<q>> : q \in Points} \cup {<<<<0, 0>>, <<3, 3>>>>, <<<<3, 1>>, <<0, 2>>, <<2, 1>>>>}}

-----------------------------------------------------------------------------
(* Estimates: three values; a field of 8 x 4 values in blocks of 2 x 2 and *)
(* sub-chunks of 4 x 4.                                                    *)

Valued == {v \in [a : -1 .. 2, rec : -1 .. 3, e : 0 .. 1] : v.rec - v.a \in -v.e .. v.e}
Means == {[kind |-> "mean", values |-> <<u, v, w>>, th |-> th] : u, v, w \in Valued, th \in 0 .. 1}
Field(p) == [q \in (0 .. 7) \X (0 .. 3) |-> (q[1] * p + q[2] * q[2] * (p + 1) + (q[1] * q[2]) \div 3) % 11]
Regions ==
  {r \in [y : 0 .. 4, x : 0 .. 2, h : 1 .. 8, w : 1 .. 4] : r.y + r.h <= 8 /\ r.x + r.w <= 4}
Extremes == {[kind |-> "extremes", field |-> Field(p), region |-> r, slack |-> s] :
               p \in {1, 3, 5}, r \in Regions, s \in 0 .. 1}

-----------------------------------------------------------------------------

SmallInputs == Packings \cup Configs \cup Statistics \cup Scans \cup Reads \cup Means \cup Extremes
=============================================================================
