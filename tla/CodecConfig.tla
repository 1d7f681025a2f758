----------------------------- MODULE CodecConfig -----------------------------
(***************************************************************************)
(* The codec's configuration (SkipZFPCodec in codec.py, szfp_calc_layout   *)
(* in core.c, get_layout in query.py): what a codec may be, how it is      *)
(* stored in an array's zarr.json and found there again, and which arrays  *)
(* the writer, the reader of a chunk and a query accept.                   *)
(*                                                                         *)
(* Rates are in sixteenths of a bit, half bytes of a block of 64 values.   *)
(* Not every rate that is accepted is one that ZFP can keep: the library   *)
(* takes some least number of bits for a block and writes whole words, and *)
(* nothing compares that with the size of the buffer (InBuffer).  Shapes are   *)
(* sequences of lengths in values.                                         *)
(***************************************************************************)
EXTENDS Integers, Sequences, SequencesExt, Functions

CONSTANTS
  BlockDim,  (* 4 in the code                                              *)
  LeastBits, (* of a float block in ZFP: 9, a flag and an exponent         *)
  WordBits,  (* of a word of ZFP's bit stream: 64 unless built otherwise   *)
  Absent     (* a key that a configuration does not have                   *)

ASSUME BlockDimAssumption == BlockDim \in Nat \ {0}
ASSUME BitsAssumption == LeastBits \in Nat \ {0} /\ WordBits \in Nat \ {0}
ASSUME AbsentAssumption == Absent \notin Int /\ Absent \notin Seq(Int)

(* Arguments of a codec of their annotated types, and the lengths of an    *)
(* array and of its chunks.                                                *)
AreArguments(c) ==
  c \in [rate : Int, block_dim : Int, layers : Seq(Int), block_order : Seq(Int),
         sub_chunk : Seq(Int), block_error_bits : Int]
IsArray(shape, chunk) ==
  shape \in Seq(Nat) /\ chunk \in Seq(Nat \ {0}) /\ Len(chunk) = Len(shape)

Product(s) == s[1] * s[2] * s[3]

-----------------------------------------------------------------------------
(* __post_init__ *)

Increasing(s) == \A i \in 1 .. Len(s) - 1 : s[i] < s[i + 1]

WholeBytes(rate) == rate % 2 = 0

Valid(c) ==
  /\ c.rate > 0 /\ c.block_dim = BlockDim
  /\ c.layers # <<>> =>
       /\ Increasing(c.layers) /\ Last(c.layers) = c.rate
       /\ \A i \in DOMAIN c.layers : c.layers[i] > 0
  /\ \A r \in {c.rate} \cup ToSet(c.layers) : WholeBytes(r)
  /\ Len(c.block_order) = 3 /\ ToSet(c.block_order) = {0, 1, 2}
  /\ c.sub_chunk # <<>> =>
       Len(c.sub_chunk) = 3
         /\ \A i \in 1 .. 3 : c.sub_chunk[i] > 0 /\ c.sub_chunk[i] % BlockDim = 0
  /\ c.block_error_bits \in {0, 4}
  /\ c.block_error_bits = 4 => Len(c.layers) < 2

(* The codec that is made of valid arguments. *)
Codec(c) == [c EXCEPT !.layers = IF c.layers = <<>> THEN <<c.rate>> ELSE c.layers]

-----------------------------------------------------------------------------
(* zarr.json *)

(* to_dict; block_error_bits is written only when it is used. *)
to_dict(c) ==
  [name |-> "skipzfp", rate |-> c.rate, block_dim |-> c.block_dim, layers |-> c.layers,
   block_order |-> c.block_order, sub_chunk |-> c.sub_chunk,
   block_error_bits |-> IF c.block_error_bits = 0 THEN Absent ELSE 4]

(* cfg.get(key, default) and cfg.get(key) or default *)
Get(value, default) == IF value = Absent THEN default ELSE value
GetOr(value, default) == IF value \in {Absent, <<>>} THEN default ELSE value

(* from_dict, for an entry with the codec's name. *)
from_dict(d) ==
  Codec([rate |-> Get(d.rate, 128), block_dim |-> Get(d.block_dim, 4),
         layers |-> GetOr(d.layers, <<>>), block_order |-> GetOr(d.block_order, <<0, 1, 2>>),
         sub_chunk |-> GetOr(d.sub_chunk, <<>>), block_error_bits |-> Get(d.block_error_bits, 0)])

(* check_source compares what write_meta recorded with what to_dict gives  *)
(* for the codec zarr made of the array's zarr.json.                       *)
SourceCodecMatches(c) == to_dict(from_dict(to_dict(c))) = to_dict(c)

-----------------------------------------------------------------------------
(* Layouts *)

unit(c, shape) == IF c.sub_chunk = <<>> THEN shape ELSE c.sub_chunk

layer_bytes(c) ==
  [j \in DOMAIN c.layers |-> (c.layers[j] - IF j = 1 THEN 0 ELSE c.layers[j - 1]) \div 2]

Divides(parts, whole) == \A d \in DOMAIN whole : whole[d] % parts[d] = 0
InBlocks(shape) == \A d \in DOMAIN shape : shape[d] % BlockDim = 0

(* Mutant: the units are compared with the array. *)
validateUnitsOfArray(c, dtype, shape, chunk) ==
  /\ dtype = "float32" /\ Len(shape) = 3
  /\ Len(chunk) = 3 => InBlocks(chunk) /\ Divides(unit(c, chunk), shape) /\ Divides(chunk, shape)

(* validate, when an array is created. *)
validate(c, dtype, shape, chunk) ==
  /\ dtype = "float32" /\ Len(shape) = 3
  /\ Len(chunk) = 3 => InBlocks(chunk) /\ Divides(unit(c, chunk), chunk) /\ Divides(chunk, shape)

(* chunk_shape, when a chunk is encoded or decoded. *)
chunk_shape_ok(c, dtype, chunk) ==
  /\ Len(chunk) = 3
  /\ \A d \in DOMAIN chunk : chunk[d] > 0
  /\ InBlocks(chunk) /\ Divides(unit(c, chunk), chunk)
  /\ dtype = "float32"

blocks(shape) == Product([d \in DOMAIN shape |-> shape[d] \div BlockDim])

(* szfp_calc_layout: the payload of a chunk. *)
data_size(c, chunk) == (blocks(chunk) * c.rate) \div 2

(* zfp_stream_set_rate raises what is too low for a block; zfp_compress    *)
(* then writes n blocks, up to a whole word.                               *)
zfp_bits(r) == IF 4 * r < LeastBits THEN LeastBits ELSE 4 * r
zfp_compressed(n, r) == ((n * zfp_bits(r) + WordBits - 1) \div WordBits) * WordBits
(* compress_chunk writes within the buffer, which is the payload's size.   *)
InBuffer(n, r) == zfp_compressed(n, r) <= 8 * ((n * r) \div 2)

(* A unit of a chunk is encoded by pack, and described at the rate of each *)
(* layer by szfp_meta.                                                     *)
encode_ok(c, u) ==
  /\ data_size(c, u) % blocks(u) = 0 /\ 2 * (data_size(c, u) \div blocks(u)) = c.rate
  /\ InBuffer(blocks(u), c.rate)
meta_ok(c, u) == \A r \in ToSet(c.layers) : InBuffer(blocks(u), r)

(* get_layout, when a query starts; its result is the block size and the   *)
(* places of the layers.                                                   *)
query_ok(c, shape, chunk) ==
  /\ Len(shape) = 3 /\ Len(chunk) = 3
  /\ Divides(chunk, shape)
  /\ c.rate > 0 /\ c.block_dim > 0 /\ InBlocks(chunk)
  /\ blocks(chunk) > 0 /\ data_size(c, chunk) > 0 /\ data_size(c, chunk) % blocks(chunk) = 0
Layout(c, shape, chunk) ==
  [block_size |-> data_size(c, chunk) \div blocks(chunk),
   layer_starts |->
     [j \in DOMAIN c.layers |-> blocks(chunk) * SumFunctionOnSet(layer_bytes(c), 1 .. j - 1)],
   grid_shape |-> [d \in DOMAIN chunk |-> shape[d] \div chunk[d]],
   unit_grid |-> [d \in DOMAIN chunk |-> (shape[d] \div chunk[d]) * (chunk[d] \div unit(c, chunk)[d])],
   blocks_per_unit |-> blocks(unit(c, chunk))]

(* szfp_plan_blocks accepts the grid. *)
plan_ok(lt) == Product(lt.grid_shape) > 0

-----------------------------------------------------------------------------
(* Property *)

(* What ZFP needs to keep a unit within its payload at a layer's rate.     *)
Keeps(c, u) ==
  \A r \in ToSet(c.layers) : 4 * r >= LeastBits /\ (blocks(u) * 4 * r) % WordBits = 0

(* An array that can be created is one whose chunks the encoder and the    *)
(* decoder accept and whose blocks a query can place: its layers fill the  *)
(* block, its units the chunks and its chunks the grid without a rest, and *)
(* its codec is the same again when zarr reads it from the array.  Two     *)
(* kinds of accepted arrays fail later, and no others: those with a rate   *)
(* too low for ZFP or with units whose payload is not whole words, which   *)
(* are written past their buffer, and empty ones, which are not planned.   *)
AcceptedIsReadable(arguments, dtype, shape, chunk) ==
  Valid(arguments) /\ validate(Codec(arguments), dtype, shape, chunk) =>
    LET c == Codec(arguments)
        lt == Layout(c, shape, chunk)
        u == unit(c, chunk)
        n == Len(c.layers)
    IN  /\ Valid(c) /\ from_dict(to_dict(c)) = c /\ SourceCodecMatches(c)
        /\ chunk_shape_ok(c, dtype, chunk) /\ query_ok(c, shape, chunk)
        /\ encode_ok(c, u) /\ meta_ok(c, u) <=> Keeps(c, u)
        /\ plan_ok(lt) <=> \A d \in DOMAIN shape : shape[d] > 0
        /\ \A j \in DOMAIN c.layers : layer_bytes(c)[j] > 0
        /\ lt.layer_starts[n] + blocks(chunk) * layer_bytes(c)[n] = data_size(c, chunk)
        /\ lt.block_size * blocks(chunk) = data_size(c, chunk)
        /\ Product(lt.unit_grid) * lt.blocks_per_unit = Product(lt.grid_shape) * blocks(chunk)
=============================================================================
