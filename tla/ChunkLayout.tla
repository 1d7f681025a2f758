----------------------------- MODULE ChunkLayout -----------------------------
(***************************************************************************)
(* Where the bytes of a block lie in a stored chunk (SkipZFPCodec.pack,    *)
(* unpack, block_rank and unit_slices in codec.py; get_layout in query.py). *)
(* A chunk is cut into units, each unit is encoded block by block in C     *)
(* order, its blocks are put in the codec's block order, and the bytes of  *)
(* all blocks are then stored layer by layer.                              *)
(*                                                                         *)
(* A block is its coordinates in the chunk, and byte k of its fixed-rate   *)
(* ZFP stream is the record [block, byte]: ZFP itself is not modelled.  A  *)
(* layout is a record with the fields                                      *)
(*   chunk  blocks of a chunk along each axis                              *)
(*   unit   blocks of a unit along each axis, dividing chunk               *)
(*   order  block_order, axes counted from 1                               *)
(*   bytes  layer_bytes, what each layer adds to a block                   *)
(***************************************************************************)
EXTENDS Naturals, Sequences, FiniteSetsExt, SequencesExt

Shape == (Nat \ {0}) \X (Nat \ {0}) \X (Nat \ {0})
CutsInto(whole, part) ==
  /\ whole \in Shape /\ part \in Shape
  /\ \A d \in 1 .. 3 : whole[d] % part[d] = 0

Coords(dims) == (0 .. dims[1] - 1) \X (0 .. dims[2] - 1) \X (0 .. dims[3] - 1)
Volume(dims) == dims[1] * dims[2] * dims[3]
(* The C-order index of x in a grid. *)
Ravel(x, dims) == (x[1] * dims[2] + x[2]) * dims[3] + x[3]
Permuted(x, order) == <<x[order[1]], x[order[2]], x[order[3]]>>
DivBy(x, dims) == <<x[1] \div dims[1], x[2] \div dims[2], x[3] \div dims[3]>>
ModBy(x, dims) == <<x[1] % dims[1], x[2] % dims[2], x[3] % dims[3]>>

Blocks(lay) == Coords(lay.chunk)
nBlocks(lay) == Volume(lay.chunk)
nLayers(lay) == Len(lay.bytes)
Layers(lay) == 1 .. nLayers(lay)

(* What __post_init__ and validate leave of a codec's fields. *)
IsLayout(lay) ==
  /\ CutsInto(lay.chunk, lay.unit)
  /\ lay.order \in (1 .. 3) \X (1 .. 3) \X (1 .. 3)
  /\ \A a, b \in 1 .. 3 : lay.order[a] = lay.order[b] => a = b
  /\ lay.bytes \in Seq(Nat \ {0}) /\ lay.bytes # <<>>

(* The storage position of block x of a unit. *)
BlockRank(lay, x) == Ravel(Permuted(x, lay.order), Permuted(lay.unit, lay.order))

UnitIndex(lay, x) == Ravel(DivBy(x, lay.unit), DivBy(lay.chunk, lay.unit))
InUnit(lay, x) == ModBy(x, lay.unit)

(* The position that a zone map record gives block x of the chunk. *)
RecordPlace(lay, x) == UnitIndex(lay, x) * Volume(lay.unit) + BlockRank(lay, InUnit(lay, x))

-----------------------------------------------------------------------------
(* pack *)

(* Mutant: the block order of a single unit is forgotten. *)
PlainInAnyOrder(lay) == nLayers(lay) = 1 /\ lay.unit = lay.chunk

(* A chunk that one C call encodes. *)
Plain(lay) == nLayers(lay) = 1 /\ lay.order = <<1, 2, 3>> /\ lay.unit = lay.chunk

(* The rows of encoded blocks that pack concatenates: those of unit u      *)
(* start at u times the unit's blocks, its block x at x's rank.            *)
RowAt(lay, p) ==
  LET n == Volume(lay.unit)
  IN  CHOOSE x \in Blocks(lay) :
        UnitIndex(lay, x) = p \div n /\ BlockRank(lay, InUnit(lay, x)) = p % n

(* Bytes of a block before layer j, as np.cumsum gives them. *)
Cut(lay, j) == SumFunctionOnSet(lay.bytes, 1 .. j - 1)
BlockBytes(lay) == Cut(lay, nLayers(lay) + 1)

(* layer_starts *)
LayerStart(lay, j) == Cut(lay, j) * nBlocks(lay)
ChunkBytes(lay) == BlockBytes(lay) * nBlocks(lay)

(* The byte at offset o of the stored chunk. *)
Stored(lay, o) ==
  IF Plain(lay)
  THEN [block |-> CHOOSE x \in Blocks(lay) : Ravel(x, lay.chunk) = o \div BlockBytes(lay),
        byte |-> o % BlockBytes(lay)]
  ELSE LET j == CHOOSE i \in Layers(lay) :
                  Cut(lay, i) * nBlocks(lay) <= o /\ o < Cut(lay, i + 1) * nBlocks(lay)
           within == o - Cut(lay, j) * nBlocks(lay)
       IN  [block |-> RowAt(lay, within \div lay.bytes[j]),
            byte |-> Cut(lay, j) + (within % lay.bytes[j])]

-----------------------------------------------------------------------------
(* unpack *)

(* The stream of the block in row number row: its part in every layer. *)
RowBytes(lay, row) ==
  [k \in 0 .. BlockBytes(lay) - 1 |->
     LET j == CHOOSE i \in Layers(lay) : Cut(lay, i) <= k /\ k < Cut(lay, i + 1)
     IN  Stored(lay, Cut(lay, j) * nBlocks(lay) + row * lay.bytes[j] + k - Cut(lay, j))]

(* Mutant: the rows are ranked a second time instead of put back. *)
UnpackedRankedTwice(lay, x) ==
  LET y == CHOOSE z \in Coords(lay.unit) : BlockRank(lay, z) = Ravel(InUnit(lay, x), lay.unit)
  IN  RowBytes(lay, UnitIndex(lay, x) * Volume(lay.unit) + Ravel(y, lay.unit))

(* The bytes that unpack hands to the decoder for block x: the rows of a   *)
(* unit are put back in C order.                                           *)
Unpacked(lay, x) ==
  RowBytes(lay, IF Plain(lay) THEN Ravel(x, lay.chunk)
                ELSE UnitIndex(lay, x) * Volume(lay.unit) + BlockRank(lay, InUnit(lay, x)))

-----------------------------------------------------------------------------
(* Properties of a layout *)

(* Every chunk is read back as it was written: unpack finds the whole      *)
(* stream of every block.                                                  *)
UnpackUndoesPack(lay) ==
  \A x \in Blocks(lay) :
    Unpacked(lay, x) = [k \in 0 .. BlockBytes(lay) - 1 |-> [block |-> x, byte |-> k]]

(* The place a zone map record gives a block is where a query finds its    *)
(* bytes, layer by layer, also in a chunk that was encoded in one call.    *)
BlocksInPlace(lay) ==
  \A x \in Blocks(lay), j \in Layers(lay) :
    \A k \in 0 .. lay.bytes[j] - 1 :
      Stored(lay, LayerStart(lay, j) + RecordPlace(lay, x) * lay.bytes[j] + k)
        = [block |-> x, byte |-> Cut(lay, j) + k]
=============================================================================
