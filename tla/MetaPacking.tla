----------------------------- MODULE MetaPacking -----------------------------
(***************************************************************************)
(* The bytes of the zone map (meta_size, pack_codes, pack_meta and their   *)
(* inverses in codec.py, unpack_records and plan_meta in query.py): the    *)
(* record write_meta makes of a unit, the planar packing of one object's   *)
(* records, and what a query turns them back into for the C planner, which *)
(* knows records with one error bound only.                                *)
(*                                                                         *)
(* Bytes are modulo ByteValues.  A float of a record is one byte here and  *)
(* four in the code; two codes of CodeValues values share a byte.          *)
(***************************************************************************)
EXTENDS Integers, Sequences, SequencesExt, Functions

CONSTANTS ByteValues, CodeValues

ASSUME BytesAssumption ==
  /\ CodeValues \in Nat \ {0} /\ ByteValues = CodeValues * CodeValues

Bytes == 0 .. ByteValues - 1
Codes == 0 .. CodeValues - 1

(* A unit: its bounds low and high, the error bound eps of each layer, the *)
(* offsets qmin and qmax of its blocks and their error codes, or no codes. *)
(* The units of an object are alike.                                       *)
AreUnits(units) ==
  /\ units \in Seq([low : Bytes, high : Bytes, eps : Seq(Bytes),
                    qmin : Seq(Bytes), qmax : Seq(Bytes), codes : Seq(Codes)])
  /\ units # <<>>
  /\ LET first == units[1]
         blocks == Len(first.qmin)
     IN  /\ Len(first.eps) > 0 /\ blocks > 0 /\ Len(first.codes) \in {0, blocks}
         /\ \A i \in DOMAIN units :
              /\ Len(units[i].eps) = Len(first.eps) /\ Len(units[i].codes) = Len(first.codes)
              /\ Len(units[i].qmin) = blocks /\ Len(units[i].qmax) = blocks

-----------------------------------------------------------------------------
(* The record of a unit *)

meta_size(nLayers, nBlocks, hasCodes) ==
  2 + nLayers + 2 * nBlocks + IF hasCodes THEN (nBlocks + 1) \div 2 ELSE 0

Code(q, i) == IF i \in DOMAIN q THEN q[i] ELSE 0
(* The first code in the low half; a missing last one is 0. *)
pack_codes(q) ==
  [i \in 1 .. (Len(q) + 1) \div 2 |-> Code(q, 2 * i - 1) + CodeValues * Code(q, 2 * i)]
unpack_codes(p, n) ==
  [i \in 1 .. n |-> IF i % 2 = 1 THEN p[(i + 1) \div 2] % CodeValues ELSE p[i \div 2] \div CodeValues]

Lead(u) == <<u.low, u.high>> \o u.eps
Offsets(u) == [k \in 1 .. 2 * Len(u.qmin) |-> IF k % 2 = 1 THEN u.qmin[(k + 1) \div 2] ELSE u.qmax[k \div 2]]

(* write_meta's one, for the offsets and codes in storage order. *)
RecordOf(u) == Lead(u) \o Offsets(u) \o pack_codes(u.codes)

-----------------------------------------------------------------------------
(* The packing of an object's records *)

Column(rec, from, to) == FlattenSeq([r \in DOMAIN rec |-> SubSeq(rec[r], from, to)])

Mod(x) == x % ByteValues
Minimum(r, lead, b) == r[lead + 2 * b - 1]

(* Leading bytes, differences of the minima, widths, codes: record by      *)
(* record within each.                                                     *)
pack_meta(rec, lead, blocks) ==
  LET Differences(r) ==
        [b \in 1 .. blocks |->
           Mod(Minimum(r, lead, b) - IF b = 1 THEN 0 ELSE Minimum(r, lead, b - 1))]
      Widths(r) == [b \in 1 .. blocks |-> Mod(r[lead + 2 * b] - Minimum(r, lead, b))]
  IN  Column(rec, 1, lead)
        \o FlattenSeq([i \in DOMAIN rec |-> Differences(rec[i])])
        \o FlattenSeq([i \in DOMAIN rec |-> Widths(rec[i])])
        \o FlattenSeq([i \in DOMAIN rec |-> SubSeq(rec[i], lead + 2 * blocks + 1, Len(rec[i]))])

(* Mutant: the differences are summed over all records of the object. *)
MinimumFoldedThrough(dmin, blocks, i, b) == Mod(SumFunctionOnSet(dmin, 1 .. (i - 1) * blocks + b))

(* np.cumsum along the blocks of record i, in bytes. *)
MinimumFolded(dmin, blocks, i, b) ==
  Mod(SumFunctionOnSet(dmin, (i - 1) * blocks + 1 .. (i - 1) * blocks + b))

unpack_meta(buf, size, lead, blocks) ==
  LET n == Len(buf) \div size
      tail == size - lead - 2 * blocks
      dmin == SubSeq(buf, n * lead + 1, n * (lead + blocks))
      width == SubSeq(buf, n * (lead + blocks) + 1, n * (lead + 2 * blocks))
      end == n * (lead + 2 * blocks)
      qmin(i, b) == MinimumFolded(dmin, blocks, i, b)
  IN  [i \in 1 .. n |->
         SubSeq(buf, (i - 1) * lead + 1, i * lead)
           \o [k \in 1 .. 2 * blocks |->
                 LET b == (k + 1) \div 2
                 IN  IF k % 2 = 1 THEN qmin(i, b)
                     ELSE Mod(qmin(i, b) + width[(i - 1) * blocks + b])]
           \o SubSeq(buf, end + (i - 1) * tail + 1, end + i * tail)]

(* unpack_records: the first n records of an object are packed, what is    *)
(* behind them is padding and stays.                                       *)
unpack_records(buf, size, n, lead, blocks) ==
  FlattenSeq(unpack_meta(SubSeq(buf, 1, n * size), size, lead, blocks))
    \o SubSeq(buf, n * size + 1, Len(buf))

-----------------------------------------------------------------------------
(* What the planner is given *)

Rows(buf, size) == [i \in 1 .. Len(buf) \div size |-> SubSeq(buf, (i - 1) * size + 1, i * size)]

(* plan_meta: the error bound of one layer is kept in each record. *)
plan_meta(rows, nLayers, layer) ==
  [i \in DOMAIN rows |->
     SubSeq(rows[i], 1, 2) \o <<rows[i][2 + layer]>> \o SubSeq(rows[i], 3 + nLayers, Len(rows[i]))]

-----------------------------------------------------------------------------
(* Property *)

(* What a query hands to the planner, after an object was packed, padded,  *)
(* read and unpacked, are the records of its units with the chosen layer's *)
(* error bound, of the size the planner is told, and its codes unpack to   *)
(* the units' codes.                                                       *)
RecordsReadBack(units, padding) ==
  LET layers == Len(units[1].eps)
      blocks == Len(units[1].qmin)
      coded == Len(units[1].codes) > 0
      size == meta_size(layers, blocks, coded)
      lead == 2 + layers
      records == [i \in DOMAIN units |-> RecordOf(units[i])]
      stored == pack_meta(records, lead, blocks) \o padding
      rows == Rows(SubSeq(unpack_records(stored, size, Len(units), lead, blocks), 1, Len(units) * size), size)
  IN  \A layer \in 1 .. layers, i \in DOMAIN units :
        LET u == units[i]
            row == plan_meta(rows, layers, layer)[i]
        IN  /\ row = RecordOf([u EXCEPT !.eps = <<u.eps[layer]>>])
            /\ Len(row) = size - (layers - 1)
            /\ unpack_codes(SubSeq(row, 4 + 2 * blocks, Len(row)), Len(u.codes)) = u.codes
=============================================================================
