------------------------------ MODULE PointReads ------------------------------
(***************************************************************************)
(* Point queries (exp1_point_query.py): the whole time series of some grid *)
(* points, from a SkipZFP store whose block places are computed and not    *)
(* looked up (q_skipzfp), from a store of plain chunks (q_chunks) and from *)
(* a sharded store with an index (q_zshard).                               *)
(*                                                                         *)
(* A value is its coordinates <<t, y, x>>.  Reads and their decoding       *)
(* finish in any order, but each fills a place of its own, so a query is a *)
(* function.  A store is a record with the fields                          *)
(*   nt     chunks, or shards, along time                                  *)
(*   lay    ChunkLayout of a chunk with one layer and one byte a block     *)
(*   inner  values of a chunk, or of an inner chunk of a shard             *)
(*   shard  values of a shard                                              *)
(*   index  of every shard, the offset and size of its inner chunks        *)
(* SkipZFP chunks and shards span the whole plane, as those of the point   *)
(* suite do.  Points are <<y, x>>.                                         *)
(***************************************************************************)
EXTENDS Integers, ChunkLayout

CONSTANTS
  Side,      (* values of a block along each axis, 4 in the code           *)
  Gap        (* bytes a read may bridge                                    *)

ASSUME SideAssumption == Side \in Nat \ {0} /\ Gap \in Nat

(* The inner chunks of a shard do not overlap. *)
IsIndex(index, n) ==
  /\ index \in [0 .. n - 1 -> [off : Nat, size : Nat \ {0}]]
  /\ \A b, c \in 0 .. n - 1 : b # c => \/ index[b].off + index[b].size <= index[c].off
                                     \/ index[c].off + index[c].size <= index[b].off
IsStore(store) ==
  /\ store.nt \in Nat /\ IsLayout(store.lay)
  /\ nLayers(store.lay) = 1 /\ store.lay.bytes[1] = 1
  /\ CutsInto(store.shard, store.inner)
  /\ store.shard[2] = store.lay.chunk[2] * Side /\ store.shard[3] = store.lay.chunk[3] * Side
  /\ \A t \in 0 .. store.nt - 1 : IsIndex(store.index[t], Volume(DivBy(store.shard, store.inner)))
ArePoints(store, pts) == pts \in Seq((0 .. store.shard[2] - 1) \X (0 .. store.shard[3] - 1))

(* The coordinates of a chunk of the given shape, at chunk c of the grid.  *)
ValueAt(c, shape, x) ==
  <<c[1] * shape[1] + x[1], c[2] * shape[2] + x[2], c[3] * shape[3] + x[3]>>
(* np.unique *)
Unique(S) == [i \in 1 .. Cardinality(S) |-> CHOOSE b \in S : Cardinality({x \in S : x < b}) = i - 1]
ColumnOf(need, b) == CHOOSE i \in DOMAIN need : need[i] = b

-----------------------------------------------------------------------------
(* q_skipzfp *)

(* Mutant: the block order is forgotten. *)
PositionsUnranked(lay, pt) ==
  LET subs == DivBy(lay.chunk, lay.unit)
      s(d) == ((pt[d - 1] \div Side) % lay.chunk[d]) \div lay.unit[d]
      b(d) == (pt[d - 1] \div Side) % lay.unit[d]
  IN  [i \in 1 .. subs[1] * lay.unit[1] |->
         Ravel(<<(i - 1) \div lay.unit[1], s(2), s(3)>>, subs) * Volume(lay.unit)
           + Ravel(<<(i - 1) % lay.unit[1], b(2), b(3)>>, lay.unit)]

(* pos: the places, in every chunk, of the blocks above a point, in the    *)
(* order of time.                                                          *)
Positions(lay, pt) ==
  LET subs == DivBy(lay.chunk, lay.unit)
      s(d) == ((pt[d - 1] \div Side) % lay.chunk[d]) \div lay.unit[d]
      b(d) == (pt[d - 1] \div Side) % lay.unit[d]
  IN  [i \in 1 .. subs[1] * lay.unit[1] |->
         Ravel(<<(i - 1) \div lay.unit[1], s(2), s(3)>>, subs) * Volume(lay.unit)
           + BlockRank(lay, <<(i - 1) % lay.unit[1], b(2), b(3)>>)]

(* Reads of one chunk, as merge_ranges makes them from the needed blocks. *)
BlockReads(need) ==
  LET Starts(i) == i = 1 \/ need[i] > need[i - 1] + Gap + 1
  IN  {r \in [from : DOMAIN need, to : DOMAIN need] :
         /\ r.from <= r.to /\ Starts(r.from)
         /\ \A k \in r.from + 1 .. r.to : ~Starts(k)
         /\ r.to < Len(need) => Starts(r.to + 1)}

(* decode: column i of chunk t, from row need[i] - first_block of its read. *)
DecodedColumn(store, need, i) ==
  LET r == CHOOSE q \in BlockReads(need) : q.from <= i /\ i <= q.to
      data == [row \in 0 .. need[r.to] - need[r.from] |-> Stored(store.lay, need[r.from] + row).block]
  IN  data[need[i] - need[r.from]]

q_skipzfp(store, pts) ==
  LET lay == store.lay
      need == Unique(UNION {ToSet(Positions(lay, pts[k])) : k \in DOMAIN pts})
      block == [i \in DOMAIN need |-> DecodedColumn(store, need, i)]
      chunk == <<lay.chunk[1] * Side, lay.chunk[2] * Side, lay.chunk[3] * Side>>
  IN  [k \in DOMAIN pts |->
         [i \in 1 .. store.nt * chunk[1] |->
            LET t == (i - 1) \div chunk[1]
                j == ((i - 1) % chunk[1]) \div Side
                x == block[ColumnOf(need, Positions(lay, pts[k])[j + 1])]
                l == <<(i - 1) % Side, pts[k][1] % Side, pts[k][2] % Side>>
            IN  ValueAt(<<t, 0, 0>>, chunk, ValueAt(x, <<Side, Side, Side>>, l))]]

-----------------------------------------------------------------------------
(* q_chunks *)

q_chunks(store, pts) ==
  LET ch == store.inner
  IN  [k \in DOMAIN pts |->
         [i \in 1 .. store.nt * ch[1] |->
            ValueAt(<<(i - 1) \div ch[1], pts[k][1] \div ch[2], pts[k][2] \div ch[3]>>, ch,
                    <<(i - 1) % ch[1], pts[k][1] % ch[2], pts[k][2] % ch[3]>>)]]

-----------------------------------------------------------------------------
(* q_zshard *)

(* The inner chunks of a shard, along each axis. *)
PerShard(store) == DivBy(store.shard, store.inner)

InnerAbove(store, pt, i) ==
  Ravel(<<i, pt[1] \div store.inner[2], pt[2] \div store.inner[3]>>, PerShard(store))

(* order: the needed inner chunks by their offsets in the shard. *)
ByOffset(index, need) ==
  LET Off(b) == index[b].off
  IN  [i \in DOMAIN need |->
         CHOOSE b \in ToSet(need) : Cardinality({c \in ToSet(need) : Off(c) < Off(b)}) = i - 1]

(* groups: the reads of a shard. *)
Groups(index, need) ==
  LET order == ByOffset(index, need)
      Starts(i) ==
        i = 1 \/ index[order[i]].off - (index[order[i - 1]].off + index[order[i - 1]].size) > Gap
      First(i) == CHOOSE j \in 1 .. i : Starts(j) /\ \A k \in j + 1 .. i : ~Starts(k)
      EndOf(i) == CHOOSE j \in i .. Len(order) :
                    (\A k \in i + 1 .. j : ~Starts(k)) /\ (j < Len(order) => Starts(j + 1))
  IN  [b \in ToSet(need) |->
         LET i == CHOOSE j \in DOMAIN order : order[j] = b
         IN  [from |-> index[order[First(i)]].off,
              to |-> index[order[EndOf(i)]].off + index[order[EndOf(i)]].size]]

(* The bytes of shard t: of which inner chunk, and which of its bytes. *)
ShardByte(index, o) ==
  LET b == CHOOSE c \in DOMAIN index : index[c].off <= o /\ o < index[c].off + index[c].size
  IN  <<b, o - index[b].off>>
Holds(index, o) == \E c \in DOMAIN index : index[c].off <= o /\ o < index[c].off + index[c].size

(* The inner chunk whose bytes lie at the place where b is decoded, in the *)
(* bytes that its group has read.                                          *)
InnerDecoded(index, need, b) ==
  LET g == Groups(index, need)[b]
      data == [k \in 0 .. g.to - g.from - 1 |->
                 IF Holds(index, g.from + k) THEN ShardByte(index, g.from + k) ELSE <<>>]
  IN  data[index[b].off - g.from][1]

q_zshard(store, pts) ==
  LET inner == store.inner
      per == PerShard(store)
      need == Unique({InnerAbove(store, pts[k], i) : k \in DOMAIN pts, i \in 0 .. per[1] - 1})
      n == store.shard[1]
      found == [t \in 0 .. store.nt - 1 |->
                  [b \in ToSet(need) |-> InnerDecoded(store.index[t], need, b)]]
      Place(b) == CHOOSE x \in Coords(per) : Ravel(x, per) = b
  IN  [k \in DOMAIN pts |->
         [i \in 1 .. store.nt * n |->
            LET t == (i - 1) \div n
                j == ((i - 1) % n) \div inner[1]
            IN  ValueAt(<<t, 0, 0>>, store.shard,
                  ValueAt(Place(found[t][InnerAbove(store, pts[k], j)]), inner,
                          <<(i - 1) % inner[1], pts[k][1] % inner[2], pts[k][2] % inner[3]>>))]]

-----------------------------------------------------------------------------
(* Properties *)

Series(pts, steps) == [k \in DOMAIN pts |-> [i \in 1 .. steps |-> <<i - 1, pts[k][1], pts[k][2]>>]]

(* Every method returns, for every requested point, its stored values in   *)
(* the order of time, whatever the block order, the place of the inner     *)
(* chunks in their shard and the reads the points share.                   *)
PointsExact(store, pts) ==
  /\ q_skipzfp(store, pts) = Series(pts, store.nt * store.lay.chunk[1] * Side)
  /\ q_chunks(store, pts) = Series(pts, store.nt * store.inner[1])
  /\ q_zshard(store, pts) = Series(pts, store.nt * store.shard[1])
=============================================================================
