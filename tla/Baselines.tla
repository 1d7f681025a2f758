------------------------------ MODULE Baselines ------------------------------
(***************************************************************************)
(* The threshold queries that SkipZFP is compared with (baselines.py) and  *)
(* the statistics they skip by (chunk_stats and inner_stats in common.py,  *)
(* write_chunked and write_sharded in prepare_stores.py): chunk_zm skips   *)
(* whole chunks, inner_zm inner chunks of shards, full_scan nothing.       *)
(*                                                                         *)
(* An array is the sequence of its steps along time, a step the sequence   *)
(* of its values; a chunk shape is <<steps, values>>.  zarr leaves out     *)
(* chunks that hold fill values only: a store is a function on the chunks  *)
(* it has.  Reads are counted in any order and their sum is the result.    *)
(***************************************************************************)
EXTENDS Integers, Quantiles

CONSTANT Fill

(* A float is the number it stands for.  Arrays have steps of one length,  *)
(* chunks and shards cut them evenly, and inner chunks their shard.        *)
AreSteps(a) ==
  a \in Seq(Seq(Int)) /\ Places(a) # {} /\ \A t \in DOMAIN a : Len(a[t]) = Len(a[1])
IsCut(x, y, shape) ==
  shape \in (Nat \ {0}) \X (Nat \ {0}) /\ x % shape[1] = 0 /\ y % shape[2] = 0
(* What a lossy format made of an array: no value is further than eps off. *)
AreNear(a, decoded, eps) ==
  /\ AreSteps(decoded) /\ Len(decoded) = Len(a) /\ Len(decoded[1]) = Len(a[1])
  /\ \A p \in Places(a) : AtPlace(a, p) - AtPlace(decoded, p) \in -eps .. eps

-----------------------------------------------------------------------------
(* Statistics *)

Grid(a, chunk) == (0 .. (Len(a) \div chunk[1]) - 1) \X (0 .. (Len(a[1]) \div chunk[2]) - 1)
(* The values of chunk c. *)
Chunk(a, chunk, c) ==
  [t \in 1 .. chunk[1] |-> [i \in 1 .. chunk[2] |-> a[c[1] * chunk[1] + t][c[2] * chunk[2] + i]]]
ValuesOf(x) == {AtPlace(x, p) : p \in Places(x)}
Above(x, th) == Cardinality({p \in Places(x) : AtPlace(x, p) > th})

(* one: the least and the largest value of a chunk. *)
StatsOf(x) == [low |-> Min(ValuesOf(x)), high |-> Max(ValuesOf(x))]

(* The same by rows of chunks, one after another along time. *)
StatRows(slab, chunk) ==
  [t \in 1 .. Len(slab) \div chunk[1] |->
     [i \in 1 .. Len(slab[1]) \div chunk[2] |-> StatsOf(Chunk(slab, chunk, <<t - 1, i - 1>>))]]

(* chunk_stats, and inner_stats for inner chunks: slab after slab. *)
chunk_stats(a, chunk, step) ==
  LET parts == read_slabs(a, step)
      rows == FlattenSeq([i \in DOMAIN parts |-> StatRows(parts[i], chunk)])
  IN  [c \in (0 .. Len(rows) - 1) \X (0 .. Len(rows[1]) - 1) |-> rows[c[1] + 1][c[2] + 1]]

-----------------------------------------------------------------------------
(* Chunks *)

IsFill(x) == ValuesOf(x) = {Fill}

Kept(a, chunk) == {c \in Grid(a, chunk) : ~IsFill(Chunk(a, chunk, c))}

(* The objects of a store: what is decoded of a chunk, unless it is of     *)
(* fill values; decoded differs from a in the lossy format.                *)
StoredObjects(a, decoded, chunk) == [c \in Kept(a, chunk) |-> Chunk(decoded, chunk, c)]

FileNotFound == [found |-> FALSE]
Counted(n) == [found |-> TRUE, count |-> n]

(* stream: a missing object counts nothing, or is an error. *)
stream(objects, keys, th, missingOk) ==
  LET one == [k \in keys |-> IF k \in DOMAIN objects THEN Above(objects[k], th) ELSE 0]
  IN  IF keys \subseteq DOMAIN objects \/ missingOk THEN Counted(SumFunctionOnSet(one, keys))
      ELSE FileNotFound

(* What is read of the chunks besides those that lie above the threshold. *)
CountedWith(isIn, chunk, read) ==
  IF read.found THEN Counted(Cardinality(isIn) * chunk[1] * chunk[2] + read.count) ELSE read

InChunks(stats, eps, th) == {c \in DOMAIN stats : stats[c].low - eps > th}
MaybeChunks(stats, eps, th) ==
  {c \in DOMAIN stats : stats[c].low - eps <= th /\ stats[c].high + eps > th}

ChunkQuery(stats, objects, chunk, eps, th) ==
  CountedWith(InChunks(stats, eps, th), chunk,
              stream(objects, MaybeChunks(stats, eps, th), th, FALSE))

(* Mutant: the error of the lossy format does not widen the bounds. *)
chunk_zmExact(a, decoded, chunk, eps, step, th) ==
  ChunkQuery(chunk_stats(a, chunk, step), StoredObjects(a, decoded, chunk), chunk, 0, th)

chunk_zm(a, decoded, chunk, eps, step, th) ==
  ChunkQuery(chunk_stats(a, chunk, step), StoredObjects(a, decoded, chunk), chunk, eps, th)

full_scan(a, decoded, chunk, th) ==
  stream(StoredObjects(a, decoded, chunk), Grid(a, chunk), th, Fill <= th)

-----------------------------------------------------------------------------
(* Shards *)

(* Shard s begins with inner chunk <<s[1] * per[1], s[2] * per[2]>>. *)
ShardGrid(shard, inner) == <<shard[1] \div inner[1], shard[2] \div inner[2]>>
InShard(per) == (0 .. per[1] - 1) \X (0 .. per[2] - 1)
InnerChunk(per, s, b) == <<s[1] * per[1] + b[1], s[2] * per[2] + b[2]>>

(* write_sharded puts the inner chunks of a shard one behind another, with *)
(* sizes[b] bytes for inner chunk b, in the order of rank.                 *)
AreLaid(rank, sizes, per) ==
  /\ \A b \in InShard(per) : rank[b] \in Int /\ sizes[b] \in Nat \ {0}
  /\ \A b, c \in InShard(per) : rank[b] = rank[c] => b = c

(* The index has no entry for inner chunks of fill values. *)
IndexOf(stored, rank, sizes) ==
  [b \in stored |->
     [off |-> SumFunctionOnSet(sizes, {x \in stored : rank[x] < rank[b]}), size |-> sizes[b]]]

shard_index(a, shard, inner, rank, sizes) ==
  LET per == ShardGrid(shard, inner)
  IN  [s \in Grid(a, shard) |->
         IndexOf({b \in InShard(per) : ~IsFill(Chunk(a, inner, InnerChunk(per, s, b)))},
                 rank, sizes)]

(* The running maximum of the ends within a shard: the shards are lifted   *)
(* above each other by more than any end.                                  *)
RunEnd(items, i) ==
  LET span == Max({items[j].off + items[j].size : j \in DOMAIN items}) + 1
      Lift(j) == items[j].shard * span
  IN  Max({items[j].off + items[j].size + Lift(j) : j \in 1 .. i}) - Lift(i)

(* Mutant: a read goes on in the next shard. *)
BreaksInAnyShard(items, gap, i) ==
  i = 1 \/ items[i].off - RunEnd(items, i - 1) > gap

(* merge_runs: the items that start a read. *)
Breaks(items, gap, i) ==
  \/ i = 1
  \/ items[i].shard # items[i - 1].shard
  \/ items[i].off - RunEnd(items, i - 1) > gap

(* The first and last item of every read. *)
merge_runs(items, gap) ==
  {r \in (DOMAIN items) \X (DOMAIN items) :
     /\ r[1] <= r[2] /\ Breaks(items, gap, r[1])
     /\ \A i \in r[1] + 1 .. r[2] : ~Breaks(items, gap, i)
     /\ r[2] < Len(items) => Breaks(items, gap, r[2] + 1)}

(* The inner chunks that are stored at some bytes of a shard. *)
StoredAt(index, off, size) == {b \in DOMAIN index : index[b] = [off |-> off, size |-> size]}

(* The inner chunks of all shards, each with its statistics. *)
InnerChunks(index, stats, per) ==
  {[s |-> e[1], b |-> e[2], stats |-> stats[InnerChunk(per, e[1], e[2])]] :
     e \in (DOMAIN index) \X InShard(per)}
HasEntry(index, e) == e.b \in DOMAIN index[e.s]

InInner(chunks, th) == {e \in chunks : e.stats.low > th}
MaybeInner(chunks, th) == {e \in chunks : e.stats.low <= th /\ e.stats.high > th}

(* The items to read; cols shards lie in a row. *)
Item(index, e, cols) ==
  [shard |-> e.s[1] * cols + e.s[2], s |-> e.s,
   off |-> index[e.s][e.b].off, size |-> index[e.s][e.b].size]
Items(index, maybe, cols) == {Item(index, e, cols) : e \in {m \in maybe : HasEntry(index, m)}}
(* They are sorted by shard and then offset. *)
Sorted(items) ==
  LET Before(x, y) == x.shard < y.shard \/ (x.shard = y.shard /\ x.off < y.off)
  IN  [i \in 1 .. Cardinality(items) |->
         CHOOSE x \in items : Cardinality({y \in items : Before(y, x)}) = i - 1]

(* The values of an item, cut from the read (from, to) of its shard, that  *)
(* count: they are decoded from off - from on.                             *)
DecodedItem(a, index, per, inner, item, from, to, th) ==
  LET found == StoredAt(index[item.s], from + (item.off - from), item.size)
  IN  IF found = {} \/ item.off < from \/ item.off + item.size > to THEN 0
      ELSE Above(Chunk(a, inner, InnerChunk(per, item.s, CHOOSE b \in found : TRUE)), th)

ReadEnd(items, r) == Max({items[j].off + items[j].size : j \in r[1] .. r[2]})
(* The items of a read; it asks for the key of its first item's shard. *)
ReadCount(a, index, per, inner, items, r, th) ==
  SumFunctionOnSet(
    [i \in r[1] .. r[2] |->
       DecodedItem(a, index, per, inner, [items[i] EXCEPT !.s = items[r[1]].s],
                   items[r[1]].off, ReadEnd(items, r), th)],
    r[1] .. r[2])
InnerReads(a, index, per, inner, items, reads, th) ==
  SumFunctionOnSet([r \in reads |-> ReadCount(a, index, per, inner, items, r, th)], reads)

(* The bytes between two items of a read. *)
Bridged(items, reads) ==
  {items[i].off - items[i - 1].off - items[i - 1].size :
     i \in UNION {r[1] + 1 .. r[2] : r \in reads}}

(* The count without a read, of inner chunks of values each. *)
CountUnread(index, chunks, values, th) ==
  (Cardinality(InInner(chunks, th))
     + (IF Fill > th THEN Cardinality({e \in MaybeInner(chunks, th) : ~HasEntry(index, e)}) ELSE 0))
    * values

inner_zm(a, shard, inner, rank, sizes, gap, step, th) ==
  LET per == ShardGrid(shard, inner)
      index == shard_index(a, shard, inner, rank, sizes)
      chunks == InnerChunks(index, chunk_stats(a, inner, step), per)
      items == Sorted(Items(index, MaybeInner(chunks, th), Len(a[1]) \div shard[2]))
      reads == merge_runs(items, gap)
  IN  [count |-> CountUnread(index, chunks, inner[1] * inner[2], th)
                   + InnerReads(a, index, per, inner, items, reads, th),
       bridged |-> Bridged(items, reads)]

-----------------------------------------------------------------------------
(* Properties *)

(* Every baseline that answers counts the values above the threshold, of   *)
(* the array or of what its lossy format made of it; a lossless one always *)
(* answers unless it scans missing chunks of values that would count; and  *)
(* a read of a shard bridges no more than the gap.                         *)
BaselinesAgree(a, decoded, chunk, eps, shard, rank, sizes, gap, step, th) ==
  LET truth == Above(a, th)
      lossy == chunk_zm(a, decoded, chunk, eps, step, th)
      skipped == chunk_zm(a, a, chunk, 0, step, th)
      scanned == full_scan(a, a, chunk, th)
      sharded == inner_zm(a, shard, chunk, rank, sizes, gap, step, th)
  IN  /\ skipped = Counted(truth)
      /\ scanned.found => scanned.count = truth
      /\ Fill <= th => scanned.found
      /\ lossy.found => lossy.count = Above(decoded, th)
      /\ sharded.count = truth
      /\ \A g \in sharded.bridged : g <= gap
=============================================================================
