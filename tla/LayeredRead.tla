----------------------------- MODULE LayeredRead -----------------------------
(***************************************************************************)
(* A query at a precision layer above the first (_query_async and          *)
(* read_ranges in query.py).  A block's bits lie in several sections of    *)
(* its chunk, so the listed blocks are merged into reads once per layer,   *)
(* chunks that would take too many reads are read whole, and everything    *)
(* is read, in batches, before the rows of bytes are put together and      *)
(* decoded in one call.  The rows are allocated but not cleared, so what   *)
(* no read fills is whatever the memory held.                              *)
(*                                                                         *)
(* Layers count from 1 here and from 0 in the code.  The list of blocks is *)
(* the planner's, sorted by chunk and place in the chunk (PlanBlocks).     *)
(***************************************************************************)
EXTENDS ChunkLayout, BlockList

CONSTANTS
  Layouts,           (* layouts of the array                               *)
  Chunks,            (* its chunks, numbered from 0                        *)
  Wants,             (* the blocks to read: sets of [chunk, block] records *)
  Gaps,              (* values of merge_gap_blocks                         *)
  MaxChunkRequests,  (* values of max_chunk_requests                       *)
  BatchSizes,        (* values of request_batch_size                       *)
  Concurrency,       (* request_concurrency                                *)
  Unset              (* a byte that np.empty left as it was                *)

ASSUME ArrayAssumption ==
  /\ IsFiniteSet(Chunks) /\ Chunks \subseteq Nat
  /\ \A lay \in Layouts :
       IsLayout(lay) /\ Wants \subseteq SUBSET [chunk : Chunks, block : 0 .. nBlocks(lay) - 1]
ASSUME LimitsAssumption ==
  /\ Gaps \subseteq Nat
  /\ MaxChunkRequests \cup BatchSizes \cup {Concurrency} \subseteq Nat \ {0}

VARIABLES
  layout,  (* where the bytes lie                                          *)
  opts,    (* layer, gap, maxRequests and batch                            *)
  items,   (* the listed blocks, in order                                  *)
  pc,      (* "plan", "read", "decode" or "raised"                         *)
  reqs,    (* payload_reqs with their fills                                *)
  st,      (* of each request: "queued", "fetching" or "arrived"           *)
  parts,   (* payload_parts: the request whose bytes stand at each place   *)
  read,    (* requests of the batches that are over                        *)
  rows     (* the bytes of each listed block                               *)

vars == <<layout, opts, items, pc, reqs, st, parts, read, rows>>

n == Len(items)

Init ==
  /\ layout \in Layouts
  /\ \E want \in Wants : items = InOrder(want)
  /\ opts \in [layer : Layers(layout), gap : Gaps, maxRequests : MaxChunkRequests, batch : BatchSizes]
  /\ pc = "plan"
  /\ reqs = <<>> /\ st = <<>> /\ parts = <<>> /\ read = 0 /\ rows = <<>>

-----------------------------------------------------------------------------
(* The requests *)

(* The read of run r in layer j: bytes start up to but not end, for items   *)
(* from to to.  merge_ranges finds the same runs of items in every layer.  *)
LayerRead(j, r) ==
  LET base == LayerStart(layout, j)
  IN  [chunk |-> items[r.from].chunk, layer |-> j, from |-> r.from, to |-> r.to,
       first |-> items[r.from].block,
       start |-> base + items[r.from].block * layout.bytes[j],
       end |-> base + (items[r.to].block + 1) * layout.bytes[j]]
PerLayer == {LayerRead(j, r) : j \in 1 .. opts.layer, r \in Runs(items, opts.gap)}

(* Mutant: the reads of one layer are counted, as if the others were free. *)
DenseByLayer ==
  {c \in Chunks : Cardinality({r \in PerLayer : r.chunk = c /\ r.layer = 1}) > opts.maxRequests}

(* The chunks that are read whole, up to the chosen layer. *)
Dense ==
  {c \in Chunks : Cardinality({r \in PerLayer : r.chunk = c}) > opts.maxRequests}

(* Mutant: a whole chunk is read to its end. *)
PrefixEndOfChunk == ChunkBytes(layout)

PrefixEnd == Cut(layout, opts.layer + 1) * nBlocks(layout)

Whole == opts.layer + 1  (* the layer of a request for a whole chunk *)
WholeChunk(c) ==
  LET mine == {i \in 1 .. n : items[i].chunk = c}
  IN  [chunk |-> c, layer |-> Whole, from |-> Min(mine), to |-> Max(mine),
       first |-> 0, start |-> 0, end |-> PrefixEnd]

(* Mutant: the reads of a chunk that is read whole are not left out. *)
ChosenWithBoth == PerLayer \cup {WholeChunk(c) : c \in Dense}

Chosen == {r \in PerLayer : r.chunk \notin Dense} \cup {WholeChunk(c) : c \in Dense}

(* By layer and items; whole chunks are read last. *)
Ahead(q, r) == q.layer < r.layer \/ (q.layer = r.layer /\ q.from < r.from)
Requests ==
  LET all == Chosen
  IN  [k \in 1 .. Cardinality(all) |->
         CHOOSE r \in all : Cardinality({q \in all : Ahead(q, r)}) = k - 1]

Plan ==
  /\ pc = "plan"
  /\ opts.layer > 1
  /\ reqs' = Requests
  /\ st' = [r \in DOMAIN reqs' |-> "queued"]
  /\ parts' = [r \in DOMAIN reqs' |-> Unset]
  /\ pc' = "read"
  /\ UNCHANGED <<layout, opts, items, read, rows>>

-----------------------------------------------------------------------------
(* read_ranges *)

Batch == {r \in DOMAIN reqs : read < r /\ r <= read + opts.batch}

Fetch(r) ==
  /\ pc = "read" /\ r \in Batch
  /\ st[r] = "queued"
  /\ Cardinality({q \in DOMAIN st : st[q] = "fetching"}) < Concurrency
  /\ st' = [st EXCEPT ![r] = "fetching"]
  /\ UNCHANGED <<layout, opts, items, pc, reqs, parts, read, rows>>

(* Mutant: the parts are collected as they arrive. *)
ArriveInAnyOrder(r) ==
  /\ pc = "read" /\ st[r] = "fetching"
  /\ st' = [st EXCEPT ![r] = "arrived"]
  /\ parts' = [parts EXCEPT ![Min({q \in DOMAIN parts : parts[q] = Unset})] = r]
  /\ UNCHANGED <<layout, opts, items, pc, reqs, read, rows>>

(* gather puts each result at its request's place. *)
Arrive(r) ==
  /\ pc = "read" /\ st[r] = "fetching"
  /\ st' = [st EXCEPT ![r] = "arrived"]
  /\ parts' = [parts EXCEPT ![r] = r]
  /\ UNCHANGED <<layout, opts, items, pc, reqs, read, rows>>

(* A missing object, a short read or an error of the store: the query      *)
(* raises; what is still being read is dropped.                            *)
Fail(r) ==
  /\ pc = "read" /\ st[r] = "fetching"
  /\ pc' = "raised"
  /\ UNCHANGED <<layout, opts, items, reqs, st, parts, read, rows>>

EndBatch ==
  /\ pc = "read" /\ Batch # {}
  /\ \A r \in Batch : st[r] = "arrived"
  /\ read' = Max(Batch)
  /\ UNCHANGED <<layout, opts, items, pc, reqs, st, parts, rows>>

-----------------------------------------------------------------------------
(* The rows *)

(* Byte o of part r. *)
PartByte(r, o) ==
  LET q == reqs[parts[r]]
  IN  IF q.start + o < q.end
      THEN [chunk |-> q.chunk, at |-> Stored(layout, q.start + o)] ELSE Unset

(* Mutant: a part of a whole chunk is cut as if its layers were equal. *)
PlaceInPartOfEqual(r, i, j) ==
  IF reqs[r].layer = Whole
  THEN (j - 1) * layout.bytes[1] * nBlocks(layout) + items[i].block * layout.bytes[j]
  ELSE (items[i].block - reqs[r].first) * layout.bytes[j]

(* Where item i's bytes of layer j start in part r. *)
PlaceInPart(r, i, j) ==
  IF reqs[r].layer = Whole THEN LayerStart(layout, j) + items[i].block * layout.bytes[j]
  ELSE (items[i].block - reqs[r].first) * layout.bytes[j]

(* The parts that fill item i's bytes of layer j. *)
Fills(i, j) ==
  {r \in DOMAIN reqs : reqs[r].from <= i /\ i <= reqs[r].to /\ reqs[r].layer \in {j, Whole}}

RowByte(i, k) ==
  LET j == CHOOSE l \in 1 .. opts.layer : Cut(layout, l) <= k /\ k < Cut(layout, l + 1)
  IN  IF Fills(i, j) = {} THEN Unset
      ELSE LET r == Max(Fills(i, j)) IN PartByte(r, PlaceInPart(r, i, j) + k - Cut(layout, j))

(* All parts are there: the rows are filled and decoded. *)
Assemble ==
  /\ pc = "read" /\ read = Len(reqs)
  /\ rows' = [i \in 1 .. n |-> [k \in 0 .. Cut(layout, opts.layer + 1) - 1 |-> RowByte(i, k)]]
  /\ pc' = "decode"
  /\ UNCHANGED <<layout, opts, items, reqs, st, parts, read>>

Next ==
  \/ Plan
  \/ \E r \in DOMAIN reqs : Fetch(r) \/ Arrive(r) \/ Fail(r)
  \/ EndBatch
  \/ Assemble

Spec == Init /\ [][Next]_vars

-----------------------------------------------------------------------------
(* Properties *)

(* The bytes decoded for a listed block are the first bytes of the stream  *)
(* of the block whose zone map record was classified, up to the chosen     *)
(* layer, whichever reads brought them in whatever order: none is left as  *)
(* np.empty made it and none is another block's.                           *)
RowsRight ==
  pc = "decode" => \A i \in 1 .. n :
    LET x == CHOOSE y \in Blocks(layout) : RecordPlace(layout, y) = items[i].block
    IN  rows[i] = [k \in 0 .. Cut(layout, opts.layer + 1) - 1 |->
                     [chunk |-> items[i].chunk, at |-> [block |-> x, byte |-> k]]]

(* max_chunk_requests: no chunk takes more reads than that, over all       *)
(* layers together.                                                        *)
RequestsBounded ==
  \A c \in Chunks :
    Cardinality({r \in DOMAIN reqs : reqs[r].chunk = c}) <= opts.maxRequests

(* No byte is read twice, in one layer or in two, so that                  *)
(* payload_overread_bytes counts unneeded bytes and is never negative.     *)
NoByteTwice ==
  \A q, r \in DOMAIN reqs :
    q # r /\ reqs[q].chunk = reqs[r].chunk =>
      reqs[q].end <= reqs[r].start \/ reqs[r].end <= reqs[q].start

(* A query at a lower layer reads none of the bytes of the layers above.   *)
PrefixOnly ==
  \A r \in DOMAIN reqs : \A o \in reqs[r].start .. reqs[r].end - 1 :
    o < LayerStart(layout, opts.layer + 1)

(* Every chunk is read back as it was written.                             *)
ReadsBack == pc = "plan" => UnpackUndoesPack(layout)

(* Zone map records, stored chunks and queries agree on every block's place. *)
PlacesAgree == pc = "plan" => BlocksInPlace(layout)

(* The reads are few, disjoint and within the chosen layer.                *)
RequestsTight == RequestsBounded /\ NoByteTwice /\ PrefixOnly

(* Chunks are read back as written, block by block and whole.              *)
ChunksReadBack == ReadsBack /\ PlacesAgree
=============================================================================
