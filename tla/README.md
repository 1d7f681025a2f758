# Verification of SkipZFP

SkipZFP stores Zarr arrays with fixed-rate ZFP and keeps, beside each array, a
*zone map*: per unit (a chunk or a sub-chunk) the minimum, the maximum and the
largest error of the codec, and per block of 4 x 4 x 4 values a minimum and a
maximum rounded outward to 8 bits. A query `lo < x <= hi` classifies every
block as IN, OUT or MAYBE from the zone map alone, reads only the MAYBE blocks,
and decodes each read as soon as it arrives. This directory holds TLA+ models of
that program, the TLC runs that check them, and TLAPS proofs about them.

Contents: 1 inventory, 2 modules, 3 runs, 4 bounds, 5 fairness, 6 proofs,
7 disagreements with the documentation and other observations, 8 what is not
modelled.

## 1. Inventory

Paths are relative to `src/skipzfp/`, in the last three rows to `src/experiments/`.

| Part | Source | State it keeps | Operations | Interacts with |
|---|---|---|---|---|
| Byte budget and streamed reads | `query.py` `ByteBudget`, `read_one`, `stream_count`, `pool`; `aggregate.py` `stream_aggregate` | `used`, `peak`, a condition variable, a semaphore, a thread pool | acquire, release, download, decode | object store, decoder pool, query tasks |
| Pipelined query | `query.py` `_query_pipelined`; `aggregate.py` `_aggregate_pipelined` | one task per zone map object | fetch, plan, merge, stream, gather | byte budget, planner, merger |
| Plain and layered query | `query.py` `QueryOptions`, `get_layout`, `read_meta`, `_query_async`, `read_ranges`; `aggregate.py` `_aggregate_async`, `_read_listed` | reads per layer, dense chunks, rows | read, plan, merge, read in batches, assemble | planner, merger, store |
| Planner | `csrc/query.c` `plan_blocks`, `classify_unit` | per-chunk counts, prefix sums, output lists | two parallel passes | zone map records |
| Read merger | `csrc/query.c` `szfp_merge_ranges`; `query.py` `merge_ranges` | the current run | sort, extend or start a run | planner's block list |
| Zone map record | `csrc/core.c` `szfp_meta`; `codec.py` `pack_meta`, `block_rank`, `block_error_codes` | bytes of one unit | build, pack, unpack | codec, planner |
| Zone map life cycle | `codec.py` `write_meta`, `check_meta`, `check_source`, `chunk_crc32`; `query.py` `meta_objects`, `read_meta_object` | chunk objects, zone map objects, attributes | write, rebuild, check, query | store |
| Aggregates | `csrc/query.c` `aggregate_block`; `aggregate.py` `combine` | totals of every read | decode, add, combine | planner, streamed reads |
| Codec configuration and chunk layout | `codec.py` `SkipZFPCodec`; `csrc/codec.c`, `csrc/core.c` | rate, layers, block order, sub-chunk | check, store in `zarr.json`, encode, decode, pack, unpack | zarr, libzfp |
| Predicate bounds | `query.py` `range_bounds`, `_below_f32`; `csrc/query.c` `float_at_most` | none | move inclusive and exclusive bounds to float32 | all queries |
| Fast decoder | `csrc/fastdec.c` | bit position, planes | decode planes, inverse lift | queries, aggregates |
| Native loader | `_native.py`, `query.py` `native` | a table of C functions | load | everything in C |
| Experiments: algorithms | `common.py`, `baselines.py`, `prepare_stores.py`, `exp1_point_query.py`, `exp3_aggregate.py`, `exp4_filtered_aggregate.py` | none between calls | quantiles over slabs, chunk statistics, baseline scans, point queries, intervals from bounds | zarr stores, sharded stores, the aggregate query |
| Experiments: benchmark runs | `exp2_threshold_query.py`, `common.py` `start_run`, `load_era5` | results file, `runs.json`, saved thresholds, a copy of the raw data | launch, prepare, measure, append a row; run again after a kill | files |
| Experiments: summaries and figures | `summarize.py`, `figures.py` | none | read results, print and draw | results files |

What makes each part correct, and what is hard about it:

* **Byte budget and pipelined query.** Bytes of payload held at once stay within
  `max_inflight_bytes`, except for one read that is larger than it and runs
  alone; every reservation is given back on success, failure and cancellation;
  no read sleeps when it could run; a query ends; a result is the sum of every
  read. Hard: tasks interleave at every `await`, two limits are taken in a fixed
  order, a failed sibling does not stop the others, decoding happens in threads.
* **Planner.** The parallel list is the list a sequential loop would make: sorted
  by chunk and place, every entry once, in the right chunk and place. Hard: two
  passes share offsets; several units make up a chunk along three axes.
* **Merger.** Reads cover the listed blocks, never overlap, skip at most the
  allowed gap, and are as few as possible. Hard: boundaries and arithmetic width.
* **Record and classification.** A block with a match is never OUT, a block with
  a mismatch is never IN, at every layer. Hard: quantisation and rounding of the
  writer and of the reader.
* **Life cycle.** A zone map answers for the payload it was made from or the
  query raises. Hard: nothing locks the store; a build is many store operations
  and may stop between any two; handles keep what they opened.
* **Layout and layered query.** The bytes decoded for a block are that block's.
  Hard: units, block order, layers, merged reads and whole-chunk reads combine,
  and the row buffer is uninitialised memory.
* **Bounds and configuration.** The float32 range given to the planner selects the
  values that the caller's double bounds select; an array that can be created can
  be read and queried. Hard: half-open ranges, bounds between two floats, layers,
  sub-chunks and axis orders that only fit together in some ways.
* **Whole query.** The pipeline and the steps in turn are two programs with one
  answer, exact for every division of the array into zone map objects, and a
  query raises only for a reason. Hard: objects are planned apart and their chunk
  numbers and bases move; some choices are made by options, some by the layer.
* **Experiments.** What SkipZFP is compared with must count the same; a benchmark
  that is killed and run again must not mix thresholds of different data, lose the
  run a row belongs to, or measure a job twice. Hard: files left by a killed
  process, tests by name and length only, fill values that are not stored.
* **Aggregates.** Bounds on the original values' count, sum and mean hold. Hard:
  open and closed bounds, uncertain values, rounding of long sums.

`PROJECT.json` lists each hazard at its line with the properties that cover it.

## 2. Modules

| Module | Models | State and actions in the code |
|---|---|---|
| `StreamReads` | Tasks of one pipelined count or aggregate | `ost`, `rst`: where the task of each object and of each read is suspended; `used`, `peak`: `ByteBudget`; `decoders`: pool threads; `stop`: pending cancellations; `query`. One action is what a task runs between two suspension points (`Acquire`, `Resume`, `RangeArrives`, ...) |
| `ByteLimit` | The promise of `max_inflight_bytes` without any machinery | abstract specification that `StreamReads` implements (`KeepsPromise`) |
| `PlanBlocks` | `plan_blocks` | per-worker loop variables, private reduction totals, `nMaybe` (counts, then offsets), the output list; one action is one unit, one chunk or one block of one worker (`Classify`, `CountChunk`, `CombinePart`, `WriteBlock`) or what one thread does between the two loops (`EndPass1`, `AddUp`, `StartPass2`) |
| `MergeRanges` | `merge_ranges` and `szfp_merge_ranges` | list, runs, loop index; `Sort`, `Open`, `Extend`, `StartRun`, `Return` |
| `ZoneMap` | `szfp_meta`, `block_error_codes`, `classify_unit`, `block_error` | one record and one classification; every rounding of double arithmetic is a free choice within `Rounding` and `EpsRounding` |
| `MetaLifecycle` | `write_meta`, `check_meta`, queries, chunk writes, resizes, crashes | objects of the store, the writer's and the reader's position; one action per store operation |
| `ChunkLayout` | `pack`, `unpack`, `block_rank`, `unit_slices`, `layer_starts` | no state: what byte of which block lies at which offset of a chunk |
| `BlockList` | the list of blocks of `plan_blocks`, the runs of `merge_ranges` | no state: which items a list has in which order, and from where to where its reads go |
| `LayeredRead` | `_query_async` above the first layer, `read_ranges` | requests, their states, the parts in `gather`'s order, the rows; `Plan`, `Fetch`, `Arrive`, `Fail`, `EndBatch`, `Assemble` |
| `Aggregate` | `aggregate_block`, `combine` | totals of the current read, totals of finished reads, the answer; `truth` is what the query cannot see: count and sum of the matching original values |
| `QueryPlan` | A whole count or aggregate: `QueryOptions`, `get_layout`, `read_meta`, `_query_async` and `_query_pipelined`, `_aggregate_async`, `_read_listed`, `_aggregate_pipelined` | the call, the objects that arrived and that are planned, the reads, the totals, the error; `Refuse`, `Start`, `Arrive`, `Plan`, `Count`, `Finish` and failures, in any order |
| `RangeBounds` | `range_bounds`, `_below_f32`, the public calls | one call and its result |
| `MetaPacking` | `pack_codes`, `pack_meta`, `unpack_meta`, `unpack_records`, `plan_meta` | no state: bytes of records, modulo a byte |
| `CodecConfig` | `__post_init__`, `validate`, `from_dict`, `to_dict`, `chunk_shape`, `get_layout`, `szfp_encode`, `szfp_meta` | no state: which codecs, arrays and chunks are accepted, and which of these ZFP can keep |
| `Quantiles` | `slab_step`, `slabs`, `quantiles` of `common.py` | no state: bits of the wanted keys, pass by pass |
| `PointReads` | `q_skipzfp`, `q_chunks`, `q_zshard` of `exp1_point_query.py` | no state: what each method fetches and copies |
| `Baselines` | `full_scan`, `chunk_zm`, `inner_zm`; `chunk_stats`, `inner_stats` | no state: what each method reads, skips and counts |
| `Estimates` | `stage2` of `exp4_filtered_aggregate.py`, `meta_minmax` of `exp3_aggregate.py` | no state: intervals from errors and records |
| `ThresholdBench` | `run` and `thresholds` of `exp2_threshold_query.py`, `start_run`, `load_era5` | files of the cache and of the results, the position of the process; `Launch`, `Kill`, and one action per file operation |

`MC...` modules give TLC small instances. `...Proofs` modules hold the theorems
about the module in their name, `ReadsProofs` those about `StreamReads` and
`MergeRanges`, `CrashProofs` those about `MetaLifecycle` and `ThresholdBench`,
`AggregateProofs` also those about `PlanBlocks`, and `AlgorithmsProofs` those about
`RangeBounds`, `CodecConfig`, `MetaPacking`, `Estimates`, `PointReads`, `Quantiles`
and `Baselines`; `Lemmas` holds what several of them rest on.
Definitions keep the source's names where they can. A definition called a mutant
in its comment is a plausible mistake in the definition that follows it; no
specification uses it. The modules without state are put together in
`Algorithms`, where every initial state is one input of one of them: what the
inputs may be is an assumption there, which ones TLC takes is in `MCAlgorithms`.

How they fit together: `RangeBounds` turns a call into the range that the
planner sees. `MetaLifecycle` says which records a query sees, `MetaPacking` that
their bytes are read back. `ZoneMap` says what a record guarantees about a
block's class. `PlanBlocks` turns classes into a sorted list, `MergeRanges` turns
the list into reads, `StreamReads` (layer 0) and `LayeredRead` (other layers) run
the reads, and `ChunkLayout` says that the bytes read are those of the listed
blocks. `QueryPlan` composes these steps into whole queries: it knows a block by
its class and its matching values at each layer, has planner and merger as
functions, and leaves the interleaving of tasks free. `LayeredRead`, `QueryPlan`
and `PointReads` extend `ChunkLayout`, the first two also `BlockList`, and `Baselines` extends `Quantiles`;
between the other modules the interface is a property of one that is an
assumption of the next: the list that `PlanExact` describes is what `MergeRanges`
starts from and what `LayeredRead` takes as `items`, and the runs of
`MergeRanges` are the reads of `StreamReads`.

## 3. Runs

Passing runs, with the properties they check:

| Run | Question | Properties |
|---|---|---|
| `stream_reads` | Are the byte budget and the result sound in every interleaving with failures and cancellation, does every query end with everything given back, is there no deadlock, and is `ByteLimit` implemented? | `TypeOK`, `BooksBalance`, `LimitHolds`, `PeakBound`, `NoLostWakeup`, `NoPartialResult`, `EndsGivingAllBack`, `KeepsPromise` |
| `merge_reads` | Do the reads cover, stay disjoint, respect the gap and merge maximally for every input list, and which lists are refused? | `ItemsCovered`, `ReadsDisjoint`, `MergedAsAllowed`, `OnlyRepeatsFail` |
| `plan_blocks` | Do two workers produce the list, the totals and the places of one, and never write an entry twice? | `PlanExact`, `EntriesKept` |
| `zonemap_classes` | Are IN and OUT never wrong, MAYBE not needlessly large, and error codes sufficient, for every rounding? | `CodesFit`, `RecordEncloses`, `ClassIsSound`, `MaybeIsNear` |
| `meta_rebuild` | Two builds in any layouts, one of which may crash, chunk writes at any time: is a query right or refused, and served once a build is finished? | `RightOrRaises`, `ServedAfterBuild` |
| `meta_resize` | The same with resizes and two kinds of packing; does `check_meta` list exactly the chunks that differ, except those written between a build's data and its checksums? | `ResizeIsSafe` |
| `layered_read` | Are chunks read back as written, do records and queries agree on places, are the assembled rows right, and are requests few, disjoint and within the layer? | `RowsRight`, `RequestsTight`, `ChunksReadBack` |
| `aggregate_bounds` | Do the bounds enclose the original values' count, sum and mean however sums are rounded? | `CountsEnclosed`, `SumEnclosed`, `MeanEnclosed` |
| `whole_query` | Is a query's answer exact whatever the zone map's objects, the options and the order of arrivals, does the pipeline make no difference, and are errors only raised for a cause? | `QueryExact`, `PipelineInvisible`, `RaisesForCause` |
| `algorithms` | Do the algorithms without state agree with their definitions? | `BoundsExact`, `PackingExact`, `AcceptedReadable`, `QuantilesExact`, `CountsAgree`, `EstimatesHold`, `PointSeriesExact` |
| `threshold_bench` | Does a benchmark that is killed and run again keep its rows, and its thresholds with their data, and finish unless a file was cut short? | `ThresholdsOfTheirData`, `RowsKept`, `RerunsComplete` |

Several properties are conjunctions of named parts that say one thing together:
`PlanExact` of `UnitsPlaced`, `RoomLeft`, `ListSorted`, `TotalsAddUp`;
`MergedAsAllowed` of `GapRespected` and `ReadsMerged`; `ClassIsSound` of
`InIsSound` and `OutIsSound`; `CodesFit` of the type and `CodesExist`;
`ResizeIsSafe` of `RightOrRaises` and `CheckIsExact`; `RowsKept` of `NoRowTwice`
and `RowsRecorded`; `EndsGivingAllBack` of `QueryEnds` and `AllGivenBack`. For
every property and every part, some mutant of a modelled definition violates it.

One run shows a disagreement (section 7): `check_torn_build`.

Deadlock is checked in `stream_reads`, where a query that stops short of its end
would be a fault. The other models stop because they model one call that
returns, or because their counters of writes, builds and runs are used up.

## 4. Bounds, and why they are enough

* `stream_reads`: two zone map objects, four reads of 2, 3, 6 and 1 bytes under a
  limit of 4, two store reads at a time, one decoder thread. The first two reads
  fit alone but not together, the third exceeds the limit, the fourth fits beside
  any small one, so admission, sleeping, oversized admission and a wake-up that
  does not help all occur; objects and reads compete for the semaphore; buffers
  queue for the decoder.
* `merge_reads`: every list of up to four blocks of two chunks of five blocks, in
  any order and with repetitions, gaps 0, 1, 2. Four blocks give runs of up to
  four and up to three boundaries. `WordSize` is the modulus of the 64-bit
  arithmetic: 16, above every sum of this run; where sums may wrap is left to the
  proofs.
* `plan_blocks`: 4 x 6 x 2 units, 2 x 3 x 1 to a chunk, two blocks to a unit, two
  workers, with and without IN blocks. The sides differ, so a swapped axis shows.
  The maps are one per binary digit of a unit's and block's number, which tells
  any two apart, and every combination of chunks with none, some and only
  listed blocks.
* `zonemap_classes`: a block of two values beside a block at the end of the
  range, three quantisation steps instead of 255, three code steps instead of 15,
  every rounding by one unit, a slack of two. The code's slack of
  `8 * DBL_EPSILON` times the span covers about 4 ulps of the writer and 5 of the
  reader, which is `SlackAssumption` (`2 * Rounding <= Slack`). Error codes and
  several layers are separate codecs, as `__post_init__` refuses both at once.
* `meta_rebuild`, `meta_resize` and `check_torn_build`: up to four units, objects of
  two or three units so that the last object may be short or padded, two
  contents of a chunk (interchangeable: symmetry), two builds, one or two
  writes or resizes, at any step of a build but for `check_torn_build` (a resize
  never during one), one reader whose handle may be as old as it likes. Two are
  enough to grow the array and write into the rows that a build of the shorter one
  had padded, to cut a chunk off and bring it back, and to write a chunk during a
  build and again after it. `meta_resize` starts where chunks 0 and 3 are alike
  and the others are not (`SmallInit`), so that chunks which share an object or a
  place in one differ; `meta_rebuild` starts from any contents.
* `layered_read`: two chunks of 2 x 2 x 2 blocks, one or two units to a chunk,
  C order, a cyclic and a reversed order, layers of 2, of 1 + 2 and of 2 + 1 + 1
  bytes; any blocks among places 0, 1, 3, 7 of one chunk with up to two of the
  other, gaps 0 and 1, at most one or three requests to a chunk. The cyclic order
  is not its own inverse, and the layer sizes differ in both directions.
* `aggregate_bounds`: two blocks of two values in one read or two, errors 0 and
  64, decoded values -128 and 192, query bounds on a decoded value or beyond all
  of them, so that a value may be sure, uncertain or outside, and an empty range.
  One rounding is 1/98 of a sum instead of 2^-53, the coarsest that `RoundOffAssumption` allows for four
  values in a read, which makes its accumulated effect visible in four terms. Sums
  come out as far off as they may (`ExtremesOnly`); the proofs take every outcome.
* `whole_query`: eight units in four chunks of two units, two blocks to a unit;
  zone map objects of one to six steps or none, so that an object may hold one
  chunk, several chunks or cut a chunk, and the last may be short. Fixed patterns
  mix the three classes; arrays with one MAYBE block in one unit tell every place
  apart. Two layers give different classes and counts. Options: pipeline on and
  off, by key and through zarr, every layer, two gaps, a byte budget, and each
  option once out of its range. Every flaw of an array occurs once.
* `algorithms`: *bounds*: float32 values three apart and doubles at them, between
  them and beyond, so every bound is a float, next to one, or between two.
  *Records*: bytes modulo 4 and codes modulo 2, one to three units of one to three
  blocks, all bytes of one unit and all pairs for small units; differences wrap in
  both directions and odd numbers of codes occur. *Configurations*: every
  combination of right and wrong layers, orders, sub-chunks, error bits and
  chunk shapes; rates that ZFP keeps in every unit, in some and in none, and an
  array with a length of 0. *Quantiles*: keys of four bits in passes of 2, 1 and 1,
  slabs that divide the array evenly and do not. *Baselines*: four steps in two rows, chunks of one
  value or 2 x 2, chunks that are all fill and not stored, thresholds on both sides
  of the fill value. *Points*: two block orders, sub-chunks that split an axis,
  indexes with ascending, descending and mixed offsets, one to three points, some
  in one inner chunk. *Estimates*: every value, error and threshold of a small
  range; every region of a field of 8 x 4 values, aligned to blocks or not.
* `threshold_bench`: two inputs of different lengths (the whole raw data and a part of it,
  as `--chunks` gives), one cache, two variables and a job of each, seven
  launches, two kills and one failing job. Two kills let a torn file of one input
  meet a leftover of the other; seven launches let both inputs be finished after
  both.

Assumptions that the models make: CRC32 tells contents apart; a packed object
never has the size of an unpacked one, nor are raw records a zstd frame; one
`write_meta` at a time and no resize during it; `create_array(overwrite=True)`
deletes object by object; a store operation on one object is atomic; a handle
does not refresh itself.

## 5. Fairness

`StreamReads` states weak fairness of each object's and each read's task, of each
pool job and of the query's end. Asyncio runs a ready task eventually, a thread
pool runs a submitted job eventually, and the store answers each request
eventually with data or with an error; a store that never answers would hang the
query, as the code sets no timeout. `Condition.notify_all` makes every sleeping
task ready, so weak fairness suffices. Nothing makes a caller cancel or a read
fail. That queries end also needs deadlock to be absent, which the same run
checks.

`ThresholdBench` states weak fairness of the process (one that is not killed goes
on) and strong fairness of launching it for each input: the user runs the
benchmark again until it has every row. Kills and failures are not fair, and the
model bounds their number. `RerunsComplete` excepts inputs whose files were cut
short, because the code cannot read those again (section 7).

## 6. Proofs

TLAPS proves for every value of the constants:

* **`StreamReads`, in `ReadsProofs`**: `TypeOK`, `BooksBalance`, `LimitHolds`, `PeakBound`,
  `NoLostWakeup`, `NoPartialResult`, and that each step is a step of `ByteLimit` or
  a stutter. The
  invariant is the conjunction of the type of the tasks, the books (`used` is
  exactly what the reads that hold bytes sum to), the limit, the peak and the
  absence of sleepers that would fit. `LimitHolds` alone is not inductive: that a
  read is admitted within the limit follows only because `used` is right. A
  read's bytes are modelled as a set of pairs, so that sums become cardinalities
  of disjoint finite sets. `NoPartialResult` becomes inductive as two
  steps: an object is done only once its reads are, and a query returns only once
  its objects are. The assumptions are that sizes, concurrency, threads
  and limit are positive.
* **`PlanBlocks`, in `AggregateProofs`**: `UnitsPlaced`, `EntriesKept`, `RoomLeft`, `ListSorted`,
  `TotalsAddUp` and their conjunction `PlanExact`, for every grid of units, chunk
  shape, number of blocks, number of workers and zone map, provided that chunks
  divide the grid, which the function checks first. The invariant says what holds
  of the static schedule's shares (they are disjoint and make up all chunks), which
  chunks are classified and counted, that the first `added` counts are offsets, and
  that a block to read that its worker has looked at is in the list at its chunk's
  offset plus its rank among the blocks to read of its chunk, where before nothing
  was. Places are in the order of blocks, so different blocks never share one,
  which gives `EntriesKept`; that every place is some block's takes the least
  chunk and block beyond it, by well-founded induction. Sums over chunks are
  cardinalities of sets of blocks, so that a chunk counted, a worker's copy
  combined and an offset added up are each a union of disjoint sets, and
  `TotalsAddUp` is a bijection between the blocks of the chunks and those of the
  units. It is one because a number has one mixed-radix representation, which is
  also what `UnitsPlaced` says.
* **`QueryPlanProofs`**: `QueryExact`, `PipelineInvisible` (with its part
  `SharesPlanned`) and `RaisesForCause`, for every grid, chunk shape, number of
  steps to a zone map object, array and options. `QueryExact` is not inductive:
  `QueryInv` adds that the tasks planned so far have exactly their planner's lists,
  that each read fetched exactly what the merger formed from them, that a refused
  call had a cause, and that the totals are those of the units and reads counted
  so far. The rest is about what the planner's and merger's functions return:
  - the C-order number of a unit or block is a bijection, as a number has one
    mixed-radix representation, so a list is the listed blocks in the order of
    chunk and place, each once;
  - a pipelined task has a multiple of a chunk's steps, also the last one, whose
    object is padded, so the planner accepts its grid; a record of a task is the one
    of the array's unit as many steps on; and moving a block by a multiple of a
    chunk's steps moves its chunk by the offset and leaves its place in it. So the
    tasks share out the array's blocks, an earlier task's chunks come first, and
    their lists joined are the array's list;
  - reads are in bijection with the entries that start one and with those that end
    one, so a list's blocks are shared out to its reads, and counts per read add up
    to the count over the blocks. A block that is OUT has no match, one that is IN
    has nothing else.

  It assumes that grids and the array's flaws are as `__post_init__` and
  `get_layout` leave them (`GridAssumption`, `ArraysAssumption`), and that gaps are
  integers (`OptionsAssumption`).
* **`LayeredReadProofs`**: `RowsRight`, `RequestsTight` and `ChunksReadBack`, for
  every layout that `IsLayout` accepts (any chunk and sub-chunk that fit, any block
  order, any split into layers), list of blocks, gap, limit on requests and batch
  size. `ChunksReadBack` is about places: permuting the axes and then numbering a
  unit's blocks is a bijection (`BlockRankNumbers`), and so is the place in a chunk
  (`RecordPlaces`); the layers of a chunk come one after another, so a byte is in
  one of them (`CutsAscend`, `LayerOfByte`), and `unpack` finds of each block what
  `pack` put there. `RowsRight` is not inductive: `IInv` adds that the requests are
  those that were planned and that what has arrived stands at its request's place,
  whichever came first. The rest says what requests are: those chosen, in an order
  that their layers and first items give (`RequestsListAll`), and every byte of a
  listed block that the layer needs lies in exactly one of them, in a read of
  its layer or of its whole chunk (`EveryByteRequested`), at the place where
  `Assemble` looks for it (`PlaceInRequest`). So no byte is left unset.
  `RequestsTight` rests on two facts more: reads of one layer are of different runs
  and those of two layers lie in different sections (`ReadsApart`), and a chunk with
  more reads than allowed has the one of the whole chunk only (`ChosenFew`). It is
  assumed of the options what `QueryOptions` checks (`LimitsAssumption`).
* **`MergeRanges`, in `ReadsProofs`**: `MergeTypeOK`, `ItemsCovered`, `ItemsPartitioned`,
  `ReadsDisjoint`, `GapRespected` and `OnlyRepeatsFail`, for every list, gap, base,
  block size and word size, so also where the join test wraps. The invariant says
  that the list ascends after `Sort`, that each run starts and ends at an item of
  the list, that the items so far are placed, and how far apart two items of a
  run are. `MergedAsAllowed`, that reads are also as few as possible, needs the
  join test not to wrap (`NoWrap`) and adds that runs which are not joined are
  far apart. `ItemsPartitioned` (each block in exactly one read) and `MergeTypeOK` are
  proved without a run of their own.
* **`ZoneMapProofs`**: `TypeOK`, `RecordEncloses`, `InIsSound`, `OutIsSound` and
  their conjunction `ClassIsSound`, `CodesFit` and `MaybeIsNear`, for any number of blocks, values, layers and
  steps and any errors, provided that the slack covers both roundings. The core
  is `RecordEncloses`: the bounds a query rebuilds enclose every original value of
  the block and the block's error bound covers what the codec did to it;
  quantisation is divided into two lemmas, floor and ceiling, each of which loses
  less than a step outward. That a code exists for every error (`CodesFit`) takes
  the least of a non-empty set of numbers, by well-founded induction; that codes
  are the tightest ones then gives `MaybeIsNear`.
* **`RangeBounds`, in `AlgorithmsProofs`**: `BoundsExact`, for any set of floats and doubles with an
  order, that is for the real ones, provided that rounding a double to float32
  goes to a neighbour. The lemma is that moving a bound to the largest float32
  below it changes the comparison's strictness and nothing else.
* **`CodecConfig`, in `AlgorithmsProofs`**: `AcceptedReadable`, for all arguments of the
  annotated types, any data type, and any shape of an array and of its chunks. The
  invariant of `Algorithms` is only that an input is one of `Inputs`; what is proved
  is a fact about the operators. The checks of `__post_init__` and `validate` give
  the factors by which the shapes divide (`ShapesFit`); that sizes, grids and counts
  agree is arithmetic on these factors; that the layers fill a block without a gap
  is a sum of differences, by induction on the layer (`LayersAddUp`), which needs
  every rate to be whole bytes. What libzfp writes of a unit is compared with the
  payload that the unit's buffer has (`FitsWhen`: rounded up to a word, `n` blocks of
  at least `LeastBits` fit into their rate's bytes exactly if no block was raised and
  the last word is full), and a grid has a chunk exactly if no length is 0
  (`NoneEmpty`): so the theorem names all accepted arrays that fail later, see
  section 7. The assumptions are that zarr gives chunks as many
  lengths as the array and none of length 0, that what is absent from `zarr.json` is
  no value, and that `LeastBits` and `WordBits` are positive.
* **`MetaPacking`, in `AlgorithmsProofs`**: `PackingExact`, for any number of units, layers
  and blocks, with codes or without, any bytes and any padding, provided that the units of an
  object are alike, which follows from their sharing one codec and one shape. Packing is four lists joined, each of
  one part per record in a row (`PartsOfPacking`); a part is found again where
  `unpack_meta` slices (`PartsFound`); adding up differences modulo a byte gives the
  minima back, by induction along the blocks (`MinimaFold`), and so do widths and codes
  (`RowUnpacked`, `CodesUnpack`). What `plan_meta` keeps is again a record, of a unit with one
  error bound (`KeptIsRecord`).
* **`Estimates`, in `AlgorithmsProofs`**: `EstimatesHold`, for any list of values, any errors
  and any threshold, and for any region of any field. A mean of some ambiguous values
  is at most that of as many of the largest ones (`LargestFirst`, a sum over a set
  against the sum over the list's first places), so one of the means that
  `stage2` compares is as large; it is least with all of them, at the threshold
  (`LowestMean`). Of a region every value lies in a block that `meta_minmax` looks at,
  and every value of a block inside lies in the region (`InsideOneAxis`: the
  rounded-up first and the rounded-down last block), which makes its greatest value
  no less than the region's least; that the whole field's sub-chunks all lie inside needs its
  sides to be whole sub-chunks (`EstimatesAssumption`, as are the errors of values).
* **`PointReads`, in `AlgorithmsProofs`**: `PointSeriesExact`, for chunks, units, shards
  and inner chunks of any shape, any block order, gap and points, and any
  place of the inner chunks in their shard. What `np.unique` and the sort by offset give
  is a list in order (`ListedByKey`: at each place the element with as many below it,
  of which there is one). Every needed block or inner chunk lies in one read of
  the list's runs (`RunAround`), where it is found again (`ColumnDecoded`, `InnerFound`).
  The place computed for a block above a point is the one its zone map record would give
  (`PositionIs`), where `pack` has put it (`EveryBlockInPlace`); an inner chunk's
  number is that of its coordinates (`InnerPlace`); and a step counted in chunks, in parts
  of a chunk and within a part is the step (`StepsInParts`). The assumptions
  (`PointsAssumption`) are that one layer is stored, that shards and chunks span
  the plane, as the point suite's do, that points lie in it, and that the inner chunks
  of a shard do not overlap.
* **`Quantiles`, in `AlgorithmsProofs`**: `QuantilesExact`, for any array, slab length
  and quantiles, and keys of any width, in any number of passes of any bits. The
  invariant of a rank's passes (`Brackets`) is that as many values as `below` says have a
  smaller prefix, that these are no more than the rank, and that with those that have the
  prefix they are more. Every value is in one slab (`SlabsCut`, `CountBySlabs`), so the
  histogram counts the digits behind the prefix (`HistCounts`); the digits whose
  cumulated count does not exceed the rank are those from zero up to one (`LowerPart`),
  which is below the last because the prefix's values are more; and dividing a key
  by two powers of two in turn is dividing it by their product (`DividedTwice`,
  `PowerSum`), so a prefix with its digit is the prefix of the next pass
  (`DigitBrackets`). After the last pass it is a key, and keys are in the order of the numbers
  they stand for, minus zero before zero (`KeysAre`). The assumptions are that data have a
  value, that quantiles are between 0 and 1 (`QuantilesAssumption`), and that a pass fixes
  at least a bit (`PassBitsAssumption`).
* **`Baselines`, in `AlgorithmsProofs`**: `CountsAgree`, for any array, fill value,
  threshold, slab length, gap, any shapes of chunks, shards and inner chunks that divide
  each other and the array, any order of the inner chunks in a shard, and any lossy
  format within its error. A place of an array is one of a chunk and one within it
  (`EvenParts`), so counts by chunks add up to the array's (`AboveByChunks`); slabs
  hold whole rows of chunks, so their statistics, joined, are those of the chunks
  (`SlabsOfChunks`, `StatsBySlabs`). Bounds, widened by the error, say of a chunk that is
  not read that all or none of it counts (`ChunkBounded`), which with the chunks
  read makes the sum (`CountedInParts`). An inner chunk of a shard is a chunk of the array
  (`CutTwice`, `InnerGrid`); those stored in a shard lie apart (`LaidApart`), so the sorted
  list is one (`SortedLists`) whose running end, lifted by shard, is the last
  item's (`RunEndIs`): each item lies in exactly one read, which spans it and no other
  shard (`ReadsAre`, `ReadSpans`), and what is found there is the item's chunk
  (`DecodedIs`). `ScansAssumption` says that the shapes divide, that entries of a
  shard have a size and do not overlap, and that `SLAB` is a multiple of every
  chunk's steps.
* **`MetaLifecycle`, in `CrashProofs`**: `RightOrRaises`, `ServedAfterBuild` and `ResizeIsSafe`
  (with `CheckIsExact`), for any shapes, layouts, packings, contents and numbers
  of writes and builds. Four invariants: the shapes of all values, among them that
  every object was built for some shape of the array; what an untainted query
  relies on (the handle has the array's shape, no record in the store or about to
  be written differs from its chunk, and what was read is right); what `write_meta`
  leaves (one layout in `zarr.json`, objects and attributes once it returned); and
  that a call which nothing disturbs sees exactly that. The first two give
  `RightOrRaises`; the others give `ServedAfterBuild`. None of these theorems
  assumes anything of the constants beyond their types: what the code cannot do is
  excepted in the properties themselves. `RightOrRaises` excepts queries that start
  when the store holds a packed object of another length of the array
  (`PackedForOther`), and `CheckIsExact` chunks written between a build's data and
  its checksums (`late`); section 7 shows both to be needed. `CheckIsExact` follows
  from an invariant about checksums: a chunk that is not late has the contents that
  the build took until its checksum is read, and once it is read the checksum is
  that of the build's data, so of the record.
* **`AggregateProofs`**: `CountsEnclosed`, `SumEnclosed` and `MeanEnclosed`, for
  every set of values, error bounds and query, any number of reads and blocks, and
  every rounding of the sums. They are not inductive: what a query adds up may be
  off, by how much depends on the size of all it has added, and the slack that
  `combine` allows for it is computed from a sum that is rounded too. `BoundsInv`
  says that `abs_total` bounds every other sum (`SumsFit`); that the sums of `t`
  values are off by at most `Err(t, abs_total)`, which each further value raises by
  at least what its addition may add (`PairStep`); that up to this error the matching
  values' sum lies between `sure_sum_lo + maybe_sum_neg` and `sure_sum_hi +
  maybe_sum_pos` (`SumBetween`), and also between the sure ones' bounds with each
  matching uncertain value at `maybe_min` or at `maybe_max` (`OthersBetween`). The slack covers the errors of all reads and the three
  roundings `combine` makes itself (`SlackCovers`, `WideEnough`). A mean is least
  when none or all of the uncertain values are as low as they can be, and greatest
  likewise (`MeanBelow`, `MeanAbove`), which is why `combine` looks at these two
  only. `RoundOffAssumption` says that the errors of errors stay small: with
  doubles, that a read holds no more than 2^26 - 3 values. A read lies in one chunk.
* **`ThresholdBench`, in `CrashProofs`**: `ThresholdsOfTheirData` and `RowsKept`, for any
  number of inputs, variables, jobs, launches, kills and failures. The invariant
  says that a copy of full length holds the data of its length, that what a process
  has read or computed belongs to its input, that a launched process's run is in
  the record, and that a job it still has to do has no row. It needs that one
  cache is used for data of different lengths only (`OneRawPerCache`): the
  code recognises a copy by its variable and its length.

`Lemmas` holds what several of these proofs rest on: division and mixed-radix
digits, powers of two, the numbering of a grid, where the bytes of a block lie in a
chunk (`ChunkLayout`), the least and the greatest of a set of numbers, what a list
in order has at which place and how its runs share it out (`BlockList`), and what
sums over finite sets (`SumFunctionOnSet`) and joined sequences (`FlattenSeq`) are. The library's induction
theorems take an operator as a parameter, which the provers cannot instantiate, so
these are proved by looking at the smallest set, or the least length, for which
they would fail. Sums by group (`SumByGroups`, `CountByGroups`) and along a
bijection (`SumMatched`) are what `QueryExact` and `AggregateProofs` need of them.

Only model-checked is
liveness, which the provers cannot reach: `EndsGivingAllBack`, `RerunsComplete`
and the part of `KeepsPromise` that says queries end.

## 7. Disagreements with the documentation, and other observations

* `check_torn_build`: `write_meta` replaces the records before it replaces the
  checksums. After a crash between the two, `check_meta` compares chunks with the
  checksums of the earlier build and may return an empty list although the
  records are of other contents. A chunk written while `write_meta` runs, before
  its checksum is read back, has the same effect without a crash: `CheckIsExact`,
  which `meta_resize` checks with such writes, excepts exactly these chunks.

`RightOrRaises` is not about such chunks: it is about queries by key of chunks that
are as they were when their records were built.

Observations made while modelling; the models contain the behaviour, and no run is
spent on it:

* The merger's join test adds the gap in `uint64_t`. A gap near 2^64 wraps and
  nothing is merged. The proofs allow for it: reads stay correct, only too many.
* The last packed object of a zone map is unpacked for as many records as the
  handle's shape gives (`query.py:929`), and its size is that of the whole object
  either way, so one that was packed for another length of the array is accepted
  and reads as other records. A handle opened before the array grew meets such an
  object, and so does a new one when a build of another length crashed before the
  attributes were written and the array was then resized back. `RightOrRaises`
  excepts these queries and no others.
* `__post_init__` accepts every multiple of 0.125 as a rate (`codec.py:263`), and the
  encoder compares the payload with the rate only (`core.c:187`). libzfp takes at
  least 9 bits for a float block (`zfp_stream_set_rate`, `core.c:142`) and writes
  whole words, 64 bits unless it was built otherwise. With a layer of 0.125, or with
  units whose payload is not a multiple of 8 bytes (one block at 0.25), it writes
  past the buffer. Rates that are whole numbers are not affected. The theorem
  `AcceptedAlwaysReadable` says that no other accepted array is.
* An array with a length of 0 is accepted when it is created and when a query
  starts; the planner refuses a grid without chunks (`query.c:294`).
* With `meta_by_key=False` a missing zone map object reads as zeros, where the
  default query raises.
* The benchmarks recognise a copy of a variable by its length only. A cache that is
  used for two raw datasets of one length gives thresholds of the wrong data.
* `runs.json` and saved thresholds are written in place. A kill between
  truncation and write leaves a file that no later run can read, until it is
  removed by hand (`RerunsComplete` excepts it).
* `chunk_zm` reads a chunk that zarr did not store because it is all fill: it raises
  `FileNotFoundError` if the chunk is a MAYBE, which needs a threshold within the
  codec's error of the fill value. `Baselines` takes such a read as that error.
* `q_skipzfp` and `q_zshard` assume that chunks and shards span the whole plane and
  that no inner chunk is missing, as the stores of the point suite do.

## 8. What is not modelled

* ZFP itself: the compressor is a third-party library and its output is an
  arbitrary decoded value within the error that the writer measured.
* The fast decoder (`csrc/fastdec.c`): transposes, the inverse transform and a
  windowed bit reader in three forms. Its correctness is equality with libzfp on
  64-bit streams, too many values for TLC, and it has no protocol.
* Two writers of a zone map at a time, stores that lose acknowledged writes,
  zone maps written before their source was recorded (a query uses them unchecked,
  by documented choice).
* Details that no property depends on. *The budget*: a cancelled read whose buffer a
  pool thread is still decoding has given its bytes back, as in the code, but the
  memory is in use until the thread ends; a query cancelled after one of its reads
  failed ends as raised. *The planner*: the error bound that it lists with each
  block (`query.c:371`). *Aggregates*: the addition of a block's error to a value's
  magnitude is taken as exact, while sums are rounded. *Zone maps*: one path for
  all builds, and a writer whose handle is fresh. *Layered reads*: whole chunks are
  ordered by number instead of by key, which only changes what shares a batch.
  *Grids*: no array with a length of 0, except in `CodecConfig`.
* The refusal of NaN and infinity, and the C wrappers around libzfp.
* Native loading: a table of functions that any thread may build, and either
  result serves.
* Of the experiments: sampling, timing, memory limits and the rows they give,
  `--thresholds-from`, stores on S3, downloads and conversion of raw data; the
  loops of `exp1`, `exp3` and `exp4` around their measurements, which follow the
  one of `exp2`; summaries and figures, which read results and keep nothing.
* Packaging.
