------------------------------ MODULE QueryPlan ------------------------------
(***************************************************************************)
(* A whole query from its options to its result (QueryOptions, get_layout, *)
(* read_meta, _query_async and _query_pipelined in query.py, and the       *)
(* functions _aggregate_async, _read_listed and _aggregate_pipelined in    *)
(* aggregate.py).                                                          *)
(* The same question can be answered in two ways: in turn, where the zone  *)
(* map is read, then planned, then the listed blocks are read; or          *)
(* pipelined, where every zone map object is a task of its own, planned    *)
(* when it arrives, its chunks renumbered to the whole array's and its     *)
(* blocks read while other objects are still on their way.                 *)
(*                                                                         *)
(* The parts are modelled on their own: the C planner in PlanBlocks, the   *)
(* merger in MergeRanges, the byte budget, the semaphore in StreamReads,   *)
(* the reads of higher layers in LayeredRead, the records in ZoneMap, the  *)
(* recorded source in MetaLifecycle.  Here the planner and the merger are  *)
(* functions, and one read is one step.  A block is what a query can tell  *)
(* of it: for each layer its class and how many decoded values match.      *)
(* Layers count from 1 here and from 0 in the code.                        *)
(***************************************************************************)
EXTENDS Integers, ChunkLayout, BlockList

CONSTANTS
  grid,            (* the grid of units in the zone map, <<ux, uy, uz>>    *)
  subs,            (* units of one chunk along each axis                   *)
  BlocksPerUnit,
  ValuesPerBlock,
  Arrays,          (* records: blocks of every unit, tChunk, flaw, layers  *)
  Options,         (* records of the fields of QueryOptions                *)
  None

(* The planner refuses the grid of an array with a length of 0, which is   *)
(* left out.                                                               *)
ASSUME GridAssumption ==
  /\ CutsInto(grid, subs)
  /\ {BlocksPerUnit, ValuesPerBlock} \subseteq Nat \ {0}

Units == 0 .. Volume(grid) - 1
UnitBlocks == 0 .. BlocksPerUnit - 1
rows == grid[2] * grid[3]  (* records of one step along the first axis     *)

(* A class is what the planner may say of a block: an IN block matches in  *)
(* all values, an OUT block in none.                                       *)
Out == 0
In == 1
Maybe == 2
Kinds ==
  [class : {Out}, hits : {0}] \cup [class : {In}, hits : {ValuesPerBlock}]
    \cup [class : {Maybe}, hits : 0 .. ValuesPerBlock]

ASSUME ArraysAssumption ==
  \A a \in Arrays :
    /\ a.layers \in Nat \ {0}
    /\ a.units \in [Units -> [UnitBlocks -> [1 .. a.layers -> Kinds]]]
    /\ a.tChunk \in (Nat \ {0}) \cup {None}

ASSUME OptionsAssumption == \A o \in Options : o.merge_gap_blocks \in Int

VARIABLES
  arr,      (* the array                                                   *)
  op,       (* "count" or "aggregate"                                      *)
  opts,     (* the options                                                 *)
  pc,       (* "options", "check", "run", "done" or "raised"               *)
  cause,    (* why it raised: "call", "store" or "planner"                 *)
  arrived,  (* zone map objects that have arrived                          *)
  plans,    (* of each task that is planned: the listed blocks, n_in, n_out *)
  counted,  (* reads that are decoded, with what they counted              *)
  result

vars == <<arr, op, opts, pc, cause, arrived, plans, counted, result>>

Init ==
  /\ arr \in Arrays /\ op \in {"count", "aggregate"} /\ opts \in Options
  /\ pc = "options" /\ cause = None
  /\ arrived = {} /\ plans = <<>> /\ counted = {} /\ result = None

Raise(why) ==
  /\ pc' = "raised" /\ cause' = why
  /\ UNCHANGED <<arr, op, opts, arrived, plans, counted, result>>

-----------------------------------------------------------------------------
(* What is checked before anything is read *)

(* QueryOptions.__post_init__ *)
OptionsValid ==
  /\ opts.threads >= 0
  /\ opts.request_concurrency > 0
  /\ opts.request_batch_size # None => opts.request_batch_size > 0
  /\ opts.merge_gap_blocks >= 0
  /\ opts.max_chunk_requests > 0
  /\ opts.max_inflight_bytes # None => opts.max_inflight_bytes > 0

MakeOptions ==
  /\ pc = "options"
  /\ OptionsValid
  /\ pc' = "check"
  /\ UNCHANGED <<arr, op, opts, cause, arrived, plans, counted, result>>

BadOptions == pc = "options" /\ ~OptionsValid /\ Raise("call")

(* An array that open_skipzfp, get_layout or meta_objects refuses.         *)
Flaws ==
  {"not an array", "not 3D", "ragged chunks", "chunks not in blocks",
   "no codec", "no zone map", "changed", "unknown packing"}

(* The layer a query reads; an aggregate reads the first only. *)
layer == IF opts.layer = None THEN arr.layers ELSE opts.layer

LayerValid ==
  IF op = "count"
  THEN /\ layer \in 1 .. arr.layers
       /\ layer > 1 => opts.max_inflight_bytes = None
  ELSE /\ opts.layer \in {None, 1}
       /\ opts.layer = None => arr.layers = 1

Accepted == arr.flaw \notin Flaws /\ LayerValid

Refuse == pc = "check" /\ ~Accepted /\ Raise("call")

Start ==
  /\ pc = "check" /\ Accepted
  /\ pc' = "run"
  /\ UNCHANGED <<arr, op, opts, cause, arrived, plans, counted, result>>

(* Mutant: objects that cut through chunks are planned alone, too. *)
PipelinedOverCuts ==
  /\ opts.pipeline /\ opts.meta_by_key
  /\ layer = 1
  /\ arr.tChunk # None

(* Objects that hold whole chunks along the first axis are planned alone.  *)
Pipelined ==
  /\ opts.pipeline /\ opts.meta_by_key
  /\ layer = 1
  /\ arr.tChunk # None
  /\ arr.tChunk % subs[1] = 0

-----------------------------------------------------------------------------
(* The zone map *)

(* Objects read by key; an array without a recorded t_chunk, or with       *)
(* meta_by_key unset, is read by zarr as one.                              *)
ByKey == opts.meta_by_key /\ arr.tChunk # None
tChunk == IF ByKey THEN arr.tChunk ELSE grid[1]
nObjects == (grid[1] + tChunk - 1) \div tChunk
Objects == 0 .. nObjects - 1

Arrive(i) ==
  /\ pc = "run" /\ i \notin arrived
  /\ arrived' = arrived \cup {i}
  /\ UNCHANGED <<arr, op, opts, pc, cause, plans, counted, result>>

(* A missing object, one of the wrong size, or an error of the store. *)
FailObject(i) == pc = "run" /\ i \notin arrived /\ Raise("store")

(* The last object is padded to a full t_chunk with fill values. *)
Padding == [b \in UnitBlocks |-> [j \in 1 .. arr.layers |-> [class |-> Out, hits |-> 0]]]
Object(i) ==
  [p \in 0 .. tChunk * rows - 1 |->
     LET u == i * tChunk * rows + p IN IF u \in Units THEN arr.units[u] ELSE Padding]

(* read_meta copies every object into its slot and cuts the padding off.   *)
WholeZoneMap ==
  [u \in Units |-> Object(u \div (tChunk * rows))[u % (tChunk * rows)]]

-----------------------------------------------------------------------------
(* The plan *)

Tasks == IF Pipelined THEN Objects ELSE {0}

(* Steps along the first axis of the units of task t. *)
nUnits(t) ==
  LET u0 == t * tChunk
  IN  IF Pipelined THEN Min({tChunk, grid[1] - u0}) ELSE grid[1]

Records(t) == IF Pipelined THEN [u \in 0 .. nUnits(t) * rows - 1 |-> Object(t)[u]] ELSE WholeZoneMap

(* Mutant: the offset counts steps and not their chunks. *)
ChunkOffsetInSteps(t) == IF Pipelined THEN (t * tChunk) \div subs[1] ELSE 0

(* The array's number of the task's first chunk. *)
ChunkOffset(t) ==
  LET chunksPerStep == (grid[2] \div subs[2]) * (grid[3] \div subs[3])
  IN  IF Pipelined THEN ((t * tChunk) \div subs[1]) * chunksPerStep ELSE 0

Listed == IF op = "count" THEN {Maybe} ELSE {In, Maybe}

(* plan_meta keeps the error bound of one layer. *)
PlannedLayer == layer

(* What the C planner returns for a grid of units, with the chunks         *)
(* numbered from offset: the listed blocks by chunk and place in the chunk. *)
PlanOf(records, steps, offset) ==
  LET g == <<steps, grid[2], grid[3]>>
      all == Coords(g) \X UnitBlocks
      Class(e) == records[Ravel(e[1], g)][e[2]][PlannedLayer].class
      Entry(e) ==
        [chunk |-> offset + Ravel(DivBy(e[1], subs), DivBy(g, subs)),
         block |-> Ravel(ModBy(e[1], subs), subs) * BlocksPerUnit + e[2],
         state |-> Class(e)]
      Number(c) == Cardinality({e \in all : Class(e) = c})
  IN  [blocks |-> InOrder({Entry(e) : e \in {a \in all : Class(a) \in Listed}}),
       ins |-> Number(In), outs |-> Number(Out)]

ZoneMapThere(t) == IF Pipelined THEN t \in arrived ELSE arrived = Objects

(* The planner refuses a grid that is not made of whole chunks. *)
WholeChunks(t) == nUnits(t) % subs[1] = 0

Plan(t) ==
  /\ pc = "run" /\ t \notin DOMAIN plans
  /\ ZoneMapThere(t)
  /\ IF WholeChunks(t)
     THEN /\ plans' = [s \in DOMAIN plans \cup {t} |->
               IF s = t THEN PlanOf(Records(t), nUnits(t), ChunkOffset(t)) ELSE plans[s]]
          /\ UNCHANGED <<arr, op, opts, pc, cause, arrived, counted, result>>
     ELSE Raise("planner")

-----------------------------------------------------------------------------
(* The reads *)

(* merge_ranges *)
Merged(list) == Runs(list, opts.merge_gap_blocks)

(* The unit that the array stores at a place of a chunk. *)
UnitAt(chunk, block) ==
  CHOOSE x \in Coords(grid) :
    /\ Ravel(DivBy(x, subs), DivBy(grid, subs)) = chunk
    /\ Ravel(ModBy(x, subs), subs) = block \div BlocksPerUnit

(* How many decoded values of a listed block match. *)
Decoded(entry) ==
  arr.units[Ravel(UnitAt(entry.chunk, entry.block), grid)][entry.block % BlocksPerUnit][layer].hits

Reads(t) == {[task |-> t, from |-> r.from, to |-> r.to] : r \in Merged(plans[t].blocks)}
ReadsCounted == {c.read : c \in counted}

(* The matching values in the blocks of a read. *)
HitsOf(q) == SumFunction([k \in q.from .. q.to |-> Decoded(plans[q.task].blocks[k])])

(* A read arrives and its blocks are decoded; the reads of the layers of a *)
(* query above the first are put together and decoded in one call.         *)
Count(r) ==
  /\ pc = "run" /\ r \notin ReadsCounted
  /\ counted' = counted \cup
       {[read |-> q, hits |-> HitsOf(q)] : q \in IF layer = 1 THEN {r} ELSE Reads(r.task)}
  /\ UNCHANGED <<arr, op, opts, pc, cause, arrived, plans, result>>

FailRead(r) == pc = "run" /\ r \notin ReadsCounted /\ Raise("store")

-----------------------------------------------------------------------------
(* The result *)

(* The payload bytes of a read, in blocks. *)
Span(r) ==
  LET list == plans[r.task].blocks IN list[r.to].block - list[r.from].block + 1

(* Mutant: the tasks' lists are put together in the order of planning. *)
ReadBlocksByLast ==
  FlattenSeq([k \in 1 .. Cardinality(Tasks) |-> plans[Cardinality(Tasks) - k].blocks])

(* return_blocks: the tasks' lists, in the order of the objects. *)
ReadBlocks == FlattenSeq([k \in 1 .. Cardinality(Tasks) |-> plans[k - 1].blocks])

InBlocks == SumFunction([t \in Tasks |-> plans[t].ins])
OutBlocks == SumFunction([t \in Tasks |-> plans[t].outs])
ListedBlocks == SumFunction([t \in Tasks |-> Len(plans[t].blocks)])
Hits == SumFunction([c \in counted |-> c.hits])

(* The chunks of a zone map that zarr reads as one array; an array whose   *)
(* t_chunk is not recorded has its zone map in one chunk here.             *)
ZarrChunks ==
  IF arr.tChunk = None THEN 1 ELSE (grid[1] + arr.tChunk - 1) \div arr.tChunk

(* A count takes the values of IN blocks from the zone map; an aggregate   *)
(* reads and decodes them.                                                 *)
Result ==
  [count |-> IF op = "count" THEN InBlocks * ValuesPerBlock + Hits ELSE Hits,
   in_blocks |-> InBlocks,
   out_blocks |-> OutBlocks,
   maybe_blocks |-> IF op = "count" THEN ListedBlocks ELSE ListedBlocks - InBlocks,
   payload_requests |-> Cardinality(ReadsCounted),
   payload_blocks |-> SumFunction([r \in ReadsCounted |-> Span(r)]),
   metadata_requests |-> IF ByKey THEN nObjects ELSE ZarrChunks,
   read_blocks |-> ReadBlocks]

Finish ==
  /\ pc = "run"
  /\ DOMAIN plans = Tasks
  /\ ReadsCounted = UNION {Reads(t) : t \in Tasks}
  /\ result' = Result
  /\ pc' = "done"
  /\ UNCHANGED <<arr, op, opts, cause, arrived, plans, counted>>

Next ==
  \/ MakeOptions
  \/ BadOptions
  \/ Refuse
  \/ Start
  \/ \E i \in Objects : Arrive(i) \/ FailObject(i)
  \/ \E t \in Tasks : Plan(t)
  \/ \E t \in DOMAIN plans : \E r \in Reads(t) : Count(r) \/ FailRead(r)
  \/ Finish

Spec == Init /\ [][Next]_vars

-----------------------------------------------------------------------------
(* Properties *)

AllBlocks == Units \X UnitBlocks
Block(e) == arr.units[e[1]][e[2]][layer]
NumberOf(class) == Cardinality({e \in AllBlocks : Block(e).class = class})

(* Whichever way it is answered, a query counts every matching decoded     *)
(* value of its layer once, and its IN, OUT and MAYBE blocks are those of  *)
(* the whole array.                                                        *)
QueryExact ==
  pc = "done" =>
    /\ result.count = SumFunction([e \in AllBlocks |-> Block(e).hits])
    /\ result.in_blocks = NumberOf(In)
    /\ result.out_blocks = NumberOf(Out)
    /\ result.maybe_blocks = NumberOf(Maybe)

(* The blocks of the whole array that task t plans.                        *)
ShareOf(t) ==
  {e \in Coords(grid) \X UnitBlocks : Pipelined => e[1][1] \div tChunk = t}
ArrayEntry(e) ==
  [chunk |-> Ravel(DivBy(e[1], subs), DivBy(grid, subs)),
   block |-> Ravel(ModBy(e[1], subs), subs) * BlocksPerUnit + e[2],
   state |-> arr.units[Ravel(e[1], grid)][e[2]][layer].class]

(* Every task lists what the whole array's plan lists of its share, by the *)
(* array's chunk numbers, before anything is put together.                 *)
SharesPlanned ==
  \A t \in DOMAIN plans :
    plans[t].blocks =
      InOrder({e \in {ArrayEntry(b) : b \in ShareOf(t)} : e.state \in Listed})

(* The pipeline is not visible in what a query reports: every task lists   *)
(* its share of the array, and for a query of one layer the blocks it      *)
(* read, in their order, the reads it took and what they spanned are those *)
(* of one plan of the whole array.                                         *)
PipelineInvisible ==
  /\ SharesPlanned
  /\ pc = "done" /\ layer = 1 =>
       LET whole == PlanOf(arr.units, grid[1], 0).blocks
       IN  /\ result.read_blocks = whole
           /\ result.payload_requests = Cardinality(Merged(whole))
           /\ result.payload_blocks =
                 SumFunction([r \in Merged(whole) |-> whole[r.to].block - whole[r.from].block + 1])

(* A query that accepts its arguments fails only if the store does: the    *)
(* planner is never given a grid it refuses.                               *)
RaisesForCause == pc = "raised" => cause \in {"call", "store"}
=============================================================================
