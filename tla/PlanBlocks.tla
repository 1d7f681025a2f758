------------------------------ MODULE PlanBlocks ------------------------------
(***************************************************************************)
(* The planner (plan_blocks in query.c): OpenMP workers classify every     *)
(* block of every chunk from its unit's zone map record and count the      *)
(* blocks to read; one thread turns the counts into offsets; the workers   *)
(* then write the blocks of their chunks to the shared list, each chunk    *)
(* from its own offset.  A chunk holds sx * sy * sz units of the ux * uy * *)
(* uz grid the zone map stores.                                            *)
(*                                                                         *)
(* One step of a worker is one unit classified, one chunk counted or one   *)
(* block looked at; the steps of the workers interleave freely between the *)
(* implicit barriers at the ends of the two parallel loops.  The shape     *)
(* checks at the top of the function are the assumptions on the grid.      *)
(***************************************************************************)
EXTENDS Integers, FiniteSets

CONSTANTS
  ux, uy, uz,     (* the grid of units in the zone map                     *)
  sx, sy, sz,     (* the units of one chunk along each axis                *)
  BlocksPerUnit,
  Workers,        (* OpenMP threads                                        *)
  ZoneMaps,       (* what classify_unit says: [Units -> [Blocks -> State]] *)
  Unset           (* what malloc or numpy.empty left in an element         *)

Out == 0
In == 1
Maybe == 2

Units == 0 .. ux * uy * uz - 1
UnitBlocks == 0 .. BlocksPerUnit - 1

ASSUME GridAssumption ==
  /\ {ux, uy, uz, sx, sy, sz, BlocksPerUnit, Workers} \subseteq Nat \ {0}
  /\ ux % sx = 0 /\ uy % sy = 0 /\ uz % sz = 0
ASSUME ZoneMapsAssumption ==
  ZoneMaps \subseteq [Units -> [UnitBlocks -> {Out, In, Maybe}]]
ASSUME UnsetAssumption == Unset \notin {Out, In, Maybe}

gx == ux \div sx
gy == uy \div sy
gz == uz \div sz
nSub == sx * sy * sz
nChunk == gx * gy * gz
blocksPerChunk == nSub * BlocksPerUnit
totalBlocks == nChunk * blocksPerChunk

Chunks == 0 .. nChunk - 1
ChunkBlocks == 0 .. blocksPerChunk - 1
Threads == 0 .. Workers - 1

VARIABLES
  zoneMap,  (* the class of every block of every unit                      *)
  keepIn,   (* keep_in: list the IN blocks too                             *)
  phase,    (* "start", "pass1", "sum", "pass2", "done" or "error"         *)
  states,   (* the class of every block of every chunk, shared             *)
  nMaybe,   (* n_maybe_chunk: counts after pass 1, offsets after the sum   *)
  added,    (* chunks whose counts have been added up                      *)
  private,  (* each worker's copies of n_in and n_out in the reduction     *)
  combined, (* workers whose copies are in n_in and n_out                  *)
  totals,   (* n_in and n_out                                              *)
  work,     (* each worker's iteration: chunk, position in it, list index  *)
  list      (* maybe_chunks and maybe_blocks, shared                       *)

vars == <<zoneMap, keepIn, phase, states, nMaybe, added, private, combined, totals, work, list>>

(* Mutant: the sub-chunk's y coordinate is not reduced modulo sy. *)
UidWithoutModulo(cid, sub) ==
  LET ix == (cid \div (gy * gz)) * sx + sub \div (sy * sz)
      iy == ((cid \div gz) % gy) * sy + sub \div sz
      iz == (cid % gz) * sz + (sub % sz)
  IN  ((ix * uy + iy) * uz + iz) % (ux * uy * uz)

(* The unit stored at position sub of chunk cid. *)
Uid(cid, sub) ==
  LET cx == cid \div (gy * gz)
      cy == (cid \div gz) % gy
      cz == cid % gz
      ix == cx * sx + sub \div (sy * sz)
      iy == cy * sy + ((sub \div sz) % sy)
      iz == cz * sz + (sub % sz)
  IN  (ix * uy + iy) * uz + iz

(* schedule(static): contiguous shares, the first ones one chunk longer. *)
FirstChunk(w) ==
  w * (nChunk \div Workers)
    + IF w < nChunk % Workers THEN w ELSE nChunk % Workers
EndChunk(w) == FirstChunk(w + 1)

Finished(w) == work[w].cid = EndChunk(w)
AtBarrier == \A w \in Threads : Finished(w)

LoopStart == [w \in Threads |-> [cid |-> FirstChunk(w), pos |-> 0, k |-> 0]]

ListedClasses == IF keepIn THEN {In, Maybe} ELSE {Maybe}

CountIn(cid, classes) == Cardinality({b \in ChunkBlocks : states[cid][b] \in classes})

Init ==
  /\ zoneMap \in ZoneMaps
  /\ keepIn \in BOOLEAN
  /\ phase = "start"
  /\ states = [c \in Chunks |-> [b \in ChunkBlocks |-> Unset]]
  /\ nMaybe = [c \in 0 .. nChunk |-> Unset]
  /\ added = 0
  /\ private = [w \in Threads |-> [ins |-> 0, outs |-> 0]]
  /\ combined = {}
  /\ totals = [ins |-> 0, outs |-> 0]
  /\ work = LoopStart
  /\ list = [k \in 0 .. totalBlocks - 1 |-> Unset]

(* The two buffers of the planner, or SZ_ERR_MALLOC. *)
Allocate ==
  /\ phase = "start"
  /\ phase' \in {"pass1", "error"}
  /\ UNCHANGED <<zoneMap, keepIn, states, nMaybe, added, private, combined, totals, work, list>>

-----------------------------------------------------------------------------
(* Pass 1 *)

Classify(w) ==
  LET cid == work[w].cid
      sub == work[w].pos
  IN  /\ phase = "pass1" /\ ~Finished(w)
      /\ sub < nSub
      /\ states' = [states EXCEPT ![cid] =
           [b \in ChunkBlocks |->
              IF b \div BlocksPerUnit = sub
              THEN zoneMap[Uid(cid, sub)][b % BlocksPerUnit]
              ELSE states[cid][b]]]
      /\ work' = [work EXCEPT ![w].pos = sub + 1]
      /\ UNCHANGED <<zoneMap, keepIn, phase, nMaybe, added, private, combined, totals, list>>

(* Mutant: n_in is not in the reduction clause, so the workers share it and *)
(* one update overwrites another.                                          *)
CountChunkShared(w) ==
  LET cid == work[w].cid
  IN  /\ phase = "pass1" /\ ~Finished(w)
      /\ work[w].pos = nSub
      /\ nMaybe' = [nMaybe EXCEPT ![cid + 1] = CountIn(cid, ListedClasses)]
      /\ private' = [private EXCEPT
           ![w].ins = CountIn(cid, {In}),
           ![w].outs = @ + CountIn(cid, {Out})]
      /\ work' = [work EXCEPT ![w].cid = cid + 1, ![w].pos = 0]
      /\ UNCHANGED <<zoneMap, keepIn, phase, states, added, combined, totals, list>>

CountChunk(w) ==
  LET cid == work[w].cid
  IN  /\ phase = "pass1" /\ ~Finished(w)
      /\ work[w].pos = nSub
      /\ nMaybe' = [nMaybe EXCEPT ![cid + 1] = CountIn(cid, ListedClasses)]
      /\ private' = [private EXCEPT
           ![w].ins = @ + CountIn(cid, {In}),
           ![w].outs = @ + CountIn(cid, {Out})]
      /\ work' = [work EXCEPT ![w].cid = cid + 1, ![w].pos = 0]
      /\ UNCHANGED <<zoneMap, keepIn, phase, states, added, combined, totals, list>>

(* A worker that has done its share adds its copies to the shared totals,  *)
(* in any order but one at a time.                                         *)
CombinePart(w) ==
  /\ phase = "pass1" /\ Finished(w)
  /\ w \notin combined
  /\ combined' = combined \cup {w}
  /\ totals' = [ins |-> totals.ins + private[w].ins, outs |-> totals.outs + private[w].outs]
  /\ UNCHANGED <<zoneMap, keepIn, phase, states, nMaybe, added, private, work, list>>

-----------------------------------------------------------------------------
(* The offsets *)

(* After the barrier one thread goes on. *)
EndPass1 ==
  /\ phase = "pass1"
  /\ combined = Threads
  /\ nMaybe' = [nMaybe EXCEPT ![0] = 0]
  /\ phase' = "sum"
  /\ UNCHANGED <<zoneMap, keepIn, states, added, private, combined, totals, work, list>>

(* Mutant: a count is replaced by the sum before it instead of added to it. *)
AddUpReplacing ==
  /\ phase = "sum" /\ added < nChunk
  /\ nMaybe' = [nMaybe EXCEPT ![added + 1] = nMaybe[added]]
  /\ added' = added + 1
  /\ UNCHANGED <<zoneMap, keepIn, phase, states, private, combined, totals, work, list>>

(* The running sum turns the next chunk's count into an offset. *)
AddUp ==
  /\ phase = "sum" /\ added < nChunk
  /\ nMaybe' = [nMaybe EXCEPT ![added + 1] = @ + nMaybe[added]]
  /\ added' = added + 1
  /\ UNCHANGED <<zoneMap, keepIn, phase, states, private, combined, totals, work, list>>

(* Mutant: the last chunk is left out of the running sum. *)
StartPass2Early ==
  /\ phase = "sum" /\ added = nChunk - 1
  /\ work' = LoopStart
  /\ phase' = "pass2"
  /\ UNCHANGED <<zoneMap, keepIn, states, nMaybe, added, private, combined, totals, list>>

StartPass2 ==
  /\ phase = "sum" /\ added = nChunk
  /\ work' = LoopStart
  /\ phase' = "pass2"
  /\ UNCHANGED <<zoneMap, keepIn, states, nMaybe, added, private, combined, totals, list>>

-----------------------------------------------------------------------------
(* Pass 2 *)

(* Mutant: the list index runs on from the worker's chunk before. *)
IndexRunningOn(w) == work[w].k

(* k starts at the chunk's offset. *)
ListIndex(w) == IF work[w].pos = 0 THEN nMaybe[work[w].cid] ELSE work[w].k

WriteBlock(w) ==
  LET cid == work[w].cid
      b == work[w].pos
      k == ListIndex(w)
      listed == states[cid][b] \in ListedClasses
      last == b = blocksPerChunk - 1
  IN  /\ phase = "pass2" /\ ~Finished(w)
      /\ list' = IF listed
                 THEN [list EXCEPT ![k] = [chunk |-> cid, block |-> b, state |-> states[cid][b]]]
                 ELSE list
      /\ work' = [work EXCEPT ![w] =
           [cid |-> IF last THEN cid + 1 ELSE cid,
            pos |-> IF last THEN 0 ELSE b + 1,
            k |-> IF listed THEN k + 1 ELSE k]]
      /\ UNCHANGED <<zoneMap, keepIn, phase, states, nMaybe, added, private, combined, totals>>

(* *out_maybe, *out_in and *out_out are set and the buffers freed. *)
Return ==
  /\ phase = "pass2"
  /\ AtBarrier
  /\ phase' = "done"
  /\ UNCHANGED <<zoneMap, keepIn, states, nMaybe, added, private, combined, totals, work, list>>

Next ==
  \/ Allocate
  \/ EndPass1
  \/ AddUp
  \/ StartPass2
  \/ Return
  \/ \E w \in Threads : Classify(w) \/ CountChunk(w) \/ CombinePart(w) \/ WriteBlock(w)

Spec == Init /\ [][Next]_vars

-----------------------------------------------------------------------------
(* Properties *)

nListed == nMaybe[nChunk]
Listed == [chunk : Chunks, block : ChunkBlocks, state : {In, Maybe}]

(* Every unit of the grid is classified into the chunk that contains it    *)
(* and at the place in C order that its blocks have in the payload of that *)
(* chunk: the block ids a query reads by are those of the blocks the zone  *)
(* map spoke about.                                                        *)
UnitsPlaced ==
  phase \in {"pass2", "done"} =>
    \A ix \in 0 .. ux - 1, iy \in 0 .. uy - 1, iz \in 0 .. uz - 1, b \in UnitBlocks :
      LET unit == (ix * uy + iy) * uz + iz
          chunk == ((ix \div sx) * gy + iy \div sy) * gz + iz \div sz
          sub == ((ix % sx) * sy + (iy % sy)) * sz + (iz % sz)
      IN  states[chunk][sub * BlocksPerUnit + b] = zoneMap[unit][b]

(* What a worker wrote to the shared list is never overwritten, by itself  *)
(* or by another one.                                                      *)
EntriesKept == [][\A k \in DOMAIN list : list[k] # Unset => list'[k] = list[k]]_vars

(* While the workers write, each one's next index lies before the index of *)
(* the chunk that follows its own: the offsets leave every chunk exactly   *)
(* the room it needs.                                                      *)
RoomLeft ==
  phase = "pass2" =>
    \A w \in Threads : ~Finished(w) =>
      LET cid == work[w].cid
          left == {b \in work[w].pos .. blocksPerChunk - 1 : states[cid][b] \in ListedClasses}
      IN  ListIndex(w) + Cardinality(left) = nMaybe[cid + 1]

Follows(a, b) == a.chunk < b.chunk \/ (a.chunk = b.chunk /\ a.block < b.block)

(* The planner returns every block to read, once, sorted by chunk and      *)
(* block, with its class, and nothing else: szfp_merge_ranges accepts the  *)
(* list as it is.                                                          *)
ListSorted ==
  phase = "done" =>
    /\ \A k \in 0 .. nListed - 1 :
         list[k] \in Listed /\ (list[k].state = In => keepIn)
    /\ \A k \in 1 .. nListed - 1 : Follows(list[k - 1], list[k])
    /\ \A c \in Chunks, b \in ChunkBlocks :
         states[c][b] = Maybe \/ (keepIn /\ states[c][b] = In) =>
         \E k \in 0 .. nListed - 1 :
           list[k] = [chunk |-> c, block |-> b, state |-> states[c][b]]
    /\ \A k \in nListed .. totalBlocks - 1 : list[k] = Unset

(* IN, OUT and MAYBE blocks together are all blocks of the array: a count  *)
(* is n_in blocks and what the listed MAYBE blocks add, and loses none.    *)
TotalsAddUp ==
  phase = "done" =>
    LET maybe == nListed - (IF keepIn THEN totals.ins ELSE 0)
        blocks == {<<u, b>> : u \in Units, b \in UnitBlocks}
    IN  /\ totals.ins + totals.outs + maybe = totalBlocks
        /\ totals.ins = Cardinality({x \in blocks : zoneMap[x[1]][x[2]] = In})

(* The plan of several workers is that of one thread: no write collides,   *)
(* the list is complete and sorted, the totals are those of the blocks,    *)
(* and every block is the one its unit's records spoke about.              *)
PlanExact == UnitsPlaced /\ RoomLeft /\ ListSorted /\ TotalsAddUp
=============================================================================
