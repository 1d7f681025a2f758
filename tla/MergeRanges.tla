----------------------------- MODULE MergeRanges -----------------------------
(***************************************************************************)
(* Turning the blocks a plan lists into byte-range reads of one layer      *)
(* (merge_ranges in query.py and szfp_merge_ranges in query.c): the list   *)
(* is sorted by chunk and block unless it already is, and one pass over it *)
(* either extends the current run or starts a new one.  The C loop refuses *)
(* a list that is not strictly increasing, so a block listed twice makes   *)
(* the query fail.  Sequence indices start at 1 here and at 0 in the code. *)
(***************************************************************************)
EXTENDS Naturals, Sequences, Functions

CONSTANTS
  Inputs,     (* the block lists: sequences of [chunk, block] records      *)
  Gaps,       (* the values of merge_gap_blocks                            *)
  Base,       (* byte offset of the layer in a chunk                       *)
  BlockSize,  (* bytes of one block in the layer                           *)
  WordSize    (* uint64_t counts modulo this (2^64 in the code)            *)

Item == [chunk : Nat, block : Nat]

ASSUME InputsAssumption == Inputs \subseteq Seq(Item)
ASSUME GapsAssumption == Gaps \subseteq Nat
ASSUME LayoutAssumption ==
  Base \in Nat /\ BlockSize \in Nat \ {0} /\ WordSize \in Nat \ {0}

VARIABLES
  items,  (* chunk_ids and block_ids, as passed and then as sorted         *)
  gap,    (* merge_gap_blocks                                              *)
  i,      (* the loop variable: the next item to place                     *)
  runs,   (* out_chunk, out_first, out_last, out_item_start up to m        *)
  pc      (* "sort", "scan", "done" or "error"                             *)

mergeVars == <<items, gap, i, runs, pc>>

n == Len(items)

(* chunk_ids << 32 | block_ids, compared as one key. *)
Before(a, b) ==
  \/ a.chunk < b.chunk
  \/ a.chunk = b.chunk /\ a.block < b.block

StrictlyIncreasing(s) == \A k \in 1 .. Len(s) - 1 : Before(s[k], s[k + 1])

(* Every way to arrange s in ascending order: one for each order of equal  *)
(* items, which look the same.                                             *)
Arranged(s, p) == [k \in 1 .. Len(s) |-> s[p[k]]]

(* Mutant: lexsort with its keys swapped. *)
LexSortByBlock(s) ==
  {t \in {Arranged(s, p) : p \in Bijection(1 .. Len(s), 1 .. Len(s))} :
     \A k \in 1 .. Len(t) - 1 : t[k].block <= t[k + 1].block}

LexSort(s) ==
  {t \in {Arranged(s, p) : p \in Bijection(1 .. Len(s), 1 .. Len(s))} :
     \A k \in 1 .. Len(t) - 1 : ~Before(t[k + 1], t[k])}

RunAt(k) ==
  [chunk |-> items[k].chunk, first |-> items[k].block,
   last |-> items[k].block, start |-> k]

m == Len(runs)

MergeInit ==
  /\ items \in Inputs
  /\ gap \in Gaps
  /\ i = 1
  /\ runs = <<>>
  /\ pc = "sort"

(* An empty list never reaches the C loop; the first item opens a run. *)
Open ==
  IF n = 0 THEN /\ pc' = "done"
                /\ UNCHANGED <<i, runs>>
           ELSE /\ pc' = "scan"
                /\ runs' = <<RunAt(1)'>>
                /\ i' = 2

(* The list is left alone when it is already in order. *)
Sort ==
  /\ pc = "sort"
  /\ items' \in IF StrictlyIncreasing(items) THEN {items} ELSE LexSort(items)
  /\ Open
  /\ UNCHANGED gap

Scanning == pc = "scan" /\ i <= n

(* SZ_ERR_ARG: *out_n stays 0 and Python raises. *)
OutOfOrder ==
  /\ Scanning
  /\ ~Before(items[i - 1], items[i])
  /\ pc' = "error"
  /\ UNCHANGED <<items, gap, i, runs>>

(* Mutant: the chunk is not compared. *)
JoinsAnyChunk ==
  items[i].block <= (runs[m].last + gap + 1) % WordSize

(* Mutant: the + 1 is forgotten, so adjacent blocks need a gap of 1. *)
JoinsWithoutOne ==
  /\ items[i].chunk = runs[m].chunk
  /\ items[i].block <= (runs[m].last + gap) % WordSize

(* Mutant: one more skipped block than asked for. *)
JoinsTooFar ==
  /\ items[i].chunk = runs[m].chunk
  /\ items[i].block <= (runs[m].last + gap + 2) % WordSize

Joins ==
  /\ items[i].chunk = runs[m].chunk
  /\ items[i].block <= (runs[m].last + gap + 1) % WordSize

Extend ==
  /\ Scanning
  /\ Before(items[i - 1], items[i])
  /\ Joins
  /\ runs' = [runs EXCEPT ![m].last = items[i].block]
  /\ i' = i + 1
  /\ UNCHANGED <<items, gap, pc>>

StartRun ==
  /\ Scanning
  /\ Before(items[i - 1], items[i])
  /\ ~Joins
  /\ runs' = Append(runs, RunAt(i))
  /\ i' = i + 1
  /\ UNCHANGED <<items, gap, pc>>

(* *out_n = m + 1, SZ_OK. *)
Return ==
  /\ pc = "scan"
  /\ i > n
  /\ pc' = "done"
  /\ UNCHANGED <<items, gap, i, runs>>

MergeNext == Sort \/ OutOfOrder \/ Extend \/ StartRun \/ Return

MergeSpec == MergeInit /\ [][MergeNext]_mergeVars

(* item_end: where the next run starts, or the end of what was placed. *)
ItemEnd(k) == IF k < m THEN runs[k + 1].start - 1 ELSE i - 1
ItemsOf(k) == runs[k].start .. ItemEnd(k)

(* Mutant: the offset of the layer is added twice. *)
ReadEndTwiceBase(k) == 2 * Base + (runs[k].last + 1) * BlockSize

(* The bytes of read k: ReadStart(k) up to but not ReadEnd(k). *)
ReadStart(k) == Base + runs[k].first * BlockSize
ReadEnd(k) == Base + (runs[k].last + 1) * BlockSize

-----------------------------------------------------------------------------
(* Properties *)

(* The loop variable stays in the list and a run is open while it runs.    *)
MergeTypeOK ==
  /\ items \in Seq(Item)
  /\ gap \in Gaps
  /\ i \in 1 .. n + 1
  /\ runs \in Seq([chunk : Nat, first : Nat, last : Nat, start : 1 .. n])
  /\ pc \in {"sort", "scan", "done", "error"}
  /\ pc = "scan" => runs # <<>> /\ i > 1

(* Every listed block lies, with all its bytes, in the read whose items    *)
(* contain it: the offsets count and aggregate pass to the decoder, block  *)
(* minus first_block times the block size, stay inside the buffer.         *)
ItemsCovered ==
  \A k \in 1 .. m : \A x \in ItemsOf(k) :
    /\ items[x].chunk = runs[k].chunk
    /\ ReadStart(k) <= Base + items[x].block * BlockSize
    /\ Base + (items[x].block + 1) * BlockSize <= ReadEnd(k)

(* Every item placed so far belongs to exactly one read, and to the end    *)
(* every item is placed: no block is decoded twice and none is forgotten.  *)
ItemsPartitioned ==
  /\ pc \in {"scan", "done"} => \A x \in 1 .. i - 1 : \E k \in 1 .. m : x \in ItemsOf(k)
  /\ \A k, l \in 1 .. m : k # l => ItemsOf(k) \cap ItemsOf(l) = {}
  /\ pc = "done" => i = n + 1

(* Two reads of one chunk share no byte: nothing is downloaded twice.      *)
ReadsDisjoint ==
  \A k, l \in 1 .. m :
    k < l /\ runs[k].chunk = runs[l].chunk => ReadEnd(k) <= ReadStart(l)

(* A read skips at most merge_gap_blocks blocks in a row.                  *)
GapRespected ==
  \A k \in 1 .. m : \A x, y \in ItemsOf(k) :
    y = x + 1 => items[y].block - items[x].block <= gap + 1

(* Two reads of a chunk are merged when at most merge_gap_blocks unneeded  *)
(* blocks lie between them, so the reads that are left are farther apart.  *)
ReadsMerged ==
  \A k, l \in 1 .. m :
    k < l /\ runs[k].chunk = runs[l].chunk => runs[l].first - runs[k].last - 1 > gap

(* The merge fails for a list that names a block twice and for no other    *)
(* list: the sort repairs every other order.                               *)
Repeats == \E x, y \in 1 .. n : x # y /\ items[x] = items[y]
OnlyRepeatsFail ==
  /\ pc = "error" => Repeats
  /\ pc = "done" => ~Repeats

(* Reads are merged over every gap that is allowed and over no other.      *)
MergedAsAllowed == GapRespected /\ ReadsMerged
=============================================================================
