---------------------------- MODULE MCMergeRanges ----------------------------
(* Small instances of MergeRanges: every list of up to MaxLen blocks of two *)
(* chunks of five blocks, in any order, with repetitions.                   *)
EXTENDS MergeRanges, SequencesExt

CONSTANT MaxLen

Lists == BoundedSeq([chunk : 0 .. 1, block : 0 .. 4], MaxLen)
=============================================================================
