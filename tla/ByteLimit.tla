------------------------------ MODULE ByteLimit ------------------------------
(***************************************************************************)
(* What a caller of max_inflight_bytes is promised, without any of the     *)
(* machinery: a set of reads holds payload bytes, a read joins it only     *)
(* when the bytes fit or when it would be alone, and a read that has left  *)
(* never comes back.  StreamReads, which has the tasks, the condition      *)
(* variable, the semaphore, the decoder pool, failures and cancellation,   *)
(* implements this specification.                                          *)
(***************************************************************************)
EXTENDS Naturals

CONSTANTS
  Reads,         (* the merged byte-range reads of one query             *)
  ByteCount(_),  (* the payload bytes of a set of reads                  *)
  Limit,         (* max_inflight_bytes, a positive number, or NoLimit    *)
  NoLimit        (* stands for max_inflight_bytes = None                 *)

VARIABLES
  held,     (* the reads whose bytes are held now                       *)
  gone      (* the reads that are over, whether or not they held bytes  *)

lvars == <<held, gone>>

Fits(S) == Limit = NoLimit \/ ByteCount(S) <= Limit

LInit == held = {} /\ gone = {}

(* A read takes its bytes: all held bytes then fit, or it is alone. *)
Take(r) ==
  /\ r \notin held \cup gone
  /\ held = {} \/ Fits(held \cup {r})
  /\ held' = held \cup {r}
  /\ UNCHANGED gone

(* A read gives its bytes back, for good. *)
Give(r) ==
  /\ r \in held
  /\ held' = held \ {r}
  /\ gone' = gone \cup {r}

(* Reads that never got to hold their bytes are given up. *)
Abandon(r) ==
  /\ r \notin held \cup gone
  /\ gone' = gone \cup {r}
  /\ UNCHANGED held

LNext == \E r \in Reads : Take(r) \/ Give(r) \/ Abandon(r)

LSafe == LInit /\ [][LNext]_lvars

(* A read that holds bytes is decoded or dropped in the end. *)
LSpec == LSafe /\ \A r \in Reads : WF_lvars(Give(r))
=============================================================================
