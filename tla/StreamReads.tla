----------------------------- MODULE StreamReads -----------------------------
(***************************************************************************)
(* One pipelined layer 0 query or aggregate (_query_pipelined,             *)
(* _aggregate_pipelined) as the tasks asyncio runs: one task per zone map  *)
(* object, which fetches and plans it and then starts one task per merged  *)
(* read; one task per read, which reserves its bytes in the ByteBudget,    *)
(* takes the shared semaphore for the download only, hands the buffer to   *)
(* the decoder pool and gives its bytes back in a finally clause; and the  *)
(* query, which gathers the objects.                                       *)
(*                                                                         *)
(* An action is what a task does between two suspension points: only one   *)
(* task runs at a time, and it is not interrupted before it awaits.  The   *)
(* condition's lock is never held across a suspension other than the wait  *)
(* itself, which lets go of it, so acquire and release are one action each *)
(* time they run.  Decoder threads run beside the event loop.              *)
(***************************************************************************)
EXTENDS Naturals, FiniteSets

CONSTANTS
  Objects,      (* the zone map objects of the array                      *)
  Reads,        (* every merged read the planner will produce             *)
  Owner,        (* Owner[r]: the object whose plan contains read r        *)
  Size,         (* Size[r]: payload bytes of read r                       *)
  Limit,        (* max_inflight_bytes, or NoLimit                         *)
  NoLimit,      (* stands for max_inflight_bytes = None                   *)
  Concurrency,  (* request_concurrency: store reads at a time             *)
  Threads       (* workers of the decoder pool                            *)

ASSUME ObjectsAssumption == Objects # {} /\ Owner \in [Reads -> Objects]
ASSUME ReadsAssumption == IsFiniteSet(Reads) /\ Size \in [Reads -> Nat \ {0}]
ASSUME LimitAssumption == NoLimit \notin Nat /\ Limit \in (Nat \ {0}) \cup {NoLimit}
ASSUME WorkersAssumption == Concurrency \in Nat \ {0} /\ Threads \in Nat \ {0}

VARIABLES
  ost,       (* where the task of each zone map object stands             *)
  rst,       (* where the task of each read stands                        *)
  used,      (* ByteBudget.used                                           *)
  peak,      (* ByteBudget.peak                                           *)
  decoders,  (* the reads whose buffer a pool thread is decoding          *)
  stop,      (* the tasks that get CancelledError when they next run      *)
  query      (* running, returned, raised or cancelled                    *)

vars == <<ost, rst, used, peak, decoders, stop, query>>

ObjectStates ==
  {"queued",     (* waits for the semaphore                               *)
   "fetching",   (* the store is reading the object                       *)
   "planning",   (* unpacked and planned in worker threads                *)
   "streaming",  (* gathers its reads                                     *)
   "done", "failed", "cancelled"}

ReadStates ==
  {"none",       (* its object is not planned yet                         *)
   "start",      (* task created, acquire not called yet                  *)
   "waiting",    (* suspended in the condition's wait                     *)
   "notified",   (* woken, has to look at the budget again                *)
   "admitted",   (* holds its bytes, waits for the semaphore              *)
   "fetching",   (* the store is reading the range                        *)
   "submitted",  (* buffer handed to the pool, no thread has it yet       *)
   "decoding",   (* a thread counts or aggregates the buffer              *)
   "decoded",    (* the thread is finished, the task not yet resumed      *)
   "done", "failed", "cancelled"}

Over == {"done", "failed", "cancelled"}

(* The states in which a read has its bytes reserved. *)
HoldStates == {"admitted", "fetching", "submitted", "decoding", "decoded"}
Holding == {r \in Reads : rst[r] \in HoldStates}
Gone == {r \in Reads : rst[r] \in Over}

(* The bytes of a set of reads, one pair per byte. *)
BytesOf(r) == {r} \X (1 .. Size[r])
Bytes(S) == UNION {BytesOf(r) : r \in S}
ByteCount(S) == Cardinality(Bytes(S))
HeldBytes == ByteCount(Holding)

(* async with sem: object and block reads share one limit. *)
SemHolders ==
  Cardinality({o \in Objects : ost[o] = "fetching"})
    + Cardinality({r \in Reads : rst[r] = "fetching"})
SemFree == SemHolders < Concurrency

ReadsOf(o) == {r \in Reads : Owner[r] = o}

-----------------------------------------------------------------------------
(* ByteBudget *)

Larger(a, b) == IF a >= b THEN a ELSE b

(* Mutant: checks what is held without the read that asks. *)
CanHoldBeforeAdding(r) == Limit = NoLimit \/ used = 0 \/ used <= Limit

(* The predicate wait_for waits for; without a limit nobody waits. *)
CanHold(r) == Limit = NoLimit \/ used = 0 \/ used + Size[r] <= Limit

(* Mutant: the peak adds up reads that were never held together. *)
AdmitSummingPeak(r) ==
  /\ rst' = [rst EXCEPT ![r] = "admitted"]
  /\ used' = used + Size[r]
  /\ peak' = peak + Size[r]

Admit(r) ==
  /\ rst' = [rst EXCEPT ![r] = "admitted"]
  /\ used' = used + Size[r]
  /\ peak' = Larger(peak, used + Size[r])

(* Mutant: release notifies nobody. *)
ReleaseSilently(r, outcome) ==
  /\ rst' = [rst EXCEPT ![r] = outcome]
  /\ used' = used - Size[r]
  /\ UNCHANGED peak

(* release, with notify_all; the read ends in state outcome. *)
Release(r, outcome) ==
  /\ rst' = [x \in Reads |-> IF x = r THEN outcome
                             ELSE IF rst[x] = "waiting" THEN "notified"
                             ELSE rst[x]]
  /\ used' = used - Size[r]
  /\ UNCHANGED peak

-----------------------------------------------------------------------------
Init ==
  /\ ost = [o \in Objects |-> "queued"]
  /\ rst = [r \in Reads |-> "none"]
  /\ used = 0
  /\ peak = 0
  /\ decoders = {}
  /\ stop = {}
  /\ query = "running"

(* --- the task of one zone map object: one(i) of the pipelined query --- *)

ObjectGoes(o, from) == ost[o] = from /\ o \notin stop

FetchObject(o) ==
  /\ ObjectGoes(o, "queued")
  /\ SemFree
  /\ ost' = [ost EXCEPT ![o] = "fetching"]
  /\ UNCHANGED <<rst, used, peak, decoders, stop, query>>

(* The store answers; a missing object raises FileNotFoundError. *)
ObjectArrives(o) ==
  /\ ObjectGoes(o, "fetching")
  /\ \E to \in {"planning", "failed"} : ost' = [ost EXCEPT ![o] = to]
  /\ UNCHANGED <<rst, used, peak, decoders, stop, query>>

(* The object is planned, its reads are merged and stream_count gathers one *)
(* task per read; a wrong size or a bad plan raises ValueError instead.     *)
PlanObject(o) ==
  /\ ObjectGoes(o, "planning")
  /\ \/ /\ ost' = [ost EXCEPT ![o] = "streaming"]
        /\ rst' = [r \in Reads |-> IF r \in ReadsOf(o) THEN "start" ELSE rst[r]]
     \/ /\ ost' = [ost EXCEPT ![o] = "failed"]
        /\ UNCHANGED rst
  /\ UNCHANGED <<used, peak, decoders, stop, query>>

(* Mutant: gather with return_exceptions, whose results are just summed. *)
EndObjectSwallowing(o) ==
  /\ ObjectGoes(o, "streaming")
  /\ \A r \in ReadsOf(o) : rst[r] \in {"done", "failed"}
  /\ ost' = [ost EXCEPT ![o] = "done"]
  /\ UNCHANGED <<rst, used, peak, decoders, stop, query>>

(* gather hands over the results once all are there, and the first         *)
(* exception as soon as there is one: the other reads go on without it.    *)
EndObject(o) ==
  /\ ObjectGoes(o, "streaming")
  /\ \/ /\ \A r \in ReadsOf(o) : rst[r] = "done"
        /\ ost' = [ost EXCEPT ![o] = "done"]
     \/ /\ \E r \in ReadsOf(o) : rst[r] = "failed"
        /\ ost' = [ost EXCEPT ![o] = "failed"]
  /\ UNCHANGED <<rst, used, peak, decoders, stop, query>>

(* CancelledError at whatever the object's task awaits. *)
UnwindObject(o) ==
  /\ o \in stop
  /\ ost[o] \notin Over
  /\ ost' = [ost EXCEPT ![o] = "cancelled"]
  /\ UNCHANGED <<rst, used, peak, decoders, stop, query>>

(* --- the task of one read: one(req) of stream_count --- *)

ReadGoes(r, from) == rst[r] \in from /\ r \notin stop

Acquire(r) ==
  /\ ReadGoes(r, {"start", "notified"})
  /\ \/ CanHold(r) /\ Admit(r)
     \/ /\ ~CanHold(r)
        /\ rst' = [rst EXCEPT ![r] = "waiting"]
        /\ UNCHANGED <<used, peak>>
  /\ UNCHANGED <<ost, decoders, stop, query>>

FetchRange(r) ==
  /\ ReadGoes(r, {"admitted"})
  /\ SemFree
  /\ rst' = [rst EXCEPT ![r] = "fetching"]
  /\ UNCHANGED <<ost, used, peak, decoders, stop, query>>

(* Mutant: the bytes are given back when the download is over, not when the *)
(* decode is.                                                               *)
RangeArrivesReleasing(r) ==
  /\ ReadGoes(r, {"fetching"})
  /\ Release(r, "submitted")
  /\ UNCHANGED <<ost, decoders, stop, query>>

(* All the bytes came: the semaphore is free again and the pool gets them. *)
RangeArrives(r) ==
  /\ ReadGoes(r, {"fetching"})
  /\ rst' = [rst EXCEPT ![r] = "submitted"]
  /\ UNCHANGED <<ost, used, peak, decoders, stop, query>>

(* Mutant: no finally clause, a failed read keeps its reservation. *)
RangeFailsKeeping(r) ==
  /\ ReadGoes(r, {"fetching"})
  /\ rst' = [rst EXCEPT ![r] = "failed"]
  /\ UNCHANGED <<ost, used, peak, decoders, stop, query>>

(* Missing object, short read or store error: the finally clause releases. *)
RangeFails(r) ==
  /\ ReadGoes(r, {"fetching"})
  /\ Release(r, "failed")
  /\ UNCHANGED <<ost, decoders, stop, query>>

(* Mutant: a decode that failed is handed to the pool again, without end. *)
ResumeRetrying(r) ==
  /\ ReadGoes(r, {"decoded"})
  /\ \/ Release(r, "done")
     \/ /\ rst' = [rst EXCEPT ![r] = "submitted"]
        /\ UNCHANGED <<used, peak>>
  /\ UNCHANGED <<ost, decoders, stop, query>>

(* The thread's result, or its exception, resumes the task. *)
Resume(r) ==
  /\ ReadGoes(r, {"decoded"})
  /\ \E outcome \in {"done", "failed"} : Release(r, outcome)
  /\ UNCHANGED <<ost, decoders, stop, query>>

(* Mutant: except Exception instead of finally, which CancelledError passes. *)
UnwindReadKeeping(r) ==
  /\ r \in stop
  /\ rst[r] \in HoldStates \cup {"start", "waiting", "notified"}
  /\ rst' = [rst EXCEPT ![r] = "cancelled"]
  /\ UNCHANGED <<ost, used, peak, decoders, stop, query>>

(* CancelledError: before the try there is nothing to give back, inside it *)
(* the finally clause releases.  A thread that has the buffer keeps it.    *)
UnwindRead(r) ==
  /\ r \in stop
  /\ \/ /\ rst[r] \in {"start", "waiting", "notified"}
        /\ rst' = [rst EXCEPT ![r] = "cancelled"]
        /\ UNCHANGED <<used, peak>>
     \/ /\ rst[r] \in HoldStates
        /\ Release(r, "cancelled")
  /\ UNCHANGED <<ost, decoders, stop, query>>

(* --- the decoder pool --- *)

Decode(r) ==
  /\ rst[r] = "submitted"
  /\ Cardinality(decoders) < Threads
  /\ decoders' = decoders \cup {r}
  /\ rst' = [rst EXCEPT ![r] = "decoding"]
  /\ UNCHANGED <<ost, used, peak, stop, query>>

DecodeEnds(r) ==
  /\ r \in decoders
  /\ decoders' = decoders \ {r}
  /\ rst' = IF rst[r] = "decoding" THEN [rst EXCEPT ![r] = "decoded"] ELSE rst
  /\ UNCHANGED <<ost, used, peak, stop, query>>

(* --- the query: gather over the objects --- *)

EndQuery ==
  /\ query = "running"
  /\ \/ /\ \A o \in Objects : ost[o] = "done"
        /\ query' = "returned"
     \/ /\ \E o \in Objects : ost[o] = "failed"
        /\ query' = "raised"
     \/ /\ \E o \in Objects : ost[o] = "cancelled"
        /\ query' = "cancelled"
  /\ UNCHANGED <<ost, rst, used, peak, decoders, stop>>

(* The caller of query_gt_async cancels it.  gather passes that on to every *)
(* object still running and from there to its reads, except where a failed  *)
(* read has already ended the object's gather: the reads beside it go on.   *)
Cancel ==
  /\ query = "running"
  /\ stop = {}
  /\ \E ended \in SUBSET {Owner[r] : r \in {x \in Reads : rst[x] = "failed"}} :
       stop' = {o \in Objects : ost[o] \notin Over}
                 \cup {r \in Reads : /\ rst[r] \notin Over \cup {"none"}
                                     /\ ost[Owner[r]] = "streaming"
                                     /\ Owner[r] \notin ended}
  /\ UNCHANGED <<ost, rst, used, peak, decoders, query>>

-----------------------------------------------------------------------------
ObjectStep(o) ==
  \/ FetchObject(o) \/ ObjectArrives(o) \/ PlanObject(o) \/ EndObject(o)
  \/ UnwindObject(o)

ReadStep(r) ==
  \/ Acquire(r) \/ FetchRange(r) \/ RangeArrives(r) \/ RangeFails(r)
  \/ Resume(r) \/ UnwindRead(r)

PoolStep(r) == Decode(r) \/ DecodeEnds(r)

(* Nothing is left to run: every task is over and every thread idle. *)
Quiet ==
  /\ query # "running"
  /\ decoders = {}
  /\ \A o \in Objects : ost[o] \in Over
  /\ \A r \in Reads : rst[r] \in Over \cup {"none"}

Finished == Quiet /\ UNCHANGED vars

Next ==
  \/ \E o \in Objects : ObjectStep(o)
  \/ \E r \in Reads : ReadStep(r) \/ PoolStep(r)
  \/ EndQuery
  \/ Cancel
  \/ Finished

(* The event loop runs every ready task, the store answers every read (with *)
(* bytes or an error) and a decode, which is a bounded loop, ends.  Nothing *)
(* makes the caller cancel.                                                 *)
Fairness ==
  /\ \A o \in Objects : WF_vars(ObjectStep(o))
  /\ \A r \in Reads : WF_vars(ReadStep(r)) /\ WF_vars(PoolStep(r))
  /\ WF_vars(EndQuery)

Spec == Init /\ [][Next]_vars
FairSpec == Spec /\ Fairness

-----------------------------------------------------------------------------
(* Properties *)

(* Tasks stand where a task can be suspended, and the budget's counter     *)
(* never drops below zero.                                                 *)
TypeOK ==
  /\ ost \in [Objects -> ObjectStates]
  /\ rst \in [Reads -> ReadStates]
  /\ used \in Nat
  /\ peak \in Nat
  /\ decoders \in SUBSET Reads
  /\ stop \in SUBSET (Objects \cup Reads)
  /\ query \in {"running", "returned", "raised", "cancelled"}

(* The counter is right: used is the number of bytes of the reads that     *)
(* have acquired and not released, whichever of success, failed download,  *)
(* failed decode and cancellation ended the others (the finally clause of  *)
(* stream_count's one).                                                    *)
BooksBalance == used = HeldBytes

(* The promise of max_inflight_bytes: the held bytes stay within the limit *)
(* unless a read larger than the limit runs, and then it runs alone.       *)
LimitHolds ==
  \/ Limit = NoLimit
  \/ HeldBytes <= Limit
  \/ \E r \in Reads : Holding = {r} /\ Size[r] > Limit

(* peak_inflight_bytes is the most ever held: at least what is held now,   *)
(* and never above the limit and every single read at once.                *)
PeakBound ==
  /\ used <= peak
  /\ \/ Limit = NoLimit
     \/ peak <= Limit
     \/ \E r \in Reads : peak = Size[r]

(* No wake-up is lost: a read asleep in the condition really has to wait,  *)
(* since every change that could let it in notifies it.                    *)
NoLostWakeup ==
  \A r \in Reads : rst[r] = "waiting" => ~CanHold(r)

(* No partial count: a query that returns has counted every read of every  *)
(* object, even though failed reads leave others running.                  *)
NoPartialResult ==
  query = "returned" => \A r \in Reads : rst[r] = "done"

(* A query always ends: no order of admissions leaves the reads waiting    *)
(* for each other, with any mix of sizes, failures and cancellation.       *)
QueryEnds == <>(query # "running")

(* Every byte is given back in the end, also those of the reads that go on *)
(* after another read's failure has ended the query.                       *)
AllGivenBack == <>[](used = 0 /\ Quiet)

(* The tasks implement the promise of ByteLimit. *)
Promise ==
  INSTANCE ByteLimit WITH
    held <- Holding,
    gone <- Gone

KeepsPromise == Promise!LSpec

(* In the end the query has its outcome and every byte is given back.      *)
EndsGivingAllBack == QueryEnds /\ AllGivenBack
=============================================================================
