---------------------------- MODULE MetaLifecycle ----------------------------
(***************************************************************************)
(* The life of a zone map beside its payload: chunks are written and       *)
(* rewritten, the array is resized, write_meta builds the zone map step by *)
(* step and may crash between any two steps, and a reader with a handle    *)
(* opened some time ago runs queries and check_meta meanwhile.  The store  *)
(* is shared; nothing locks it.                                            *)
(*                                                                         *)
(* Units are chunks along the first axis.  A chunk's contents are one of   *)
(* Versions, or Zero when its object is missing; a record of the zone map  *)
(* is the contents it was computed from, so a record is right for a chunk  *)
(* when the two are equal, and the all-zero record is Zero.  The CRC32 of  *)
(* a chunk stands for its bytes.                                           *)
(***************************************************************************)
EXTENDS Integers, FiniteSets

CONSTANTS
  Versions,          (* contents of a chunk                                *)
  Shapes,            (* lengths of the array, in units                     *)
  TChunks,           (* t_chunk arguments of write_meta                    *)
  Packings,          (* compress arguments of write_meta                   *)
  ByKeys,            (* the meta_by_key options of queries                 *)
  WriteDuringBuild,  (* chunks may be written while write_meta runs        *)
  Crashes,           (* write_meta may crash                               *)
  MaxWrites, MaxBuilds,
  None               (* no attributes, no zarr.json, no object             *)

ASSUME ShapesAssumption == Shapes # {} /\ Shapes \subseteq Nat \ {0}
ASSUME TChunksAssumption == TChunks \subseteq Nat \ {0}
ASSUME OptionsAssumption ==
  /\ Packings \subseteq BOOLEAN /\ ByKeys \subseteq BOOLEAN
  /\ WriteDuringBuild \in BOOLEAN /\ Crashes \in BOOLEAN
  /\ MaxWrites \in Nat /\ MaxBuilds \in Nat

Zero == "zero"        (* a missing chunk, a zero record or a record of one *)
Garbled == "garbled"  (* a record unpacked from bytes not packed that way  *)

MaxUnits == CHOOSE n \in Shapes : \A s \in Shapes : s <= n
Units == 0 .. MaxUnits - 1
UnitsOf(n) == 0 .. n - 1
CeilDiv(a, b) == (a + b - 1) \div b
Least(a, b) == IF a < b THEN a ELSE b

(* None is neither a layout nor attributes. *)
ASSUME NoneAssumption ==
  /\ None \notin [shape : Nat, t : Nat, packed : BOOLEAN]
  /\ None \notin [t : Nat, packed : BOOLEAN, source : Nat,
                  crc : UNION {[UnitsOf(n) -> Versions \cup {Zero}] : n \in Shapes}]

VARIABLES
  shape,    (* in the array's zarr.json                                    *)
  attrs,    (* its attributes: None before the first zone map              *)
  payload,  (* contents of each chunk                                      *)
  json,     (* the zone map's zarr.json: shape, t_chunk, compressor        *)
  zm,       (* the zone map's objects                                      *)
  writer,   (* the run of write_meta                                       *)
  reader,   (* the reader's handle and its current call                    *)
  writes, builds, (* counted against MaxWrites and MaxBuilds               *)
  late      (* history: chunks written while the last write_meta ran, after *)
            (* it had their data and before it read their CRC32            *)

vars == <<shape, attrs, payload, json, zm, writer, reader, writes, builds, late>>
store == <<shape, attrs, payload, json, zm>>
counts == <<writes, builds, late>>

-----------------------------------------------------------------------------
(* Layouts and objects *)

Layout(n, t, packed) == [shape |-> n, t |-> t, packed |-> packed]
ObjectIds(lay) == UnitsOf(CeilDiv(lay.shape, lay.t))
(* The units an object holds records of, before it is padded to t rows.    *)
UnitsIn(lay, i) == i * lay.t .. Least((i + 1) * lay.t, lay.shape) - 1

(* Object i: t rows, the ones past the grid zero, packed over its units.   *)
ObjectOf(lay, i, data) ==
  [t |-> lay.t, packed |-> lay.packed, units |-> Cardinality(UnitsIn(lay, i)),
   rows |-> [k \in UnitsOf(lay.t) |->
               IF i * lay.t + k \in UnitsIn(lay, i) THEN data[i * lay.t + k] ELSE Zero]]

-----------------------------------------------------------------------------
(* The payload *)

Building == writer.pc # "idle"
MayWrite == writes < MaxWrites /\ (WriteDuringBuild \/ ~Building)

(* arr[...] = values, one chunk at a time. *)
WriteChunk(c, v) ==
  /\ MayWrite
  /\ c < shape /\ payload[c] # v
  /\ payload' = [payload EXCEPT ![c] = v]
  /\ writes' = writes + 1
  /\ reader' = [reader EXCEPT !.tainted = TRUE, !.quiet = FALSE]
  /\ late' = IF Building /\ c \notin DOMAIN writer.crc THEN late \cup {c} ELSE late
  /\ UNCHANGED <<shape, attrs, json, zm, writer, builds>>

(* arr.resize along the first axis: chunks cut off are deleted and the     *)
(* attributes stay.                                                        *)
Resize(n) ==
  /\ MayWrite /\ ~Building
  /\ n # shape
  /\ shape' = n
  /\ payload' = [c \in Units |-> IF c < n THEN payload[c] ELSE Zero]
  /\ writes' = writes + 1
  /\ reader' = [reader EXCEPT !.tainted = TRUE, !.quiet = FALSE]
  /\ UNCHANGED <<attrs, json, zm, writer, builds, late>>

-----------------------------------------------------------------------------
(* write_meta *)

Idle == [pc |-> "idle", settled |-> FALSE]

(* The call: data is what was written to the array, and t_chunk is cut to  *)
(* the grid.                                                               *)
StartBuild(t, packed) ==
  /\ ~Building
  /\ builds < MaxBuilds
  /\ builds' = builds + 1 /\ late' = {}
  /\ writer' = [pc |-> "clear", settled |-> FALSE, data |-> payload,
                lay |-> Layout(shape, Least(t, shape), packed),
                crc |-> [c \in {} |-> Zero]]
  /\ reader' = [reader EXCEPT !.quiet = FALSE]
  /\ UNCHANGED <<store, writes>>

(* create_array(overwrite=True) deletes what is there, object by object... *)
DropObject(i) ==
  /\ writer.pc = "clear"
  /\ i \in DOMAIN zm
  /\ zm' = [j \in DOMAIN zm \ {i} |-> zm[j]]
  /\ UNCHANGED <<shape, attrs, payload, json, writer, reader, counts>>

DropJson ==
  /\ writer.pc = "clear"
  /\ json # None
  /\ json' = None
  /\ UNCHANGED <<shape, attrs, payload, zm, writer, reader, counts>>

(* ... and writes the new zarr.json.                                       *)
CreateMeta ==
  /\ writer.pc = "clear"
  /\ DOMAIN zm = {} /\ json = None
  /\ json' = writer.lay
  /\ writer' = [writer EXCEPT !.pc = "objects"]
  /\ UNCHANGED <<shape, attrs, payload, zm, reader, counts>>

(* meta[...] = rec: the objects are written concurrently.                  *)
PutObject(i) ==
  /\ writer.pc = "objects"
  /\ i \in ObjectIds(writer.lay) \ DOMAIN zm
  /\ zm' = [j \in DOMAIN zm \cup {i} |->
              IF j = i THEN ObjectOf(writer.lay, i, writer.data) ELSE zm[j]]
  /\ UNCHANGED <<shape, attrs, payload, json, writer, reader, counts>>

PutLastObject ==
  /\ writer.pc = "objects"
  /\ DOMAIN zm = ObjectIds(writer.lay)
  /\ writer' = [writer EXCEPT !.pc = "crc"]
  /\ UNCHANGED <<store, reader, counts>>

(* chunk_crc32 reads the chunks back, concurrently.                        *)
ReadCrc(c) ==
  /\ writer.pc = "crc"
  /\ c \in UnitsOf(shape) \ DOMAIN writer.crc
  /\ writer' = [writer EXCEPT !.crc =
       [d \in DOMAIN writer.crc \cup {c} |-> IF d = c THEN payload[c] ELSE writer.crc[d]]]
  /\ UNCHANGED <<store, reader, counts>>

(* Mutant: the packing attribute is only written for packed objects, and   *)
(* update_attributes keeps what it is not given.                           *)
NewAttrsMerged(lay, crc) ==
  [t |-> lay.t, packed |-> lay.packed \/ (attrs # None /\ attrs.packed),
   source |-> lay.shape, crc |-> crc]

NewAttrs(lay, crc) == [t |-> lay.t, packed |-> lay.packed, source |-> lay.shape, crc |-> crc]

UpdateAttributes ==
  /\ writer.pc = "crc"
  /\ DOMAIN writer.crc = UnitsOf(shape)
  /\ attrs' = NewAttrs(writer.lay, writer.crc)
  /\ writer' = [Idle EXCEPT !.settled = TRUE]
  /\ UNCHANGED <<shape, payload, json, zm, reader, counts>>

Crash ==
  /\ Crashes /\ Building
  /\ writer' = Idle
  /\ UNCHANGED <<store, reader, counts>>

-----------------------------------------------------------------------------
(* The reader: a handle holds the array's zarr.json as it was when opened. *)

(* An object that was packed when it held another number of units.         *)
PackedForOther(o, i) ==
  o.packed /\ o.units # Cardinality(UnitsIn(Layout(shape, o.t, TRUE), i))

(* Some record in the store, zero rows included, or one about to be, is    *)
(* not that of its chunk, or is packed with units the array does not have. *)
ZoneMapStale ==
  \/ \E i \in DOMAIN zm : \E k \in UnitsOf(zm[i].t) :
        LET c == i * zm[i].t + k IN c < shape /\ zm[i].rows[k] # payload[c]
  \/ \E i \in DOMAIN zm : PackedForOther(zm[i], i)
  \/ Building /\ \E c \in UnitsOf(shape) : writer.data[c] # payload[c]

Records == [c \in UnitsOf(reader.shape) |-> IF c \in DOMAIN reader.seen THEN reader.seen[c] ELSE None]
Resting == reader.pc \in {"idle", "answered", "listed", "raised"}

Open ==
  /\ Resting
  /\ reader' = [pc |-> "idle", shape |-> shape, attrs |-> attrs, by |-> TRUE, json |-> None,
                seen |-> [c \in {} |-> Zero], tainted |-> FALSE, quiet |-> FALSE, settled |-> FALSE]
  /\ UNCHANGED <<store, writer, counts>>

Start(pc, by) ==
  [reader EXCEPT !.pc = pc, !.by = by, !.json = None, !.seen = [c \in {} |-> Zero],
     !.tainted = ZoneMapStale \/ reader.shape # shape,
     !.quiet = ~Building /\ reader.attrs = attrs /\ reader.shape = shape,
     !.settled = writer.settled]

(* Mutant: the shape the zone map was built for is not checked. *)
SourceUnchecked == reader.attrs # None

(* check_source *)
SourceMatches == reader.attrs # None /\ reader.attrs.source = reader.shape

(* A query, up to the zone map's first object or zarr.json. *)
StartQuery(by) ==
  /\ Resting
  /\ reader' = [Start(IF SourceMatches THEN "query" ELSE "raised", by) EXCEPT !.by = by]
  /\ UNCHANGED <<store, writer, counts>>

HandleLayout == Layout(reader.shape, reader.attrs.t, reader.attrs.packed)

(* Mutant: an object of another size is taken as it is. *)
FitsUnsized(o, lay) == o.packed = lay.packed

(* The object decodes to t rows: a packed one is no zstd frame for a raw   *)
(* layout's reader or the wrong size for it, and the other way round.      *)
Fits(o, lay) == o.packed = lay.packed /\ o.t = lay.t

(* What the rows of object i read as. *)
RowsRead(o, lay, i) ==
  [c \in UnitsIn(lay, i) |->
     IF o.packed /\ o.units # Cardinality(UnitsIn(lay, i)) THEN Garbled
     ELSE IF c - i * lay.t \in DOMAIN o.rows THEN o.rows[c - i * lay.t] ELSE Zero]

Saw(rows) ==
  [c \in DOMAIN reader.seen \cup DOMAIN rows |->
     IF c \in DOMAIN rows THEN rows[c] ELSE reader.seen[c]]

(* read_meta_object: a missing object or one of another size raises.       *)
ReadObject(i) ==
  /\ reader.pc = "query" /\ reader.by
  /\ i \in ObjectIds(HandleLayout)
  /\ UnitsIn(HandleLayout, i) \cap DOMAIN reader.seen = {}
  /\ reader' = IF i \in DOMAIN zm /\ Fits(zm[i], HandleLayout)
               THEN [reader EXCEPT !.seen = Saw(RowsRead(zm[i], HandleLayout, i))]
               ELSE [reader EXCEPT !.pc = "raised"]
  /\ UNCHANGED <<store, writer, counts>>

(* read_meta_zarr: the zone map's own zarr.json gives the layout.          *)
OpenMeta ==
  /\ reader.pc = "query" /\ ~reader.by /\ reader.json = None
  /\ reader' = IF json # None /\ json.shape = reader.shape
               THEN [reader EXCEPT !.json = json]
               ELSE [reader EXCEPT !.pc = "raised"]
  /\ UNCHANGED <<store, writer, counts>>

(* A missing object reads as fill values; the rows are unpacked when the   *)
(* handle's attributes say that they are packed.                           *)
ReadMetaChunk(i) ==
  /\ reader.pc = "query" /\ ~reader.by /\ reader.json # None
  /\ i \in ObjectIds(reader.json)
  /\ UnitsIn(reader.json, i) \cap DOMAIN reader.seen = {}
  /\ reader' =
       IF i \notin DOMAIN zm
       THEN [reader EXCEPT !.seen = Saw([c \in UnitsIn(reader.json, i) |-> Zero])]
       ELSE IF ~Fits(zm[i], reader.json) THEN [reader EXCEPT !.pc = "raised"]
       ELSE IF reader.attrs.packed # reader.json.packed
       THEN [reader EXCEPT !.seen = Saw([c \in UnitsIn(reader.json, i) |-> Garbled])]
       ELSE [reader EXCEPT !.seen = Saw(RowsRead(zm[i], reader.json, i))]
  /\ UNCHANGED <<store, writer, counts>>

FinishQuery ==
  /\ reader.pc = "query"
  /\ DOMAIN reader.seen = UnitsOf(reader.shape)
  /\ reader' = [reader EXCEPT !.pc = "answered"]
  /\ UNCHANGED <<store, writer, counts>>

(* check_meta *)
StartCheck ==
  /\ Resting
  /\ reader' = Start(IF SourceMatches THEN "check" ELSE "raised", TRUE)
  /\ UNCHANGED <<store, writer, counts>>

ReadChunk(c) ==
  /\ reader.pc = "check"
  /\ c \in UnitsOf(reader.shape) \ DOMAIN reader.seen
  /\ reader' = [reader EXCEPT !.seen = Saw([d \in {c} |-> payload[c]])]
  /\ UNCHANGED <<store, writer, counts>>

FinishCheck ==
  /\ reader.pc = "check"
  /\ DOMAIN reader.seen = UnitsOf(reader.shape)
  /\ reader' = [reader EXCEPT !.pc = "listed"]
  /\ UNCHANGED <<store, writer, counts>>

(* Mutant: a chunk whose object is gone has no CRC32 to compare. *)
ChangedPresent(crc, seen) ==
  {c \in DOMAIN crc \cap DOMAIN seen : crc[c] # seen[c] /\ seen[c] # Zero}

(* The chunks check_meta returns: zip takes those that both lists have.    *)
Changed(crc, seen) == {c \in DOMAIN crc \cap DOMAIN seen : crc[c] # seen[c]}

Listed == Changed(reader.attrs.crc, reader.seen)

-----------------------------------------------------------------------------
Init ==
  /\ shape \in Shapes
  /\ attrs = None
  /\ payload \in {p \in [Units -> Versions \cup {Zero}] : \A c \in Units : c >= shape <=> p[c] = Zero}
  /\ json = None
  /\ zm = [i \in {} |-> None]
  /\ writer = Idle
  /\ reader = [pc |-> "idle", shape |-> shape, attrs |-> attrs, by |-> TRUE, json |-> None,
               seen |-> [c \in {} |-> Zero], tainted |-> FALSE, quiet |-> FALSE, settled |-> FALSE]
  /\ writes = 0 /\ builds = 0 /\ late = {}

Next ==
  \/ \E c \in Units, v \in Versions : WriteChunk(c, v)
  \/ \E n \in Shapes : Resize(n)
  \/ \E t \in TChunks, packed \in Packings : StartBuild(t, packed)
  \/ \E i \in Units : DropObject(i)
  \/ DropJson
  \/ CreateMeta
  \/ \E i \in Units : PutObject(i)
  \/ PutLastObject
  \/ \E c \in Units : ReadCrc(c)
  \/ UpdateAttributes
  \/ Crash
  \/ Open
  \/ \E by \in ByKeys : StartQuery(by)
  \/ \E i \in Units : ReadObject(i)
  \/ OpenMeta
  \/ \E i \in Units : ReadMetaChunk(i)
  \/ FinishQuery
  \/ StartCheck
  \/ \E c \in Units : ReadChunk(c)
  \/ FinishCheck

Spec == Init /\ [][Next]_vars

-----------------------------------------------------------------------------
(* Properties *)

(* The call runs on the zone map of a write_meta that returned, with a     *)
(* handle opened since, and nothing has been written since it began.       *)
Undisturbed == reader.quiet /\ reader.settled

AllRight == \A c \in DOMAIN reader.seen : reader.seen[c] = payload[c]

(* A query through the objects' keys on an array whose chunks are not      *)
(* rewritten since the zone map was built is answered from the right       *)
(* record of every chunk or raises, though write_meta builds the zone map  *)
(* again in another layout meanwhile or crashed doing so, and however old  *)
(* the handle is; unless a packed object of another length of the array    *)
(* was left in the store (PackedForOther).                                 *)
RightOrRaises ==
  reader.pc = "answered" /\ reader.by /\ ~reader.tainted => AllRight

(* Once write_meta returned, a query that no later one disturbs is         *)
(* answered, whichever layout and packing the zone map had before.         *)
ServedAfterBuild ==
  Undisturbed /\ ~reader.tainted /\ reader.shape = reader.attrs.source =>
    reader.pc # "raised" /\ (reader.pc = "answered" => AllRight)

(* The record the zone map now has of chunk c. *)
RecordOf(c) ==
  IF json # None /\ c \div json.t \in DOMAIN zm
  THEN zm[c \div json.t].rows[c % json.t] ELSE None

(* Once write_meta returned, check_meta lists exactly the chunks whose     *)
(* bytes the zone map does not describe, deleted chunks included; only of  *)
(* chunks written between write_meta's data and its CRC32 it cannot tell.  *)
CheckIsExact ==
  reader.pc = "listed" /\ Undisturbed =>
    \A c \in DOMAIN reader.seen \ late : c \in Listed <=> reader.seen[c] # RecordOf(c)

(* codec.py:799: "An empty list means the zone map still matches the       *)
(* payload": no object that a query could read has another record of a     *)
(* chunk, when nothing is written from the call of check_meta on.          *)
EmptyMeansMatch ==
  reader.pc = "listed" /\ Listed = {} /\ reader.quiet =>
    \A c \in DOMAIN reader.seen : RecordOf(c) \in {None, reader.seen[c]}

(* Resizes between builds mislead neither a query nor check_meta.          *)
ResizeIsSafe == RightOrRaises /\ CheckIsExact
=============================================================================
