------------------------------ MODULE CrashProofs ------------------------------
(***************************************************************************)
(* Proofs about what is left on disk when a process is killed.             *)
(*                                                                         *)
(* Zone maps (MetaLifecycle): for every set of contents, shapes, layouts   *)
(* and options and any number of writes and builds.                        *)
(*                                                                         *)
(* Benchmark runs (ThresholdBench): for any inputs, variables and jobs and *)
(* any number of runs, crashes and failures.  A row is right because the   *)
(* thresholds a process holds are none or those of its own input, which    *)
(* holds because whatever it takes from the cache is: a copy by its length *)
(* (OneRawPerCache), saved thresholds by their key.                        *)
(***************************************************************************)
EXTENDS MetaLifecycle, ThresholdBench, TLAPS

-----------------------------------------------------------------------------
(* The shapes of the variables' values *)

Contents == Versions \cup {Zero}

IsReader(r) ==
  r = [pc |-> r.pc, shape |-> r.shape, attrs |-> r.attrs, by |-> r.by, json |-> r.json,
       seen |-> r.seen, tainted |-> r.tainted, quiet |-> r.quiet, settled |-> r.settled]

(* A write_meta that runs works on the shape of the array, which it keeps. *)
IsBuild(w) ==
  /\ w = [pc |-> w.pc, settled |-> w.settled, data |-> w.data, lay |-> w.lay, crc |-> w.crc]
  /\ w.settled = FALSE
  /\ w.lay = Layout(shape, w.lay.t, w.lay.packed)
  /\ w.lay.t \in Nat \ {0} /\ w.lay.packed \in Packings
  /\ w.data \in [Units -> Contents]
  /\ DOMAIN w.crc \subseteq UnitsOf(shape)
  /\ w.crc \in [DOMAIN w.crc -> Contents]

IsObject(o) ==
  o.t \in Nat \ {0} /\ o.packed \in Packings /\ DOMAIN o.rows = UnitsOf(o.t)

Types ==
  /\ shape \in Shapes
  /\ payload \in [Units -> Contents]
  /\ \A i \in DOMAIN zm : IsObject(zm[i])
  /\ writer.pc \in {"idle", "clear", "objects", "crc"}
  /\ Building => IsBuild(writer)
  /\ IsReader(reader)

-----------------------------------------------------------------------------
(* Layouts *)

LEMMA LeastIsOne ==
  ASSUME NEW a \in Nat \ {0}, NEW b \in Nat \ {0}
  PROVE  Least(a, b) \in Nat \ {0}
BY DEF Least

LEMMA ObjectsFit ==
  ASSUME NEW n \in Shapes, NEW t \in Nat \ {0}, NEW packed \in Packings, NEW i, NEW data
  PROVE  IsObject(ObjectOf(Layout(n, t, packed), i, data))
BY DEF IsObject, ObjectOf, Layout

-----------------------------------------------------------------------------
(* Type correctness *)

LEMMA TypesInit == Init => Types
<1> SUFFICES ASSUME Init PROVE Types
  OBVIOUS
<1>1. shape \in Shapes /\ payload \in [Units -> Contents]
  BY DEF Init, Contents
<1>2. DOMAIN zm = {}
  BY DEF Init
<1>3. writer.pc = "idle"
  BY DEF Init, Idle
<1>4. IsReader(reader)
  BY DEF Init, IsReader
<1> QED
  BY <1>1, <1>2, <1>3, <1>4 DEF Types, Building

LEMMA TypesStep == Types /\ [Next]_vars => Types'
<1> SUFFICES ASSUME Types, [Next]_vars PROVE Types'
  OBVIOUS
<1> USE DEF Types, Building
<1>1. ASSUME NEW c \in Units, NEW v \in Versions, WriteChunk(c, v)
      PROVE  Types'
  <2>1. shape' = shape /\ zm' = zm /\ writer' = writer /\ payload' \in [Units -> Contents]
    BY <1>1 DEF WriteChunk, Contents
  <2>2. IsReader(reader')
    BY <1>1 DEF WriteChunk, IsReader
  <2> QED
    BY <2>1, <2>2 DEF IsBuild
<1>2. ASSUME NEW n \in Shapes, Resize(n)
      PROVE  Types'
  <2>1. shape' = n /\ zm' = zm /\ writer' = writer /\ ~Building
    BY <1>2 DEF Resize
  <2>2. payload' \in [Units -> Contents]
    BY <1>2 DEF Resize, Contents
  <2>3. IsReader(reader')
    BY <1>2 DEF Resize, IsReader
  <2> QED
    BY <2>1, <2>2, <2>3
<1>3. ASSUME NEW t \in TChunks, NEW packed \in Packings, StartBuild(t, packed)
      PROVE  Types'
  <2>1. shape' = shape /\ payload' = payload /\ zm' = zm
    BY <1>3 DEF StartBuild, store
  <2>2. IsReader(reader')
    BY <1>3 DEF StartBuild, IsReader
  <2>3. Least(t, shape) \in Nat \ {0}
    BY LeastIsOne, ShapesAssumption, TChunksAssumption
  <2>4. writer' = [pc |-> "clear", settled |-> FALSE, data |-> payload,
                   lay |-> Layout(shape, Least(t, shape), packed), crc |-> [c \in {} |-> Zero]]
    BY <1>3 DEF StartBuild
  <2>5. IsBuild(writer)'
    BY <2>1, <2>3, <2>4 DEF IsBuild, Layout
  <2> QED
    BY <2>1, <2>2, <2>4, <2>5
<1>4. ASSUME NEW i \in Units, DropObject(i)
      PROVE  Types'
  BY <1>4 DEF DropObject, IsBuild
<1>5. CASE DropJson
  BY <1>5 DEF DropJson, IsBuild
<1>6. CASE CreateMeta
  <2>1. UNCHANGED <<shape, payload, zm, reader>> /\ IsBuild(writer)
    BY <1>6 DEF CreateMeta
  <2>2. writer' = [pc |-> "objects", settled |-> writer.settled, data |-> writer.data,
                   lay |-> writer.lay, crc |-> writer.crc]
    BY <1>6, <2>1 DEF CreateMeta, IsBuild
  <2>3. IsBuild(writer)'
    BY <2>1, <2>2 DEF IsBuild
  <2> QED
    BY <2>1, <2>2, <2>3
<1>7. ASSUME NEW i \in Units, PutObject(i)
      PROVE  Types'
  <2>1. UNCHANGED <<shape, payload, writer, reader>> /\ IsBuild(writer)
    BY <1>7 DEF PutObject
  <2>2. IsObject(ObjectOf(writer.lay, i, writer.data))
    BY <2>1, ObjectsFit DEF IsBuild
  <2>3. \A j \in DOMAIN zm' : IsObject(zm'[j])
    BY <1>7, <2>2 DEF PutObject
  <2> QED
    BY <2>1, <2>3 DEF IsBuild
<1>8. CASE PutLastObject
  <2>1. UNCHANGED <<shape, payload, zm, reader>> /\ IsBuild(writer)
    BY <1>8 DEF PutLastObject, store
  <2>2. writer' = [pc |-> "crc", settled |-> writer.settled, data |-> writer.data,
                   lay |-> writer.lay, crc |-> writer.crc]
    BY <1>8, <2>1 DEF PutLastObject, IsBuild
  <2>3. IsBuild(writer)'
    BY <2>1, <2>2 DEF IsBuild
  <2> QED
    BY <2>1, <2>2, <2>3
<1>9. ASSUME NEW c \in Units, ReadCrc(c)
      PROVE  Types'
  <2>1. UNCHANGED <<shape, payload, zm, reader>> /\ IsBuild(writer)
    BY <1>9 DEF ReadCrc, store
  <2>2. payload[c] \in Contents
    OBVIOUS
  <2> DEFINE crc == [d \in DOMAIN writer.crc \cup {c} |->
                       IF d = c THEN payload[c] ELSE writer.crc[d]]
  <2>3. writer' = [pc |-> "crc", settled |-> writer.settled, data |-> writer.data,
                   lay |-> writer.lay, crc |-> crc]
    BY <1>9, <2>1 DEF ReadCrc, IsBuild
  <2>4. DOMAIN crc \subseteq UnitsOf(shape) /\ crc \in [DOMAIN crc -> Contents]
    BY <1>9, <2>1, <2>2 DEF ReadCrc, IsBuild
  <2> HIDE DEF crc
  <2>5. IsBuild(writer)'
    BY <2>1, <2>3, <2>4 DEF IsBuild
  <2> QED
    BY <2>1, <2>3, <2>5
<1>10. CASE UpdateAttributes
  BY <1>10 DEF UpdateAttributes, Idle
<1>11. CASE Crash
  BY <1>11 DEF Crash, store, Idle
<1>12. CASE Open
  BY <1>12 DEF Open, store, IsBuild, IsReader
<1>13. ASSUME NEW by \in ByKeys, StartQuery(by)
       PROVE  Types'
  <2>1. IsReader(reader')
    BY <1>13 DEF StartQuery, Start, IsReader
  <2> QED
    BY <1>13, <2>1 DEF StartQuery, store, IsBuild
<1>14. ASSUME NEW i \in Units, ReadObject(i)
       PROVE  Types'
  <2>1. IsReader(reader')
    BY <1>14 DEF ReadObject, IsReader
  <2> QED
    BY <1>14, <2>1 DEF ReadObject, store, IsBuild
<1>15. CASE OpenMeta
  <2>1. IsReader(reader')
    BY <1>15 DEF OpenMeta, IsReader
  <2> QED
    BY <1>15, <2>1 DEF OpenMeta, store, IsBuild
<1>16. ASSUME NEW i \in Units, ReadMetaChunk(i)
       PROVE  Types'
  <2>1. IsReader(reader')
    BY <1>16 DEF ReadMetaChunk, IsReader
  <2> QED
    BY <1>16, <2>1 DEF ReadMetaChunk, store, IsBuild
<1>17. CASE FinishQuery
  <2>1. IsReader(reader')
    BY <1>17 DEF FinishQuery, IsReader
  <2> QED
    BY <1>17, <2>1 DEF FinishQuery, store, IsBuild
<1>18. CASE StartCheck
  <2>1. IsReader(reader')
    BY <1>18 DEF StartCheck, Start, IsReader
  <2> QED
    BY <1>18, <2>1 DEF StartCheck, store, IsBuild
<1>19. ASSUME NEW c \in Units, ReadChunk(c)
       PROVE  Types'
  <2>1. IsReader(reader')
    BY <1>19 DEF ReadChunk, IsReader
  <2> QED
    BY <1>19, <2>1 DEF ReadChunk, store, IsBuild
<1>20. CASE FinishCheck
  <2>1. IsReader(reader')
    BY <1>20 DEF FinishCheck, IsReader
  <2> QED
    BY <1>20, <2>1 DEF FinishCheck, store, IsBuild
<1>21. CASE UNCHANGED vars
  BY <1>21 DEF vars, IsBuild
<1> QED
  BY <1>1, <1>2, <1>3, <1>4, <1>5, <1>6, <1>7, <1>8, <1>9, <1>10, <1>11, <1>12, <1>13, <1>14,
     <1>15, <1>16, <1>17, <1>18, <1>19, <1>20, <1>21 DEF Next

-----------------------------------------------------------------------------
(* What a query relies on *)

LEMMA UnitsInFits ==
  ASSUME NEW n \in Nat, NEW t \in Nat \ {0}, NEW packed, NEW i \in Nat,
         NEW c \in UnitsIn(Layout(n, t, packed), i)
  PROVE  /\ c \in Nat /\ c < n
         /\ c - i * t \in UnitsOf(t)
         /\ i * t + (c - i * t) = c
<1> DEFINE b == i * t
<1>1. b \in Nat /\ (i + 1) * t = b + t
  OBVIOUS
<1>2. c \in b .. Least(b + t, n) - 1
  BY <1>1 DEF UnitsIn, Layout
<1> HIDE DEF b
<1>3. c \in Int /\ b <= c /\ c < b + t /\ c < n
  BY <1>1, <1>2 DEF Least
<1>4. c \in Nat /\ c < n /\ c - b \in 0 .. t - 1 /\ b + (c - b) = c
  BY <1>1, <1>3
<1> QED
  BY <1>4 DEF b, UnitsOf

(* An object of the reader's layout, and of its size if it is packed, reads *)
(* as the payload unless the zone map is stale.                            *)
LEMMA RowsRight ==
  ASSUME Types, ~ZoneMapStale, NEW t, NEW packed, NEW i \in Nat, i \in DOMAIN zm,
         Fits(zm[i], Layout(shape, t, packed)),
         packed => zm[i].units = Cardinality(UnitsIn(Layout(shape, t, packed), i)),
         NEW c \in UnitsIn(Layout(shape, t, packed), i)
  PROVE  RowsRead(zm[i], Layout(shape, t, packed), i)[c] = payload[c]
<1> DEFINE lay == Layout(shape, t, packed)
           o == zm[i]
<1>1. o.t = t /\ o.packed = packed /\ t \in Nat \ {0} /\ DOMAIN o.rows = UnitsOf(t)
  BY DEF Fits, Layout, Types, IsObject
<1>2. shape \in Nat
  BY ShapesAssumption DEF Types
<1>3. /\ c < shape /\ c - i * t \in UnitsOf(t) /\ i * t + (c - i * t) = c
  BY <1>1, <1>2, UnitsInFits
<1>4. RowsRead(o, lay, i)[c] = o.rows[c - i * t]
  BY <1>1, <1>3 DEF RowsRead, Layout
<1>5. o.rows[c - i * t] = payload[c]
  BY <1>1, <1>3 DEF ZoneMapStale
<1> QED
  BY <1>4, <1>5

(* Objects written by a build whose data are the payload's are not stale.  *)
LEMMA PutNotStale ==
  ASSUME Types, Building, NEW i, NEW k \in UnitsOf(writer.lay.t),
         i * writer.lay.t + k < shape, i \in Nat,
         \A c \in UnitsOf(shape) : writer.data[c] = payload[c]
  PROVE  ObjectOf(writer.lay, i, writer.data).rows[k] = payload[i * writer.lay.t + k]
<1> DEFINE t == writer.lay.t
           b == i * t
<1>1. t \in Nat \ {0} /\ writer.lay.shape = shape /\ shape \in Nat
  BY ShapesAssumption DEF Types, IsBuild, Layout
<1>2. b \in Nat /\ (i + 1) * t = b + t /\ k \in Nat /\ k < t /\ b + k < shape
  BY <1>1 DEF UnitsOf
<1> HIDE DEF b
<1>3. b + k \in b .. Least(b + t, shape) - 1 /\ b + k \in 0 .. shape - 1
  BY <1>1, <1>2 DEF Least
<1>4. b + k \in UnitsIn(writer.lay, i) /\ b + k \in UnitsOf(shape)
  BY <1>1, <1>2, <1>3 DEF UnitsIn, UnitsOf, b
<1>5. ObjectOf(writer.lay, i, writer.data).rows[k] = writer.data[b + k]
  BY <1>4 DEF ObjectOf, b
<1> QED
  BY <1>4, <1>5 DEF b

(* Only a write to the array makes the zone map stale, and it marks the    *)
(* reader's call.                                                          *)
LEMMA StoreStep ==
  ASSUME Types, [Next]_vars
  PROVE  \/ reader'.tainted
         \/ UNCHANGED <<shape, payload>> /\ (~ZoneMapStale => ~ZoneMapStale')
<1>1. ASSUME NEW c \in Units, NEW v \in Versions, WriteChunk(c, v)
      PROVE  reader'.tainted
  BY <1>1 DEF WriteChunk, Types, IsReader
<1>2. ASSUME NEW n \in Shapes, Resize(n)
      PROVE  reader'.tainted
  BY <1>2 DEF Resize, Types, IsReader
<1> DEFINE Kept == UNCHANGED <<shape, payload>> /\ (~ZoneMapStale => ~ZoneMapStale')
<1>3. ASSUME NEW t \in TChunks, NEW packed \in Packings, StartBuild(t, packed)
      PROVE  Kept
  BY <1>3 DEF StartBuild, store, ZoneMapStale, PackedForOther
<1>4. ASSUME NEW i \in Units, DropObject(i)
      PROVE  Kept
  BY <1>4 DEF DropObject, ZoneMapStale, PackedForOther, Building
<1>5. CASE DropJson
  BY <1>5 DEF DropJson, ZoneMapStale, PackedForOther, Building
<1>6. CASE CreateMeta
  <2>1. UNCHANGED <<shape, payload, zm>> /\ Building /\ writer'.data = writer.data
    BY <1>6 DEF CreateMeta, Types, Building, IsBuild
  <2> QED
    BY <2>1 DEF ZoneMapStale, PackedForOther
<1>7. ASSUME NEW i \in Units, PutObject(i)
      PROVE  Kept
  <2>1. UNCHANGED <<shape, payload, writer>> /\ Building /\ i \in Nat
    BY <1>7 DEF PutObject, Building, Units
  <2>2. SUFFICES ASSUME ~ZoneMapStale PROVE ~ZoneMapStale'
    BY <2>1
  <2>3. \A c \in UnitsOf(shape) : writer.data[c] = payload[c]
    BY <2>1, <2>2 DEF ZoneMapStale
  <2> DEFINE o == ObjectOf(writer.lay, i, writer.data)
  <2>4. o.t = writer.lay.t
    BY DEF ObjectOf
  <2>5. \A k \in UnitsOf(o.t) : i * o.t + k < shape => o.rows[k] = payload[i * o.t + k]
    BY <2>1, <2>3, <2>4, PutNotStale
  <2>6. \A j \in DOMAIN zm' : zm'[j] = IF j = i THEN o ELSE zm[j]
    BY <1>7 DEF PutObject
  <2>7. \A j \in DOMAIN zm' : j = i \/ j \in DOMAIN zm
    BY <1>7 DEF PutObject
  <2>9. ~PackedForOther(o, i)
    <3>1. writer.lay = Layout(shape, writer.lay.t, writer.lay.packed)
      BY <2>1 DEF Types, IsBuild
    <3>2. UnitsIn(writer.lay, i) = UnitsIn(Layout(shape, writer.lay.t, TRUE), i)
      BY <3>1 DEF UnitsIn, Layout
    <3> QED
      BY <2>4, <3>2 DEF PackedForOther, ObjectOf
  <2> HIDE DEF o
  <2>10. \A j \in DOMAIN zm' : ~PackedForOther(zm'[j], j)
    BY <2>2, <2>6, <2>7, <2>9 DEF ZoneMapStale
  <2>11. \A j \in DOMAIN zm' : ~PackedForOther(zm[j], j)'
    BY <2>1, <2>10 DEF PackedForOther
  <2>8. \A j \in DOMAIN zm' : \A k \in UnitsOf(zm'[j].t) :
          j * zm'[j].t + k < shape => zm'[j].rows[k] = payload[j * zm'[j].t + k]
    BY <2>2, <2>5, <2>6, <2>7 DEF ZoneMapStale
  <2> QED
    BY <2>1, <2>3, <2>8, <2>11 DEF ZoneMapStale
<1>8. CASE PutLastObject
  <2>1. UNCHANGED <<shape, payload, zm>> /\ Building /\ writer'.data = writer.data
    BY <1>8 DEF PutLastObject, store, Types, Building, IsBuild
  <2> QED
    BY <2>1 DEF ZoneMapStale, PackedForOther
<1>9. ASSUME NEW c \in Units, ReadCrc(c)
      PROVE  Kept
  <2>1. UNCHANGED <<shape, payload, zm>> /\ Building /\ writer'.data = writer.data
    BY <1>9 DEF ReadCrc, store, Types, Building, IsBuild
  <2> QED
    BY <2>1 DEF ZoneMapStale, PackedForOther
<1>10. CASE UpdateAttributes
  BY <1>10 DEF UpdateAttributes, Idle, ZoneMapStale, PackedForOther, Building
<1>11. CASE Crash
  BY <1>11 DEF Crash, store, Idle, ZoneMapStale, PackedForOther, Building
<1>12. ASSUME UNCHANGED <<store, writer>>
       PROVE  Kept
  BY <1>12 DEF store, ZoneMapStale, PackedForOther, Building
<1>13. ASSUME NEW by \in ByKeys, StartQuery(by)
       PROVE  Kept
  BY <1>12, <1>13 DEF StartQuery
<1>14. ASSUME NEW i \in Units, ReadObject(i)
       PROVE  Kept
  BY <1>12, <1>14 DEF ReadObject
<1>15. ASSUME NEW i \in Units, ReadMetaChunk(i)
       PROVE  Kept
  BY <1>12, <1>15 DEF ReadMetaChunk
<1>16. ASSUME NEW c \in Units, ReadChunk(c)
       PROVE  Kept
  BY <1>12, <1>16 DEF ReadChunk
<1>17. ASSUME Open \/ OpenMeta \/ FinishQuery \/ StartCheck \/ FinishCheck
       PROVE  Kept
  BY <1>12, <1>17 DEF Open, OpenMeta, FinishQuery, StartCheck, FinishCheck
<1>18. CASE UNCHANGED vars
  BY <1>12, <1>18 DEF vars, store
<1> QED
  BY <1>1, <1>2, <1>3, <1>4, <1>5, <1>6, <1>7, <1>8, <1>9, <1>10, <1>11, <1>13, <1>14, <1>15,
     <1>16, <1>17, <1>18 DEF Next

-----------------------------------------------------------------------------
(* Queries through the objects' keys *)

Reliable == reader.shape = shape /\ ~ZoneMapStale /\ AllRight

KeyQueriesReliable ==
  reader.pc \in {"query", "answered"} /\ reader.by /\ ~reader.tainted => Reliable

(* What is read of an object that fits adds right records only. *)
LEMMA SawRight ==
  ASSUME NEW rows, AllRight, \A c \in DOMAIN rows : rows[c] = payload[c]
  PROVE  \A c \in DOMAIN Saw(rows) : Saw(rows)[c] = payload[c]
BY DEF Saw, AllRight

LEMMA KeyQueriesStep ==
  ASSUME Types, KeyQueriesReliable, [Next]_vars
  PROVE  KeyQueriesReliable'
<1> SUFFICES ASSUME reader'.pc \in {"query", "answered"}, reader'.by, ~reader'.tainted
             PROVE  Reliable'
  BY DEF KeyQueriesReliable
<1>1. UNCHANGED <<shape, payload>> /\ (~ZoneMapStale => ~ZoneMapStale')
  BY StoreStep
<1>2. ASSUME UNCHANGED <<reader>>
      PROVE  Reliable'
  BY <1>1, <1>2 DEF KeyQueriesReliable, Reliable, AllRight
<1>3. ASSUME NEW t \in TChunks, NEW packed \in Packings, StartBuild(t, packed)
      PROVE  Reliable'
  <2>1. /\ reader'.pc = reader.pc /\ reader'.by = reader.by /\ reader'.shape = reader.shape
        /\ reader'.seen = reader.seen /\ reader'.tainted = reader.tainted
    BY <1>3 DEF StartBuild, Types, IsReader
  <2> QED
    BY <1>1, <2>1 DEF KeyQueriesReliable, Reliable, AllRight
<1>4. ASSUME NEW by \in ByKeys, StartQuery(by)
      PROVE  Reliable'
  <2>1. /\ reader'.shape = reader.shape /\ DOMAIN reader'.seen = {}
        /\ reader'.tainted = (ZoneMapStale \/ reader.shape # shape)
    BY <1>4 DEF StartQuery, Start, Types, IsReader
  <2> QED
    BY <1>1, <2>1 DEF Reliable, AllRight
<1>5. ASSUME NEW i \in Units, ReadObject(i)
      PROVE  Reliable'
  <2> DEFINE lay == HandleLayout
             rows == RowsRead(zm[i], lay, i)
  <2>1. /\ reader'.by = reader.by /\ reader'.tainted = reader.tainted
        /\ reader'.shape = reader.shape /\ i \in Nat
    BY <1>5 DEF ReadObject, Types, IsReader, Units
  <2>2. Reliable
    BY <1>5, <2>1 DEF ReadObject, KeyQueriesReliable
  <2>3. i \in DOMAIN zm /\ Fits(zm[i], lay) /\ reader'.seen = Saw(rows)
    BY <1>5 DEF ReadObject, Types, IsReader
  <2>4. lay = Layout(shape, reader.attrs.t, reader.attrs.packed)
    BY <2>2 DEF HandleLayout, Reliable
  <2>5. zm[i].t = reader.attrs.t /\ zm[i].packed = reader.attrs.packed
    BY <2>3, <2>4 DEF Fits, Layout
  <2>6. reader.attrs.packed => zm[i].units = Cardinality(UnitsIn(lay, i))
    <3>1. ~PackedForOther(zm[i], i)
      BY <2>2, <2>3 DEF Reliable, ZoneMapStale
    <3>2. UnitsIn(lay, i) = UnitsIn(Layout(shape, zm[i].t, TRUE), i)
      BY <2>4, <2>5 DEF UnitsIn, Layout
    <3> QED
      BY <2>5, <3>1, <3>2 DEF PackedForOther
  <2>7. \A c \in UnitsIn(lay, i) : rows[c] = payload[c]
    BY <2>1, <2>2, <2>3, <2>4, <2>6, RowsRight DEF Reliable
  <2>8. DOMAIN rows = UnitsIn(lay, i)
    BY DEF RowsRead
  <2> HIDE DEF rows, lay
  <2>9. \A c \in DOMAIN reader'.seen : reader'.seen[c] = payload[c]
    BY <2>2, <2>3, <2>7, <2>8, SawRight DEF Reliable
  <2> QED
    BY <1>1, <2>1, <2>2, <2>9 DEF Reliable, AllRight
<1>6. ASSUME NEW i \in Units, ReadMetaChunk(i)
      PROVE  Reliable'
  BY <1>6 DEF ReadMetaChunk, Types, IsReader
<1>7. CASE OpenMeta
  BY <1>7 DEF OpenMeta, Types, IsReader
<1>8. CASE FinishQuery
  <2>1. /\ reader.pc = "query" /\ reader'.by = reader.by /\ reader'.shape = reader.shape
        /\ reader'.seen = reader.seen /\ reader'.tainted = reader.tainted
    BY <1>8 DEF FinishQuery, Types, IsReader
  <2> QED
    BY <1>1, <2>1 DEF KeyQueriesReliable, Reliable, AllRight
<1>9. CASE StartCheck
  BY <1>9 DEF StartCheck, Start, Types, IsReader
<1>10. ASSUME NEW c \in Units, ReadChunk(c)
       PROVE  Reliable'
  BY <1>10 DEF ReadChunk, Types, IsReader
<1>11. CASE FinishCheck
  BY <1>11 DEF FinishCheck, Types, IsReader
<1>12. CASE Open
  BY <1>12 DEF Open
<1>13. ASSUME NEW c \in Units, NEW v \in Versions, WriteChunk(c, v)
       PROVE  Reliable'
  BY <1>13 DEF WriteChunk, Types, IsReader
<1>14. ASSUME NEW n \in Shapes, Resize(n)
       PROVE  Reliable'
  BY <1>14 DEF Resize, Types, IsReader
<1>15. ASSUME NEW i \in Units, DropObject(i) \/ PutObject(i)
       PROVE  Reliable'
  BY <1>2, <1>15 DEF DropObject, PutObject
<1>16. ASSUME NEW c \in Units, ReadCrc(c)
       PROVE  Reliable'
  BY <1>2, <1>16 DEF ReadCrc
<1>17. ASSUME DropJson \/ CreateMeta \/ PutLastObject \/ UpdateAttributes \/ Crash
       PROVE  Reliable'
  BY <1>2, <1>17 DEF DropJson, CreateMeta, PutLastObject, UpdateAttributes, Crash
<1>18. CASE UNCHANGED vars
  BY <1>2, <1>18 DEF vars
<1> QED
  BY <1>3, <1>4, <1>5, <1>6, <1>7, <1>8, <1>9, <1>10, <1>11, <1>12, <1>13, <1>14, <1>15, <1>16,
     <1>17, <1>18 DEF Next

(* A query through the objects' keys on a payload that is not rewritten is *)
(* answered from the right records or raises (RightOrRaises), through any  *)
(* number of builds, crashes, resizes and old handles, unless an object is *)
(* in the store that was packed for another length of the array.           *)
THEOREM QueriesAreRightOrRaise == Spec => []RightOrRaises
<1>1. Init => Types /\ KeyQueriesReliable
  <2>1. Init => KeyQueriesReliable
    BY DEF Init, KeyQueriesReliable
  <2> QED
    BY <2>1, TypesInit
<1>2. Types /\ KeyQueriesReliable /\ [Next]_vars => Types' /\ KeyQueriesReliable'
  BY TypesStep, KeyQueriesStep
<1>3. KeyQueriesReliable => RightOrRaises
  BY DEF KeyQueriesReliable, Reliable, RightOrRaises
<1> QED
  BY <1>1, <1>2, <1>3, PTL DEF Spec

-----------------------------------------------------------------------------
(* What write_meta leaves *)

(* The zone map's zarr.json and all of its objects are of one layout. *)
Complete(lay) ==
  /\ json = lay /\ lay # None
  /\ DOMAIN zm = ObjectIds(lay)
  /\ \A i \in DOMAIN zm : Fits(zm[i], lay) /\ zm[i].units = Cardinality(UnitsIn(lay, i))

BuildsComplete ==
  /\ writer.pc \in {"objects", "crc"} =>
       /\ json = writer.lay
       /\ \A i \in DOMAIN zm :
            i \in ObjectIds(writer.lay) /\ zm[i] = ObjectOf(writer.lay, i, writer.data)
  /\ writer.pc = "crc" => DOMAIN zm = ObjectIds(writer.lay)
  /\ writer.settled =>
       ~Building /\ attrs # None /\ Complete(Layout(attrs.source, attrs.t, attrs.packed))

LEMMA BuildsStep ==
  ASSUME Types, BuildsComplete, [Next]_vars
  PROVE  BuildsComplete'
<1> USE DEF BuildsComplete, Building
<1>1. ASSUME UNCHANGED <<attrs, json, zm, writer>>
      PROVE  BuildsComplete'
  BY <1>1 DEF Complete
<1>2. ASSUME NEW t \in TChunks, NEW packed \in Packings, StartBuild(t, packed)
      PROVE  BuildsComplete'
  <2>1. writer'.pc = "clear" /\ writer'.settled = FALSE
    BY <1>2 DEF StartBuild
  <2> QED
    BY <2>1
<1>3. ASSUME NEW i \in Units, DropObject(i)
      PROVE  BuildsComplete'
  BY <1>3 DEF DropObject, Types, IsBuild
<1>4. CASE DropJson
  BY <1>4 DEF DropJson, Types, IsBuild
<1>5. CASE CreateMeta
  <2>1. /\ writer'.pc = "objects" /\ writer'.lay = writer.lay /\ writer'.settled = FALSE
        /\ json' = writer.lay /\ DOMAIN zm' = {}
    BY <1>5 DEF CreateMeta, Types, IsBuild
  <2> QED
    BY <2>1
<1>6. ASSUME NEW i \in Units, PutObject(i)
      PROVE  BuildsComplete'
  <2>1. writer' = writer /\ writer.pc = "objects" /\ writer.settled = FALSE /\ json' = json
    BY <1>6 DEF PutObject, Types, IsBuild
  <2>2. \A j \in DOMAIN zm' :
          j \in ObjectIds(writer.lay) /\ zm'[j] = ObjectOf(writer.lay, j, writer.data)
    BY <1>6, <2>1 DEF PutObject
  <2> QED
    BY <2>1, <2>2
<1>7. CASE PutLastObject
  <2>1. /\ writer'.pc = "crc" /\ writer'.lay = writer.lay /\ writer'.data = writer.data
        /\ writer'.settled = FALSE
    BY <1>7 DEF PutLastObject, Types, IsBuild
  <2> QED
    BY <1>7, <2>1 DEF PutLastObject, store
<1>8. ASSUME NEW c \in Units, ReadCrc(c)
      PROVE  BuildsComplete'
  <2>1. /\ writer'.pc = "crc" /\ writer'.lay = writer.lay /\ writer'.data = writer.data
        /\ writer'.settled = FALSE /\ writer.pc = "crc" /\ UNCHANGED <<json, zm>>
    BY <1>8 DEF ReadCrc, store, Types, IsBuild
  <2> QED
    BY <2>1
<1>9. CASE UpdateAttributes
  <2> DEFINE w == writer
             lay == w.lay
  <2>1. /\ w.pc = "crc" /\ IsBuild(w) /\ DOMAIN w.crc = UnitsOf(shape)
        /\ attrs' = NewAttrs(lay, w.crc) /\ writer'.pc = "idle"
        /\ UNCHANGED <<shape, json, zm>>
    BY <1>9 DEF UpdateAttributes, Types, Idle
  <2>2. /\ lay = Layout(shape, lay.t, lay.packed) /\ lay.shape = shape
        /\ lay.t \in Nat /\ lay.packed \in BOOLEAN /\ shape \in Nat /\ shape \in Shapes
    BY <2>1, OptionsAssumption, ShapesAssumption DEF IsBuild, Layout, Types
  <2>3. lay # None
    BY <2>2, NoneAssumption DEF Layout
  <2>4. w.crc \in [UnitsOf(shape) -> Versions \cup {Zero}]
    BY <2>1 DEF IsBuild, Contents
  <2>5. attrs' \in [t : Nat, packed : BOOLEAN, source : Nat,
                    crc : UNION {[UnitsOf(n) -> Versions \cup {Zero}] : n \in Shapes}]
    BY <2>1, <2>2, <2>4 DEF NewAttrs
  <2>6. attrs' # None
    BY <2>5, NoneAssumption
  <2>7. Layout(attrs'.source, attrs'.t, attrs'.packed) = lay
    BY <2>1, <2>2 DEF NewAttrs
  <2>8. \A i \in DOMAIN zm : Fits(zm[i], lay) /\ zm[i].units = Cardinality(UnitsIn(lay, i))
    BY <2>1 DEF Fits, ObjectOf
  <2>9. json = lay /\ DOMAIN zm = ObjectIds(lay)
    BY <2>1
  <2> HIDE DEF lay
  <2>10. Complete(Layout(attrs.source, attrs.t, attrs.packed))'
    BY <2>1, <2>3, <2>7, <2>8, <2>9 DEF Complete
  <2> QED
    BY <2>1, <2>6, <2>10
<1>10. CASE Crash
  <2>1. writer'.pc = "idle" /\ writer'.settled = FALSE
    BY <1>10 DEF Crash, Idle
  <2> QED
    BY <2>1
<1>11. ASSUME NEW c \in Units, NEW v \in Versions, WriteChunk(c, v)
       PROVE  BuildsComplete'
  BY <1>1, <1>11 DEF WriteChunk
<1>12. ASSUME NEW n \in Shapes, Resize(n)
       PROVE  BuildsComplete'
  BY <1>1, <1>12 DEF Resize
<1>13. ASSUME NEW by \in ByKeys, StartQuery(by)
       PROVE  BuildsComplete'
  BY <1>1, <1>13 DEF StartQuery, store
<1>14. ASSUME NEW i \in Units, ReadObject(i) \/ ReadMetaChunk(i) \/ ReadChunk(i)
       PROVE  BuildsComplete'
  BY <1>1, <1>14 DEF ReadObject, ReadMetaChunk, ReadChunk, store
<1>15. ASSUME Open \/ OpenMeta \/ FinishQuery \/ StartCheck \/ FinishCheck
       PROVE  BuildsComplete'
  BY <1>1, <1>15 DEF Open, OpenMeta, FinishQuery, StartCheck, FinishCheck, store
<1>16. CASE UNCHANGED vars
  BY <1>1, <1>16 DEF vars
<1> QED
  BY <1>2, <1>3, <1>4, <1>5, <1>6, <1>7, <1>8, <1>9, <1>10, <1>11, <1>12, <1>13, <1>14, <1>15,
     <1>16 DEF Next

-----------------------------------------------------------------------------
(* Calls that no build disturbs *)

CallsFollow ==
  /\ reader.pc \in {"query", "answered", "check", "listed"} => SourceMatches
  /\ Undisturbed => writer.settled /\ reader.attrs = attrs /\ reader.shape = shape
  /\ Undisturbed /\ reader.pc = "raised" => reader.shape # reader.attrs.source
  /\ Undisturbed /\ reader.pc = "query" /\ reader.json # None => reader.json = json
  /\ Undisturbed /\ reader.pc \in {"query", "answered"} /\ ~reader.tainted => Reliable

(* What an undisturbed call has found. *)
LEMMA FoundComplete ==
  ASSUME BuildsComplete, CallsFollow, Undisturbed,
         reader.pc = "query"
  PROVE  /\ HandleLayout = Layout(reader.shape, attrs.t, attrs.packed)
         /\ Complete(HandleLayout)
         /\ reader.shape = shape
BY DEF BuildsComplete, CallsFollow, SourceMatches, HandleLayout

(* A step during which a call stays undisturbed is one of the reader's.    *)
LEMMA UndisturbedStep ==
  ASSUME Types, BuildsComplete, CallsFollow, [Next]_vars, Undisturbed',
         ~(\E by \in ByKeys : StartQuery(by)), ~StartCheck
  PROVE  /\ UNCHANGED <<store, writer>> /\ Undisturbed
         /\ reader'.attrs = reader.attrs /\ reader'.shape = reader.shape
         /\ reader'.by = reader.by /\ reader'.tainted = reader.tainted
<1> DEFINE Goal == /\ UNCHANGED <<store, writer>> /\ Undisturbed
                   /\ reader'.attrs = reader.attrs /\ reader'.shape = reader.shape
                   /\ reader'.by = reader.by /\ reader'.tainted = reader.tainted
<1> USE DEF Undisturbed
<1>1. ASSUME NEW c \in Units, NEW v \in Versions, WriteChunk(c, v)
      PROVE  Goal
  BY <1>1 DEF WriteChunk, Types, IsReader
<1>2. ASSUME NEW n \in Shapes, Resize(n)
      PROVE  Goal
  BY <1>2 DEF Resize, Types, IsReader
<1>3. ASSUME NEW t \in TChunks, NEW packed \in Packings, StartBuild(t, packed)
      PROVE  Goal
  BY <1>3 DEF StartBuild, Types, IsReader
<1>4. CASE Open
  BY <1>4 DEF Open
<1>5. ASSUME Building, reader' = reader
      PROVE  Goal
  BY <1>5 DEF CallsFollow, BuildsComplete
<1>6. ASSUME NEW i \in Units, DropObject(i) \/ PutObject(i)
      PROVE  Goal
  BY <1>5, <1>6 DEF DropObject, PutObject, Building
<1>7. ASSUME NEW c \in Units, ReadCrc(c)
      PROVE  Goal
  BY <1>5, <1>7 DEF ReadCrc, Building
<1>8. ASSUME DropJson \/ CreateMeta \/ PutLastObject \/ UpdateAttributes \/ Crash
      PROVE  Goal
  BY <1>5, <1>8 DEF DropJson, CreateMeta, PutLastObject, UpdateAttributes, Crash, Building
<1>9. ASSUME NEW i \in Units, ReadObject(i)
      PROVE  Goal
  BY <1>9 DEF ReadObject, Types, IsReader
<1>10. ASSUME NEW i \in Units, ReadMetaChunk(i)
       PROVE  Goal
  BY <1>10 DEF ReadMetaChunk, Types, IsReader
<1>11. ASSUME NEW c \in Units, ReadChunk(c)
       PROVE  Goal
  BY <1>11 DEF ReadChunk, Types, IsReader
<1>12. CASE OpenMeta
  BY <1>12 DEF OpenMeta, Types, IsReader
<1>13. CASE FinishQuery
  BY <1>13 DEF FinishQuery, Types, IsReader
<1>14. CASE FinishCheck
  BY <1>14 DEF FinishCheck, Types, IsReader
<1>15. CASE UNCHANGED vars
  BY <1>15 DEF vars, store
<1> QED
  BY <1>1, <1>2, <1>3, <1>4, <1>6, <1>7, <1>8, <1>9, <1>10, <1>11, <1>12, <1>13, <1>14, <1>15
  DEF Next

(* A call runs past its first step only if the array has the shape its     *)
(* zone map was built for.                                                 *)
LEMMA SourceMatchesStep ==
  ASSUME Types, CallsFollow, [Next]_vars,
         reader'.pc \in {"query", "answered", "check", "listed"}
  PROVE  SourceMatches'
<1> USE DEF SourceMatches, CallsFollow, Types, IsReader
<1>1. ASSUME NEW c \in Units, NEW v \in Versions, WriteChunk(c, v)
      PROVE  SourceMatches'
  BY <1>1 DEF WriteChunk
<1>2. ASSUME NEW n \in Shapes, Resize(n)
      PROVE  SourceMatches'
  BY <1>2 DEF Resize
<1>3. ASSUME NEW t \in TChunks, NEW packed \in Packings, StartBuild(t, packed)
      PROVE  SourceMatches'
  BY <1>3 DEF StartBuild
<1>4. CASE Open
  BY <1>4 DEF Open
<1>5. ASSUME NEW by \in ByKeys, StartQuery(by)
      PROVE  SourceMatches'
  BY <1>5 DEF StartQuery, Start
<1>6. ASSUME NEW i \in Units, DropObject(i) \/ PutObject(i)
      PROVE  SourceMatches'
  BY <1>6 DEF DropObject, PutObject
<1>7. ASSUME NEW c \in Units, ReadCrc(c)
      PROVE  SourceMatches'
  BY <1>7 DEF ReadCrc
<1>8. ASSUME DropJson \/ CreateMeta \/ PutLastObject \/ UpdateAttributes \/ Crash
      PROVE  SourceMatches'
  BY <1>8 DEF DropJson, CreateMeta, PutLastObject, UpdateAttributes, Crash
<1>9. ASSUME NEW i \in Units, ReadObject(i)
      PROVE  SourceMatches'
  BY <1>9 DEF ReadObject
<1>10. ASSUME NEW i \in Units, ReadMetaChunk(i)
       PROVE  SourceMatches'
  BY <1>10 DEF ReadMetaChunk
<1>11. ASSUME NEW c \in Units, ReadChunk(c)
       PROVE  SourceMatches'
  BY <1>11 DEF ReadChunk
<1>12. CASE OpenMeta
  BY <1>12 DEF OpenMeta
<1>13. CASE FinishQuery
  BY <1>13 DEF FinishQuery
<1>14. CASE FinishCheck
  BY <1>14 DEF FinishCheck
<1>15. CASE StartCheck
  BY <1>15 DEF StartCheck, Start
<1>16. CASE UNCHANGED vars
  BY <1>16 DEF vars
<1> QED
  BY <1>1, <1>2, <1>3, <1>4, <1>5, <1>6, <1>7, <1>8, <1>9, <1>10, <1>11, <1>12, <1>13, <1>14,
     <1>15, <1>16 DEF Next

(* Under an undisturbed call, objects and the zone map's zarr.json fit.    *)
LEMMA FoundRight ==
  ASSUME Types, BuildsComplete, CallsFollow, Undisturbed, reader.pc = "query",
         ~reader.tainted, NEW i \in Nat, i \in ObjectIds(HandleLayout)
  PROVE  /\ DOMAIN RowsRead(zm[i], HandleLayout, i) = UnitsIn(HandleLayout, i)
         /\ \A c \in UnitsIn(HandleLayout, i) :
              RowsRead(zm[i], HandleLayout, i)[c] = payload[c]
<1>1. HandleLayout = Layout(shape, attrs.t, attrs.packed) /\ Complete(HandleLayout)
  BY FoundComplete
<1>2. Reliable
  BY DEF CallsFollow
<1>3. /\ i \in DOMAIN zm /\ Fits(zm[i], HandleLayout)
      /\ zm[i].units = Cardinality(UnitsIn(HandleLayout, i))
  BY <1>1 DEF Complete
<1>4. \A c \in UnitsIn(HandleLayout, i) : RowsRead(zm[i], HandleLayout, i)[c] = payload[c]
  BY <1>1, <1>2, <1>3, RowsRight DEF Reliable
<1> QED
  BY <1>4 DEF RowsRead

LEMMA CallsStep ==
  ASSUME Types, BuildsComplete, CallsFollow, [Next]_vars
  PROVE  CallsFollow'
<1> DEFINE Goal == /\ writer.settled /\ reader.attrs = attrs /\ reader.shape = shape
                   /\ reader.pc = "raised" => reader.shape # reader.attrs.source
                   /\ reader.pc = "query" /\ reader.json # None => reader.json = json
                   /\ reader.pc \in {"query", "answered"} /\ ~reader.tainted => Reliable
<1> SUFFICES ASSUME Undisturbed' PROVE Goal'
  BY SourceMatchesStep DEF CallsFollow
<1>1. ASSUME StartCheck \/ \E by \in ByKeys : StartQuery(by)
      PROVE  Goal'
  <2>1. /\ UNCHANGED <<store, writer>> /\ reader'.json = None
        /\ reader'.attrs = reader.attrs /\ reader'.shape = reader.shape
        /\ DOMAIN reader'.seen = {} /\ reader'.settled = writer.settled
        /\ reader'.tainted = (ZoneMapStale \/ reader.shape # shape)
        /\ reader'.quiet = (~Building /\ reader.attrs = attrs /\ reader.shape = shape)
        /\ reader'.pc = "raised" => ~SourceMatches
    BY <1>1 DEF StartQuery, StartCheck, Start, Types, IsReader
  <2>2. writer.settled /\ reader.attrs = attrs /\ reader.shape = shape
    BY <2>1 DEF Undisturbed
  <2>3. reader'.pc = "raised" => reader.shape # reader.attrs.source
    BY <2>1, <2>2 DEF BuildsComplete, SourceMatches
  <2>4. ~ZoneMapStale => ~ZoneMapStale'
    BY <2>1 DEF ZoneMapStale, PackedForOther, store, Building
  <2>5. ~reader'.tainted => Reliable'
    BY <2>1, <2>4 DEF Reliable, AllRight, store
  <2> QED
    BY <2>1, <2>2, <2>3, <2>5 DEF store
<1>2. ASSUME ~StartCheck, ~(\E by \in ByKeys : StartQuery(by))
      PROVE  Goal'
  <2>1. /\ UNCHANGED <<store, writer>> /\ Undisturbed
        /\ reader'.attrs = reader.attrs /\ reader'.shape = reader.shape
        /\ reader'.by = reader.by /\ reader'.tainted = reader.tainted
    BY <1>2, UndisturbedStep
  <2>2. writer.settled /\ reader.attrs = attrs /\ reader.shape = shape
    BY <2>1 DEF CallsFollow
  <2>3. ~ZoneMapStale => ~ZoneMapStale'
    BY <2>1 DEF ZoneMapStale, PackedForOther, store, Building
  <2> DEFINE Rest == /\ reader.pc = "raised" => reader.shape # reader.attrs.source
                     /\ reader.pc = "query" /\ reader.json # None => reader.json = json
                     /\ reader.pc \in {"query", "answered"} /\ ~reader.tainted
                          => ~ZoneMapStale /\ AllRight
  <2>4. SUFFICES Rest'
    BY <2>1, <2>2 DEF Reliable, store
  <2>5. ASSUME reader' = reader
        PROVE  Rest'
    BY <2>1, <2>3, <2>5 DEF CallsFollow, Reliable, AllRight, store
  <2>6. ASSUME NEW i \in Units, ReadObject(i)
        PROVE  Rest'
    <3> DEFINE rows == RowsRead(zm[i], HandleLayout, i)
    <3>1. reader.pc = "query" /\ i \in ObjectIds(HandleLayout) /\ i \in Nat
      BY <2>6 DEF ReadObject, Units
    <3>2. i \in DOMAIN zm /\ Fits(zm[i], HandleLayout)
      BY <2>1, <3>1, FoundComplete DEF Complete
    <3>3. reader'.pc = "query" /\ reader'.json = reader.json /\ reader'.seen = Saw(rows)
      BY <2>6, <3>2 DEF ReadObject, Types, IsReader
    <3>4. ~reader.tainted => \A c \in DOMAIN rows : rows[c] = payload[c]
      BY <2>1, <3>1, FoundRight
    <3> HIDE DEF rows
    <3>5. ~reader.tainted => \A c \in DOMAIN reader'.seen : reader'.seen[c] = payload[c]
      BY <2>1, <3>1, <3>3, <3>4, SawRight DEF CallsFollow, Reliable
    <3> QED
      BY <2>1, <2>3, <3>1, <3>3, <3>5 DEF CallsFollow, Reliable, AllRight, store
  <2>7. CASE OpenMeta
    <3>1. reader.pc = "query" /\ reader.json = None
      BY <2>7 DEF OpenMeta
    <3>2. json = HandleLayout /\ json # None /\ json.shape = reader.shape
      BY <2>1, <3>1, FoundComplete DEF Complete, Layout
    <3>3. reader'.pc = "query" /\ reader'.json = json /\ reader'.seen = reader.seen
      BY <2>7, <3>1, <3>2 DEF OpenMeta, Types, IsReader
    <3> QED
      BY <2>1, <2>3, <3>1, <3>3 DEF CallsFollow, Reliable, AllRight, store
  <2>8. ASSUME NEW i \in Units, ReadMetaChunk(i)
        PROVE  Rest'
    <3> DEFINE rows == RowsRead(zm[i], HandleLayout, i)
    <3>1. /\ reader.pc = "query" /\ reader.json # None /\ i \in ObjectIds(reader.json)
          /\ i \in Nat
      BY <2>8 DEF ReadMetaChunk, Units
    <3>2. reader.json = json /\ json = HandleLayout
      BY <2>1, <3>1, FoundComplete DEF CallsFollow, Complete
    <3>3. i \in DOMAIN zm /\ Fits(zm[i], reader.json)
      BY <2>1, <3>1, <3>2, FoundComplete DEF Complete
    <3>4. reader.attrs.packed = reader.json.packed
      BY <3>2 DEF HandleLayout, Layout
    <3>5. reader'.pc = "query" /\ reader'.json = reader.json /\ reader'.seen = Saw(rows)
      BY <2>8, <3>1, <3>2, <3>3, <3>4 DEF ReadMetaChunk, Types, IsReader
    <3>6. ~reader.tainted => \A c \in DOMAIN rows : rows[c] = payload[c]
      BY <2>1, <3>1, <3>2, FoundRight
    <3> HIDE DEF rows
    <3>7. ~reader.tainted => \A c \in DOMAIN reader'.seen : reader'.seen[c] = payload[c]
      BY <2>1, <3>1, <3>5, <3>6, SawRight DEF CallsFollow, Reliable
    <3> QED
      BY <2>1, <2>3, <3>1, <3>2, <3>5, <3>7 DEF CallsFollow, Reliable, AllRight, store
  <2>9. CASE FinishQuery
    <3>1. reader.pc = "query" /\ reader'.pc = "answered" /\ reader'.seen = reader.seen
      BY <2>9 DEF FinishQuery, Types, IsReader
    <3> QED
      BY <2>1, <2>3, <3>1 DEF CallsFollow, Reliable, AllRight, store
  <2>10. ASSUME NEW c \in Units, ReadChunk(c)
         PROVE  Rest'
    BY <2>10 DEF ReadChunk, Types, IsReader
  <2>11. CASE FinishCheck
    BY <2>11 DEF FinishCheck, Types, IsReader
  <2>12. ASSUME Open
         PROVE  Rest'
    BY <2>12 DEF Open
  <2>13. ASSUME NEW c \in Units, NEW v \in Versions, WriteChunk(c, v)
         PROVE  Rest'
    BY <2>13 DEF WriteChunk, Undisturbed, Types, IsReader
  <2>14. ASSUME NEW n \in Shapes, Resize(n)
         PROVE  Rest'
    BY <2>14 DEF Resize, Undisturbed, Types, IsReader
  <2>15. ASSUME NEW t \in TChunks, NEW packed \in Packings, StartBuild(t, packed)
         PROVE  Rest'
    BY <2>15 DEF StartBuild, Undisturbed, Types, IsReader
  <2>16. ASSUME NEW i \in Units, DropObject(i) \/ PutObject(i)
         PROVE  Rest'
    BY <2>5, <2>16 DEF DropObject, PutObject
  <2>17. ASSUME NEW c \in Units, ReadCrc(c)
         PROVE  Rest'
    BY <2>5, <2>17 DEF ReadCrc
  <2>18. ASSUME DropJson \/ CreateMeta \/ PutLastObject \/ UpdateAttributes \/ Crash
         PROVE  Rest'
    BY <2>5, <2>18 DEF DropJson, CreateMeta, PutLastObject, UpdateAttributes, Crash
  <2>19. CASE UNCHANGED vars
    BY <2>5, <2>19 DEF vars
  <2> QED
    BY <1>2, <2>6, <2>7, <2>8, <2>9, <2>10, <2>11, <2>12, <2>13, <2>14, <2>15, <2>16, <2>17,
       <2>18, <2>19 DEF Next
<1> QED
  BY <1>1, <1>2

(* Once write_meta returned, a query that no later one disturbs is         *)
(* answered, from the right records unless chunks were rewritten           *)
(* (ServedAfterBuild), by keys or through the zone map's zarr.json, for    *)
(* any layouts and packings and whatever crashed before.                   *)
THEOREM BuiltZoneMapsServe == Spec => []ServedAfterBuild
<1>1. Init => Types /\ BuildsComplete /\ CallsFollow
  <2>1. Init => BuildsComplete
    BY DEF Init, Idle, BuildsComplete, Building
  <2>2. Init => CallsFollow
    BY DEF Init, CallsFollow, Undisturbed
  <2> QED
    BY <2>1, <2>2, TypesInit
<1>2. Types /\ BuildsComplete /\ CallsFollow /\ [Next]_vars
        => Types' /\ BuildsComplete' /\ CallsFollow'
  BY TypesStep, BuildsStep, CallsStep
<1>3. CallsFollow => ServedAfterBuild
  BY DEF CallsFollow, Reliable, ServedAfterBuild
<1> QED
  BY <1>1, <1>2, <1>3, PTL DEF Spec

-----------------------------------------------------------------------------
(* Checksums *)

(* The checksums are those of the bytes the records describe.              *)
ChecksumsMatch ==
  /\ Building => \A c \in UnitsOf(shape) \ late :
                   IF c \in DOMAIN writer.crc THEN writer.crc[c] = writer.data[c]
                   ELSE writer.data[c] = payload[c]
  /\ writer.settled =>
       /\ DOMAIN attrs.crc = UnitsOf(attrs.source)
       /\ \A c \in UnitsOf(attrs.source) \ late : attrs.crc[c] = RecordOf(c)
  /\ reader.pc \in {"check", "listed"} => DOMAIN reader.seen \subseteq UnitsOf(reader.shape)

(* Unit c is row c % t of object c \div t.                                 *)
LEMMA RowOfUnit ==
  ASSUME NEW n \in Nat, NEW t \in Nat \ {0}, NEW packed, NEW c \in UnitsOf(n)
  PROVE  /\ c \div t \in ObjectIds(Layout(n, t, packed))
         /\ c % t \in UnitsOf(t)
         /\ (c \div t) * t + (c % t) = c
         /\ c \in UnitsIn(Layout(n, t, packed), c \div t)
<1> DEFINE q == c \div t
           r == c % t
           d == (n + t - 1) \div t
           s == (n + t - 1) % t
<1>1. c \in Nat /\ c < n
  BY DEF UnitsOf
<1>2. q \in Nat /\ r \in 0 .. t - 1 /\ c = t * q + r
  BY <1>1
<1>3. d \in Nat /\ s \in 0 .. t - 1 /\ n + t - 1 = t * d + s
  BY <1>1
<1> HIDE DEF q, r, d, s
<1>4. q < d
  <2>1. SUFFICES ASSUME d <= q PROVE FALSE
    BY <1>2, <1>3
  <2>2. PICK e \in Nat : q = d + e
    <3>1. q - d \in Nat /\ q = d + (q - d)
      BY <1>2, <1>3, <2>1
    <3> QED
      BY <3>1
  <2>3. t * q = t * d + t * e /\ t * d \in Nat /\ t * e \in Nat
    BY <1>2, <1>3, <2>2
  <2> QED
    BY <1>1, <1>2, <1>3, <2>3
<1>5. q * t = t * q /\ (q + 1) * t = t * q + t /\ t * q \in Nat
  BY <1>2
<1>6. c \in q * t .. Least((q + 1) * t, n) - 1
  BY <1>1, <1>2, <1>5 DEF Least
<1>7. q \in 0 .. d - 1
  BY <1>2, <1>3, <1>4
<1>8. c \in UnitsIn(Layout(n, t, packed), q)
  BY <1>6 DEF UnitsIn, Layout
<1>9. q \in ObjectIds(Layout(n, t, packed))
  BY <1>7 DEF ObjectIds, UnitsOf, CeilDiv, Layout, d
<1>10. r \in UnitsOf(t) /\ q * t + r = c
  BY <1>2, <1>5 DEF UnitsOf
<1> QED
  BY <1>8, <1>9, <1>10, Zenon DEF q, r

(* When the attributes are written, the checksum and the record of a chunk *)
(* are of the same contents, unless it was written late.                   *)
LEMMA AttributesMatch ==
  ASSUME Types, BuildsComplete, ChecksumsMatch, UpdateAttributes
  PROVE  /\ DOMAIN attrs'.crc = UnitsOf(attrs'.source)
         /\ \A c \in UnitsOf(attrs'.source) \ late : attrs'.crc[c] = RecordOf(c)'
<1> DEFINE lay == writer.lay
<1>1. /\ writer.pc = "crc" /\ Building /\ IsBuild(writer) /\ DOMAIN writer.crc = UnitsOf(shape)
      /\ attrs' = NewAttrs(lay, writer.crc) /\ UNCHANGED <<shape, payload, json, zm>>
  BY DEF UpdateAttributes, Types, Building
<1>2. /\ lay.shape = shape /\ lay.t \in Nat \ {0} /\ shape \in Nat /\ shape \in Shapes
      /\ lay = Layout(shape, lay.t, lay.packed)
  BY <1>1, ShapesAssumption DEF IsBuild, Layout, Types
<1>3. attrs'.source = shape /\ attrs'.crc = writer.crc
  BY <1>1, <1>2 DEF NewAttrs
<1>4. SUFFICES ASSUME NEW c \in UnitsOf(shape), c \notin late PROVE writer.crc[c] = RecordOf(c)'
  BY <1>1, <1>3
<1> DEFINE q == c \div lay.t
           r == c % lay.t
<1>5. q \in ObjectIds(lay) /\ r \in UnitsOf(lay.t) /\ q * lay.t + r = c /\ c \in UnitsIn(lay, q)
  <2> DEFINE t == lay.t
             packed == lay.packed
  <2> HIDE DEF t, packed
  <2>1. t \in Nat \ {0} /\ lay = Layout(shape, t, packed)
    BY <1>2 DEF t, packed
  <2>2. /\ c \div t \in ObjectIds(Layout(shape, t, packed)) /\ c % t \in UnitsOf(t)
        /\ (c \div t) * t + (c % t) = c /\ c \in UnitsIn(Layout(shape, t, packed), c \div t)
    BY <1>2, <2>1, RowOfUnit, Zenon
  <2> QED
    BY <2>1, <2>2, Zenon DEF t
<1>6. json = lay /\ q \in DOMAIN zm /\ zm[q] = ObjectOf(lay, q, writer.data)
  BY <1>1, <1>5 DEF BuildsComplete
<1>7. json # None
  <2>1. lay.packed \in BOOLEAN
    BY <1>1, OptionsAssumption DEF IsBuild
  <2>2. Layout(shape, lay.t, lay.packed) \in [shape : Nat, t : Nat, packed : BOOLEAN]
    BY <1>2, <2>1 DEF Layout
  <2> QED
    BY <1>2, <1>6, <2>2, NoneAssumption
<1>8. zm[q].rows[r] = writer.data[c]
  BY <1>5, <1>6 DEF ObjectOf
<1>9. writer.crc[c] = writer.data[c]
  BY <1>1, <1>4 DEF ChecksumsMatch
<1>10. RecordOf(c)' = zm[q].rows[r]
  BY <1>1, <1>6, <1>7 DEF RecordOf
<1> QED
  BY <1>8, <1>9, <1>10

LEMMA ChecksumsStep ==
  ASSUME Types, BuildsComplete, ChecksumsMatch, [Next]_vars
  PROVE  ChecksumsMatch'
<1> DEFINE
  Builds == /\ Building => \A c \in UnitsOf(shape) \ late :
                             IF c \in DOMAIN writer.crc THEN writer.crc[c] = writer.data[c]
                             ELSE writer.data[c] = payload[c]
            /\ writer.settled =>
                 /\ DOMAIN attrs.crc = UnitsOf(attrs.source)
                 /\ \A c \in UnitsOf(attrs.source) \ late : attrs.crc[c] = RecordOf(c)
  Checks == reader.pc \in {"check", "listed"} => DOMAIN reader.seen \subseteq UnitsOf(reader.shape)
<1>1. Builds /\ Checks
  BY DEF ChecksumsMatch
<1>2. SUFFICES Builds' /\ Checks'
  BY DEF ChecksumsMatch
<1>3. ASSUME UNCHANGED <<store, writer, counts>>
      PROVE  Builds'
  BY <1>1, <1>3 DEF store, counts, Building, RecordOf
<1>4. ASSUME UNCHANGED reader
      PROVE  Checks'
  BY <1>1, <1>4
<1>5. ASSUME ~Building, UNCHANGED <<attrs, json, zm, writer, late>>
      PROVE  Builds'
  BY <1>1, <1>5 DEF Building, RecordOf
<1>6. ASSUME Building, UNCHANGED <<shape, payload, late>>, writer'.settled = FALSE,
             writer'.data = writer.data, writer'.crc = writer.crc
      PROVE  Builds'
  BY <1>1, <1>6 DEF Building
<1>7. Building => writer.settled = FALSE
  BY DEF Types, IsBuild
<1>8. ASSUME NEW c \in Units, NEW v \in Versions, WriteChunk(c, v)
      PROVE  Builds' /\ Checks'
  <2>1. ASSUME ~Building PROVE Builds'
    BY <1>5, <1>8, <2>1 DEF WriteChunk
  <2>3. ASSUME Building PROVE Builds'
    <3>1. /\ payload' = [payload EXCEPT ![c] = v] /\ UNCHANGED <<shape, attrs, json, zm, writer>>
          /\ late' = IF c \notin DOMAIN writer.crc THEN late \cup {c} ELSE late
      BY <1>8, <2>3 DEF WriteChunk
    <3>2. payload \in [Units -> Contents]
      BY DEF Types
    <3>3. \A d \in UnitsOf(shape) \ late' :
            IF d \in DOMAIN writer.crc THEN writer.crc[d] = writer.data[d]
            ELSE writer.data[d] = payload'[d]
      <4> SUFFICES ASSUME NEW d \in UnitsOf(shape), d \notin late'
                   PROVE  IF d \in DOMAIN writer.crc THEN writer.crc[d] = writer.data[d]
                          ELSE writer.data[d] = payload'[d]
        OBVIOUS
      <4>1. d \notin late /\ (d \notin DOMAIN writer.crc => d # c)
        BY <3>1
      <4>2. d # c => payload'[d] = payload[d]
        BY <3>1, <3>2
      <4> QED
        BY <1>1, <2>3, <4>1, <4>2
    <3>4. ~writer'.settled
      BY <1>7, <2>3, <3>1
    <3> QED
      BY <3>1, <3>3, <3>4
  <2>4. Builds'
    BY <2>1, <2>3
  <2>2. Checks'
    BY <1>1, <1>8 DEF WriteChunk, Types, IsReader
  <2> QED
    BY <2>2, <2>4
<1>9. ASSUME NEW n \in Shapes, Resize(n)
      PROVE  Builds' /\ Checks'
  <2>1. Builds'
    BY <1>5, <1>9 DEF Resize
  <2>2. Checks'
    BY <1>1, <1>9 DEF Resize, Types, IsReader
  <2> QED
    BY <2>1, <2>2
<1>10. ASSUME NEW t \in TChunks, NEW packed \in Packings, StartBuild(t, packed)
       PROVE  Builds' /\ Checks'
  <2>1. /\ writer'.settled = FALSE /\ writer'.data = payload /\ payload' = payload
        /\ DOMAIN writer'.crc = {}
    BY <1>10 DEF StartBuild, store
  <2>2. Checks'
    BY <1>1, <1>10 DEF StartBuild, Types, IsReader
  <2> QED
    BY <2>1, <2>2
<1>11. ASSUME NEW i \in Units, DropObject(i) \/ PutObject(i)
       PROVE  Builds' /\ Checks'
  BY <1>4, <1>6, <1>7, <1>11 DEF DropObject, PutObject, counts, Building
<1>12. CASE DropJson
  BY <1>4, <1>6, <1>7, <1>12 DEF DropJson, counts, Building
<1>13. CASE CreateMeta
  <2>1. writer'.settled = FALSE /\ writer'.data = writer.data /\ writer'.crc = writer.crc
    BY <1>13 DEF CreateMeta, Types, Building, IsBuild
  <2> QED
    BY <1>4, <1>6, <1>13, <2>1 DEF CreateMeta, counts, Building
<1>14. CASE PutLastObject
  <2>1. writer'.settled = FALSE /\ writer'.data = writer.data /\ writer'.crc = writer.crc
    BY <1>14 DEF PutLastObject, Types, Building, IsBuild
  <2> QED
    BY <1>4, <1>6, <1>14, <2>1 DEF PutLastObject, store, counts, Building
<1>15. ASSUME NEW c \in Units, ReadCrc(c)
       PROVE  Builds' /\ Checks'
  <2>1. /\ writer'.settled = FALSE /\ writer'.data = writer.data /\ Building
        /\ writer'.crc = [d \in DOMAIN writer.crc \cup {c} |->
                           IF d = c THEN payload[c] ELSE writer.crc[d]]
        /\ UNCHANGED <<shape, payload, reader, late>> /\ c \notin DOMAIN writer.crc
    BY <1>15 DEF ReadCrc, store, counts, Types, Building, IsBuild
  <2>2. \A d \in UnitsOf(shape) \ late :
          IF d \in DOMAIN writer'.crc THEN writer'.crc[d] = writer'.data[d]
          ELSE writer'.data[d] = payload[d]
    BY <1>1, <2>1
  <2> QED
    BY <1>1, <1>4, <2>1, <2>2
<1>16. CASE UpdateAttributes
  <2>1. /\ writer'.pc = "idle" /\ UNCHANGED <<reader, late>>
        /\ DOMAIN attrs'.crc = UnitsOf(attrs'.source)
        /\ \A c \in UnitsOf(attrs'.source) \ late : attrs'.crc[c] = RecordOf(c)'
    BY <1>16, AttributesMatch DEF UpdateAttributes, counts, Idle
  <2> QED
    BY <1>4, <2>1 DEF Building
<1>17. CASE Crash
  <2>1. writer'.pc = "idle" /\ writer'.settled = FALSE
    BY <1>17 DEF Crash, Idle
  <2> QED
    BY <1>4, <1>17, <2>1 DEF Crash, Building
<1>18. CASE Open
  BY <1>3, <1>18 DEF Open
<1>19. ASSUME NEW by \in ByKeys, StartQuery(by)
       PROVE  Builds' /\ Checks'
  <2>1. Checks'
    BY <1>19 DEF StartQuery, Start, Types, IsReader
  <2> QED
    BY <1>3, <1>19, <2>1 DEF StartQuery
<1>20. ASSUME NEW i \in Units, ReadObject(i)
       PROVE  Builds' /\ Checks'
  <2>1. Checks'
    BY <1>20 DEF ReadObject, Types, IsReader
  <2> QED
    BY <1>3, <1>20, <2>1 DEF ReadObject
<1>21. CASE OpenMeta
  <2>1. Checks'
    BY <1>21 DEF OpenMeta, Types, IsReader
  <2> QED
    BY <1>3, <1>21, <2>1 DEF OpenMeta
<1>22. ASSUME NEW i \in Units, ReadMetaChunk(i)
       PROVE  Builds' /\ Checks'
  <2>1. Checks'
    BY <1>22 DEF ReadMetaChunk, Types, IsReader
  <2> QED
    BY <1>3, <1>22, <2>1 DEF ReadMetaChunk
<1>23. CASE FinishQuery
  <2>1. Checks'
    BY <1>23 DEF FinishQuery, Types, IsReader
  <2> QED
    BY <1>3, <1>23, <2>1 DEF FinishQuery
<1>24. CASE StartCheck
  <2>1. DOMAIN reader'.seen = {}
    BY <1>24 DEF StartCheck, Start, Types, IsReader
  <2> QED
    BY <1>3, <1>24, <2>1 DEF StartCheck
<1>25. ASSUME NEW c \in Units, ReadChunk(c)
       PROVE  Builds' /\ Checks'
  <2>1. /\ c \in UnitsOf(reader.shape) /\ reader.pc = "check" /\ reader'.shape = reader.shape
        /\ reader'.seen = Saw([d \in {c} |-> payload[c]])
    BY <1>25 DEF ReadChunk, Types, IsReader
  <2>2. Checks'
    BY <1>1, <2>1 DEF Saw
  <2> QED
    BY <1>3, <1>25, <2>2 DEF ReadChunk
<1>26. CASE FinishCheck
  <2>1. reader.pc = "check" /\ reader'.seen = reader.seen /\ reader'.shape = reader.shape
    BY <1>26 DEF FinishCheck, Types, IsReader
  <2> QED
    BY <1>1, <1>3, <1>26, <2>1 DEF FinishCheck
<1>27. CASE UNCHANGED vars
  BY <1>3, <1>4, <1>27 DEF vars, store, counts
<1> QED
  BY <1>8, <1>9, <1>10, <1>11, <1>12, <1>13, <1>14, <1>15, <1>16, <1>17, <1>18, <1>19, <1>20,
     <1>21, <1>22, <1>23, <1>24, <1>25, <1>26, <1>27 DEF Next

(* Resizes between builds mislead neither a query nor check_meta           *)
(* (ResizeIsSafe): an undisturbed check_meta lists exactly the chunks      *)
(* whose records are not of their bytes, of those that were not written    *)
(* between write_meta's data and its checksums.                            *)
THEOREM ResizesAreSafe == Spec => []ResizeIsSafe
<1>1. Init => Types /\ BuildsComplete /\ CallsFollow /\ ChecksumsMatch
  <2>1. Init => BuildsComplete
    BY DEF Init, Idle, BuildsComplete, Building
  <2>2. Init => CallsFollow
    BY DEF Init, CallsFollow, Undisturbed
  <2>3. Init => ChecksumsMatch
    BY DEF Init, Idle, ChecksumsMatch, Building
  <2> QED
    BY <2>1, <2>2, <2>3, TypesInit
<1>2. Types /\ BuildsComplete /\ CallsFollow /\ ChecksumsMatch /\ [Next]_vars
        => Types' /\ BuildsComplete' /\ CallsFollow' /\ ChecksumsMatch'
  BY TypesStep, BuildsStep, CallsStep, ChecksumsStep
<1>3. BuildsComplete /\ CallsFollow /\ ChecksumsMatch => CheckIsExact
  <2>1. SUFFICES ASSUME BuildsComplete, CallsFollow, ChecksumsMatch,
                        reader.pc = "listed", Undisturbed, NEW c \in DOMAIN reader.seen, c \notin late
                 PROVE  c \in Listed <=> reader.seen[c] # RecordOf(c)
    BY DEF CheckIsExact
  <2>2. DOMAIN reader.seen \subseteq UnitsOf(attrs.source) /\ reader.attrs = attrs /\ writer.settled
    BY <2>1 DEF CallsFollow, ChecksumsMatch, SourceMatches
  <2>3. reader.attrs.crc[c] = RecordOf(c) /\ c \in DOMAIN reader.attrs.crc
    BY <2>1, <2>2 DEF ChecksumsMatch
  <2> QED
    BY <2>3 DEF Listed, Changed
<1>4. CheckIsExact /\ RightOrRaises => ResizeIsSafe
  BY DEF ResizeIsSafe
<1> QED
  BY <1>1, <1>2, <1>3, <1>4, QueriesAreRightOrRaise, PTL DEF Spec

-----------------------------------------------------------------------------
(* Benchmark runs: the inductive invariant *)

Known == {Data[i] : i \in Inputs} \cup {Nothing}
AfterStart == {"thresholds", "loaded", "computed", "writing saved", "jobs"}

TypeOK ==
  /\ copy \in [Vars -> Known]
  /\ ths \in [Vars -> Known]
  /\ DOMAIN saved = Vars /\ DOMAIN runs = Inputs /\ DOMAIN out = Inputs
  /\ pc \in AfterStart \cup {"down", "stuck", "launched", "recording", "writing runs"}
  /\ pc # "down" => input \in Inputs
  /\ pc \in {"loaded", "computed", "writing saved"} => var \in Vars
  /\ todo \subseteq Jobs

(* What a process takes from the cache is of its input. *)
OfItsInput ==
  /\ \A v \in Vars : saved[v] \notin {Nothing, Torn} => saved[v].of = Data[saved[v].key]
  /\ \A v \in Vars : ths[v] # Nothing => pc # "down" /\ ths[v] = Data[input]
  /\ pc = "loaded" => copy[var] = Data[input]
  /\ pc \in {"computed", "writing saved"} => ths[var] = Data[input]
  /\ pc = "jobs" => \A v \in Vars : ths[v] # Nothing

(* A process knows the runs of the rows it finds, and its own is recorded  *)
(* before it adds one.                                                     *)
KnowsRuns ==
  /\ pc \in {"recording", "writing runs"} => \A r \in out[input] : r.run \in known
  /\ pc \in AfterStart => (runs[input] # Torn => run \in runs[input])

(* No job that is left to do has a row. *)
LeftToDo == pc = "jobs" => \A r \in out[input] : r.job \notin todo

IInv ==
  /\ TypeOK /\ OfItsInput /\ KnowsRuns /\ LeftToDo
  /\ ThresholdsOfTheirData /\ RowsRecorded /\ NoRowTwice

USE DEF Known, AfterStart

(* A copy of the length of the input is a copy of the input. *)
LEMMA CopyIsOfInput ==
  ASSUME NEW v \in Vars, copy \in [Vars -> Known], input \in Inputs, CopyHasLength(v), copy[v] # Nothing
  PROVE  copy[v] = Data[input]
<1>1. PICK i \in Inputs : copy[v] = Data[i]
  OBVIOUS
<1>2. Length[Data[i]] = Length[Data[input]]
  BY <1>1 DEF CopyHasLength
<1> QED
  BY <1>1, <1>2, OneRawPerCache

(* No files, no process. *)
LEMMA InitBench == BenchInit => IInv
<1> SUFFICES ASSUME BenchInit PROVE IInv
  OBVIOUS
<1>1. TypeOK
  BY DEF BenchInit, TypeOK, NoThresholds
<1>2. OfItsInput /\ KnowsRuns /\ LeftToDo
  BY DEF BenchInit, OfItsInput, KnowsRuns, LeftToDo, NoThresholds
<1>3. ThresholdsOfTheirData /\ RowsRecorded /\ NoRowTwice
  BY DEF BenchInit, ThresholdsOfTheirData, RowsRecorded, NoRowTwice
<1> QED
  BY <1>1, <1>2, <1>3 DEF IInv

(* A process starts with nothing but its input. *)
LEMMA LaunchStep == IInv /\ (\E i \in Inputs : Launch(i)) => IInv'
<1> SUFFICES ASSUME IInv, \E i \in Inputs : Launch(i) PROVE IInv'
  OBVIOUS
<1> USE DEF IInv, Launch, files, counters
<1>1. TypeOK'
  BY InputsAssumption DEF TypeOK
<1>2. OfItsInput'
  BY InputsAssumption DEF TypeOK, OfItsInput
<1>3. KnowsRuns'
  BY DEF TypeOK, KnowsRuns, RowsRecorded
<1>4. LeftToDo'
  BY DEF TypeOK, LeftToDo
<1>5. ThresholdsOfTheirData' /\ RowsRecorded' /\ NoRowTwice'
  BY InputsAssumption DEF TypeOK, OfItsInput, KnowsRuns, LeftToDo, ThresholdsOfTheirData, RowsRecorded, NoRowTwice
<1> QED
  BY <1>1, <1>2, <1>3, <1>4, <1>5

(* start_run has read the record, which holds the runs of all rows. *)
LEMMA ReadRunsStep == IInv /\ (ReadRuns) => IInv'
<1> SUFFICES ASSUME IInv, ReadRuns PROVE IInv'
  OBVIOUS
<1> USE DEF IInv, ReadRuns, files, counters
<1>1. TypeOK'
  BY InputsAssumption DEF TypeOK
<1>2. OfItsInput'
  BY InputsAssumption DEF TypeOK, OfItsInput
<1>3. KnowsRuns'
  BY DEF TypeOK, KnowsRuns, RowsRecorded
<1>4. LeftToDo'
  BY DEF TypeOK, LeftToDo
<1>5. ThresholdsOfTheirData' /\ RowsRecorded' /\ NoRowTwice'
  BY InputsAssumption DEF TypeOK, OfItsInput, KnowsRuns, LeftToDo, ThresholdsOfTheirData, RowsRecorded, NoRowTwice
<1> QED
  BY <1>1, <1>2, <1>3, <1>4, <1>5

(* start_run fails. *)
LEMMA RunsUnreadableStep == IInv /\ (RunsUnreadable) => IInv'
<1> SUFFICES ASSUME IInv, RunsUnreadable PROVE IInv'
  OBVIOUS
<1> USE DEF IInv, RunsUnreadable, process, files, counters
<1>1. TypeOK'
  BY InputsAssumption DEF TypeOK
<1>2. OfItsInput'
  BY InputsAssumption DEF TypeOK, OfItsInput
<1>3. KnowsRuns'
  BY DEF TypeOK, KnowsRuns, RowsRecorded
<1>4. LeftToDo'
  BY DEF TypeOK, LeftToDo
<1>5. ThresholdsOfTheirData' /\ RowsRecorded' /\ NoRowTwice'
  BY InputsAssumption DEF TypeOK, OfItsInput, KnowsRuns, LeftToDo, ThresholdsOfTheirData, RowsRecorded, NoRowTwice
<1> QED
  BY <1>1, <1>2, <1>3, <1>4, <1>5

(* The record is emptied; what was read of it is kept. *)
LEMMA OpenRunsStep == IInv /\ (OpenRuns) => IInv'
<1> SUFFICES ASSUME IInv, OpenRuns PROVE IInv'
  OBVIOUS
<1> USE DEF IInv, OpenRuns, process, counters
<1>1. TypeOK'
  BY InputsAssumption DEF TypeOK
<1>2. OfItsInput'
  BY InputsAssumption DEF TypeOK, OfItsInput
<1>3. KnowsRuns'
  BY DEF TypeOK, KnowsRuns, RowsRecorded
<1>4. LeftToDo'
  BY DEF TypeOK, LeftToDo
<1>5. ThresholdsOfTheirData' /\ RowsRecorded' /\ NoRowTwice'
  BY InputsAssumption DEF TypeOK, OfItsInput, KnowsRuns, LeftToDo, ThresholdsOfTheirData, RowsRecorded, NoRowTwice
<1> QED
  BY <1>1, <1>2, <1>3, <1>4, <1>5

(* The record is whole again, with the process's own run. *)
LEMMA WriteRunsStep == IInv /\ (WriteRuns) => IInv'
<1> SUFFICES ASSUME IInv, WriteRuns PROVE IInv'
  OBVIOUS
<1> USE DEF IInv, WriteRuns, counters
<1>1. TypeOK'
  BY InputsAssumption DEF TypeOK
<1>2. OfItsInput'
  BY InputsAssumption DEF TypeOK, OfItsInput
<1>3. KnowsRuns'
  BY DEF TypeOK, KnowsRuns, RowsRecorded
<1>4. LeftToDo'
  BY DEF TypeOK, LeftToDo
<1>5. ThresholdsOfTheirData' /\ RowsRecorded' /\ NoRowTwice'
  BY InputsAssumption DEF TypeOK, OfItsInput, KnowsRuns, LeftToDo, ThresholdsOfTheirData, RowsRecorded, NoRowTwice
<1> QED
  BY <1>1, <1>2, <1>3, <1>4, <1>5

(* Saved thresholds with the key of the input are those of its data. *)
LEMMA ReuseStep == IInv /\ (\E v \in Vars : Reuse(v)) => IInv'
<1> SUFFICES ASSUME IInv, \E v \in Vars : Reuse(v) PROVE IInv'
  OBVIOUS
<1> USE DEF IInv, Reuse, Wanted, SavedForInput, files, counters
<1>1. TypeOK'
  BY DEF TypeOK, OfItsInput
<1>2. OfItsInput'
  BY InputsAssumption DEF TypeOK, OfItsInput
<1>3. KnowsRuns'
  BY DEF TypeOK, KnowsRuns, RowsRecorded
<1>4. LeftToDo'
  BY DEF TypeOK, LeftToDo
<1>5. ThresholdsOfTheirData' /\ RowsRecorded' /\ NoRowTwice'
  BY InputsAssumption DEF TypeOK, OfItsInput, KnowsRuns, LeftToDo, ThresholdsOfTheirData, RowsRecorded, NoRowTwice
<1> QED
  BY <1>1, <1>2, <1>3, <1>4, <1>5

(* thresholds fails. *)
LEMMA SavedUnreadableStep == IInv /\ (\E v \in Vars : SavedUnreadable(v)) => IInv'
<1> SUFFICES ASSUME IInv, \E v \in Vars : SavedUnreadable(v) PROVE IInv'
  OBVIOUS
<1> USE DEF IInv, SavedUnreadable, Wanted, process, files, counters
<1>1. TypeOK'
  BY InputsAssumption DEF TypeOK
<1>2. OfItsInput'
  BY InputsAssumption DEF TypeOK, OfItsInput
<1>3. KnowsRuns'
  BY DEF TypeOK, KnowsRuns, RowsRecorded
<1>4. LeftToDo'
  BY DEF TypeOK, LeftToDo
<1>5. ThresholdsOfTheirData' /\ RowsRecorded' /\ NoRowTwice'
  BY InputsAssumption DEF TypeOK, OfItsInput, KnowsRuns, LeftToDo, ThresholdsOfTheirData, RowsRecorded, NoRowTwice
<1> QED
  BY <1>1, <1>2, <1>3, <1>4, <1>5

(* The copy that is loaded, old or new, is one of the input. *)
LEMMA LoadEra5Step == IInv /\ (\E v \in Vars : LoadEra5(v)) => IInv'
<1> SUFFICES ASSUME IInv, \E v \in Vars : LoadEra5(v) PROVE IInv'
  OBVIOUS
<1> USE DEF IInv, LoadEra5, Wanted, counters
<1>1. TypeOK'
  BY InputsAssumption DEF TypeOK
<1>2. OfItsInput'
  BY CopyIsOfInput, InputsAssumption DEF TypeOK, OfItsInput
<1>3. KnowsRuns'
  BY DEF TypeOK, KnowsRuns, RowsRecorded
<1>4. LeftToDo'
  BY DEF TypeOK, LeftToDo
<1>5. ThresholdsOfTheirData' /\ RowsRecorded' /\ NoRowTwice'
  BY InputsAssumption DEF TypeOK, OfItsInput, KnowsRuns, LeftToDo, ThresholdsOfTheirData, RowsRecorded, NoRowTwice
<1> QED
  BY <1>1, <1>2, <1>3, <1>4, <1>5

(* A copy of another length is deleted, and the process ends. *)
LEMMA RefuseCopyStep == IInv /\ (\E v \in Vars : RefuseCopy(v)) => IInv'
<1> SUFFICES ASSUME IInv, \E v \in Vars : RefuseCopy(v) PROVE IInv'
  OBVIOUS
<1> USE DEF IInv, RefuseCopy, Wanted, Stop, NoThresholds, counters
<1>1. TypeOK'
  BY InputsAssumption DEF TypeOK
<1>2. OfItsInput'
  BY InputsAssumption DEF TypeOK, OfItsInput
<1>3. KnowsRuns'
  BY DEF TypeOK, KnowsRuns, RowsRecorded
<1>4. LeftToDo'
  BY DEF TypeOK, LeftToDo
<1>5. ThresholdsOfTheirData' /\ RowsRecorded' /\ NoRowTwice'
  BY InputsAssumption DEF TypeOK, OfItsInput, KnowsRuns, LeftToDo, ThresholdsOfTheirData, RowsRecorded, NoRowTwice
<1> QED
  BY <1>1, <1>2, <1>3, <1>4, <1>5

(* The thresholds computed are those of the copy. *)
LEMMA ComputeStep == IInv /\ (Compute) => IInv'
<1> SUFFICES ASSUME IInv, Compute PROVE IInv'
  OBVIOUS
<1> USE DEF IInv, Compute, counters
<1>1. TypeOK'
  BY InputsAssumption DEF TypeOK
<1>2. OfItsInput'
  BY InputsAssumption DEF TypeOK, OfItsInput
<1>3. KnowsRuns'
  BY DEF TypeOK, KnowsRuns, RowsRecorded
<1>4. LeftToDo'
  BY DEF TypeOK, LeftToDo
<1>5. ThresholdsOfTheirData' /\ RowsRecorded' /\ NoRowTwice'
  BY InputsAssumption DEF TypeOK, OfItsInput, KnowsRuns, LeftToDo, ThresholdsOfTheirData, RowsRecorded, NoRowTwice
<1> QED
  BY <1>1, <1>2, <1>3, <1>4, <1>5

(* Saved thresholds are emptied, whatever they were. *)
LEMMA OpenSavedStep == IInv /\ (OpenSaved) => IInv'
<1> SUFFICES ASSUME IInv, OpenSaved PROVE IInv'
  OBVIOUS
<1> USE DEF IInv, OpenSaved, process, counters
<1>1. TypeOK'
  BY InputsAssumption DEF TypeOK
<1>2. OfItsInput'
  BY InputsAssumption DEF TypeOK, OfItsInput
<1>3. KnowsRuns'
  BY DEF TypeOK, KnowsRuns, RowsRecorded
<1>4. LeftToDo'
  BY DEF TypeOK, LeftToDo
<1>5. ThresholdsOfTheirData' /\ RowsRecorded' /\ NoRowTwice'
  BY InputsAssumption DEF TypeOK, OfItsInput, KnowsRuns, LeftToDo, ThresholdsOfTheirData, RowsRecorded, NoRowTwice
<1> QED
  BY <1>1, <1>2, <1>3, <1>4, <1>5

(* What is saved under the input's key is of its data. *)
LEMMA WriteSavedStep == IInv /\ (WriteSaved) => IInv'
<1> SUFFICES ASSUME IInv, WriteSaved PROVE IInv'
  OBVIOUS
<1> USE DEF IInv, WriteSaved, counters
<1>1. TypeOK'
  BY InputsAssumption DEF TypeOK
<1>2. OfItsInput'
  BY InputsAssumption DEF TypeOK, OfItsInput
<1>3. KnowsRuns'
  BY DEF TypeOK, KnowsRuns, RowsRecorded
<1>4. LeftToDo'
  BY DEF TypeOK, LeftToDo
<1>5. ThresholdsOfTheirData' /\ RowsRecorded' /\ NoRowTwice'
  BY InputsAssumption DEF TypeOK, OfItsInput, KnowsRuns, LeftToDo, ThresholdsOfTheirData, RowsRecorded, NoRowTwice
<1> QED
  BY <1>1, <1>2, <1>3, <1>4, <1>5

(* The jobs to do are those without a row. *)
LEMMA ReadDoneStep == IInv /\ (ReadDone) => IInv'
<1> SUFFICES ASSUME IInv, ReadDone PROVE IInv'
  OBVIOUS
<1> USE DEF IInv, ReadDone, ToDo, JobsDone, files, counters
<1>1. TypeOK'
  BY InputsAssumption DEF TypeOK
<1>2. OfItsInput'
  BY InputsAssumption DEF TypeOK, OfItsInput
<1>3. KnowsRuns'
  BY DEF TypeOK, KnowsRuns, RowsRecorded
<1>4. LeftToDo'
  BY DEF TypeOK, LeftToDo
<1>5. ThresholdsOfTheirData' /\ RowsRecorded' /\ NoRowTwice'
  BY InputsAssumption DEF TypeOK, OfItsInput, KnowsRuns, LeftToDo, ThresholdsOfTheirData, RowsRecorded, NoRowTwice
<1> QED
  BY <1>1, <1>2, <1>3, <1>4, <1>5

(* The new row is of the input's data and of a recorded run, and its job had none. *)
LEMMA MeasureStep == IInv /\ (\E j \in Jobs : Measure(j)) => IInv'
<1> SUFFICES ASSUME IInv, \E j \in Jobs : Measure(j) PROVE IInv'
  OBVIOUS
<1> USE DEF IInv, Measure, counters
<1>1. TypeOK'
  BY InputsAssumption DEF TypeOK
<1>2. OfItsInput'
  BY InputsAssumption DEF TypeOK, OfItsInput
<1>3. KnowsRuns'
  BY DEF TypeOK, KnowsRuns, RowsRecorded
<1>4. LeftToDo'
  BY DEF TypeOK, LeftToDo
<1>5. ThresholdsOfTheirData' /\ RowsRecorded' /\ NoRowTwice'
  BY InputsAssumption DEF TypeOK, OfItsInput, KnowsRuns, LeftToDo, ThresholdsOfTheirData, RowsRecorded, NoRowTwice
<1> QED
  BY <1>1, <1>2, <1>3, <1>4, <1>5

(* A failed job is left to another run. *)
LEMMA JobFailsStep == IInv /\ (\E j \in Jobs : JobFails(j)) => IInv'
<1> SUFFICES ASSUME IInv, \E j \in Jobs : JobFails(j) PROVE IInv'
  OBVIOUS
<1> USE DEF IInv, JobFails, files, counters
<1>1. TypeOK'
  BY InputsAssumption DEF TypeOK
<1>2. OfItsInput'
  BY InputsAssumption DEF TypeOK, OfItsInput
<1>3. KnowsRuns'
  BY DEF TypeOK, KnowsRuns, RowsRecorded
<1>4. LeftToDo'
  BY DEF TypeOK, LeftToDo
<1>5. ThresholdsOfTheirData' /\ RowsRecorded' /\ NoRowTwice'
  BY InputsAssumption DEF TypeOK, OfItsInput, KnowsRuns, LeftToDo, ThresholdsOfTheirData, RowsRecorded, NoRowTwice
<1> QED
  BY <1>1, <1>2, <1>3, <1>4, <1>5

(* The process ends, and the files stay. *)
LEMMA FinishedStep == IInv /\ (Finished) => IInv'
<1> SUFFICES ASSUME IInv, Finished PROVE IInv'
  OBVIOUS
<1> USE DEF IInv, Finished, Stop, NoThresholds, files, counters
<1>1. TypeOK'
  BY InputsAssumption DEF TypeOK
<1>2. OfItsInput'
  BY InputsAssumption DEF TypeOK, OfItsInput
<1>3. KnowsRuns'
  BY DEF TypeOK, KnowsRuns, RowsRecorded
<1>4. LeftToDo'
  BY DEF TypeOK, LeftToDo
<1>5. ThresholdsOfTheirData' /\ RowsRecorded' /\ NoRowTwice'
  BY InputsAssumption DEF TypeOK, OfItsInput, KnowsRuns, LeftToDo, ThresholdsOfTheirData, RowsRecorded, NoRowTwice
<1> QED
  BY <1>1, <1>2, <1>3, <1>4, <1>5

(* A killed process leaves its files as they are. *)
LEMMA CrashStep == IInv /\ (Kill) => IInv'
<1> SUFFICES ASSUME IInv, Kill PROVE IInv'
  OBVIOUS
<1> USE DEF IInv, Kill, Stop, NoThresholds, files, counters
<1>1. TypeOK'
  BY InputsAssumption DEF TypeOK
<1>2. OfItsInput'
  BY InputsAssumption DEF TypeOK, OfItsInput
<1>3. KnowsRuns'
  BY DEF TypeOK, KnowsRuns, RowsRecorded
<1>4. LeftToDo'
  BY DEF TypeOK, LeftToDo
<1>5. ThresholdsOfTheirData' /\ RowsRecorded' /\ NoRowTwice'
  BY InputsAssumption DEF TypeOK, OfItsInput, KnowsRuns, LeftToDo, ThresholdsOfTheirData, RowsRecorded, NoRowTwice
<1> QED
  BY <1>1, <1>2, <1>3, <1>4, <1>5

(* No step of a process, of the user or of a kill breaks the invariant.    *)
THEOREM Invariance == BenchSpec => []IInv
<1>1. IInv /\ [BenchNext]_benchVars => IInv'
  <2> SUFFICES ASSUME IInv, [BenchNext]_benchVars PROVE IInv'
    OBVIOUS
  <2>1. CASE UNCHANGED benchVars
    <3> USE <2>1 DEF benchVars, files, process, counters
    <3>1. TypeOK' /\ OfItsInput' /\ KnowsRuns' /\ LeftToDo'
      BY DEF IInv, TypeOK, OfItsInput, KnowsRuns, LeftToDo
    <3>2. ThresholdsOfTheirData' /\ RowsRecorded' /\ NoRowTwice'
      BY DEF IInv, ThresholdsOfTheirData, RowsRecorded, NoRowTwice
    <3> QED
      BY <3>1, <3>2 DEF IInv
  <2>2. CASE BenchNext
    BY <2>2,
      LaunchStep, ReadRunsStep, RunsUnreadableStep, OpenRunsStep, WriteRunsStep,
      ReuseStep, SavedUnreadableStep, LoadEra5Step, RefuseCopyStep, ComputeStep,
      OpenSavedStep, WriteSavedStep, ReadDoneStep, MeasureStep, JobFailsStep,
      FinishedStep, CrashStep
       DEF BenchNext, Work
  <2> QED
    BY <2>1, <2>2
<1> QED
  BY InitBench, <1>1, PTL DEF BenchSpec

(* Whatever killed runs left in the cache, every row has the thresholds of *)
(* the data of its own results file.                                       *)
THEOREM ThresholdsAlwaysOfTheirData == BenchSpec => []ThresholdsOfTheirData
  BY Invariance, PTL DEF IInv

(* No job has two rows, and the run of every row is recorded wherever the  *)
(* record can be read.                                                     *)
THEOREM RowsAlwaysKept == BenchSpec => []RowsKept
  BY Invariance, PTL DEF IInv, RowsKept
=============================================================================
