----------------------------- MODULE Algorithms -----------------------------
(***************************************************************************)
(* The pure algorithms together: every initial state is one input of one   *)
(* of them, tagged by its kind, or a call of RangeBounds, which is then    *)
(* made.                                                                   *)
(***************************************************************************)
EXTENDS MetaPacking, CodecConfig, PointReads, Baselines, Estimates, RangeBounds

CONSTANT Inputs

VARIABLE input

(* Zone map records are made as write_meta makes them; the arguments of a  *)
(* codec are of their annotated types, and zarr gives chunks of an array   *)
(* as many lengths as the array has.  A value is at most its error from    *)
(* what was decoded, a field has whole sub-chunks; the inner chunks of a   *)
(* shard lie apart, and points are of the plane.  There are data, and a    *)
(* quantile is a part of one.  SLAB is a multiple of every chunk length    *)
(* along time.                                                             *)
ASSUME PackingAssumption ==
  \A i \in Inputs : i.kind = "packing" => AreUnits(i.units) /\ i.padding \in Seq(Bytes)
ASSUME ConfigAssumption ==
  \A i \in Inputs : i.kind = "config" => AreArguments(i.c) /\ IsArray(i.shape, i.chunk)
ASSUME EstimatesAssumption ==
  /\ \A i \in Inputs : i.kind = "mean" => AreValues(i.values) /\ i.th \in Int
  /\ \A i \in Inputs : i.kind = "extremes" =>
       IsField(i.field) /\ IsRegion(i.field, i.region) /\ i.slack \in Nat
ASSUME QuantilesAssumption ==
  \A i \in Inputs : i.kind = "quantiles" =>
    AreData(i.a) /\ AreFractions(i.qs) /\ i.step \in Nat \ {0}
ASSUME PointsAssumption ==
  \A i \in Inputs : i.kind = "points" => IsStore(i.store) /\ ArePoints(i.store, i.pts)
ASSUME ScansAssumption ==
  /\ Fill \in Int
  /\ \A i \in Inputs : i.kind = "scan" =>
       /\ AreSteps(i.a) /\ AreNear(i.a, i.decoded, 1) /\ i.th \in Int /\ i.gap \in Nat
       /\ IsCut(Len(i.a), Len(i.a[1]), i.shard) /\ IsCut(i.shard[1], i.shard[2], i.inner)
       /\ AreLaid(i.rank, i.sizes, ShardGrid(i.shard, i.inner))
       /\ StepMultiple % i.inner[1] = 0 /\ i.slabBytes \in Nat

AlgorithmsInit ==
  \/ input \in Inputs /\ call = None /\ result = None
  \/ input = None /\ CallInit
AlgorithmsNext == input = None /\ Call /\ UNCHANGED input
AlgorithmsSpec == AlgorithmsInit /\ [][AlgorithmsNext]_<<input, callVars>>

-----------------------------------------------------------------------------
(* Properties *)

Is(kind) == input # None /\ input.kind = kind

(* The records of the zone map are read back, whatever bytes they hold     *)
(* (RecordsReadBack in MetaPacking).                                       *)
PackingExact == Is("packing") => RecordsReadBack(input.units, input.padding)

(* What the encoder, the queries and ZFP make of an array that can be      *)
(* created (AcceptedIsReadable in CodecConfig).                            *)
AcceptedReadable ==
  Is("config") => AcceptedIsReadable(input.c, input.dtype, input.shape, input.chunk)

(* Quantiles are order statistics (OrderStatistics in Quantiles). *)
QuantilesExact == Is("quantiles") => OrderStatistics(input.a, input.qs, input.step)

(* All baselines count the same (BaselinesAgree in Baselines). *)
CountsAgree ==
  Is("scan") =>
    BaselinesAgree(input.a, input.decoded, input.inner, 1, input.shard, input.rank, input.sizes,
                   input.gap, slab_step(1, input.slabBytes, Len(input.a)), input.th)

(* What is concluded from bounds holds of the original values (MeanInside  *)
(* and ExtremesInside in Estimates).                                       *)
EstimatesHold ==
  /\ Is("mean") => MeanInside(input.values, input.th)
  /\ Is("extremes") => ExtremesInside(input.field, input.region, input.slack)

(* Every method returns the stored series (PointsExact in PointReads). *)
PointSeriesExact == Is("points") => PointsExact(input.store, input.pts)
=============================================================================
