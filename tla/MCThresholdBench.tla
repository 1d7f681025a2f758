------------------------- MODULE MCThresholdBench -------------------------
(* Two inputs of one raw dataset, two variables. *)
EXTENDS ThresholdBench

SmallInputs == {"short", "all"}
SmallData == [i \in SmallInputs |-> IF i = "all" THEN "d128" ELSE "d64"]
SmallLength == [d \in {"d64", "d128"} |-> IF d = "d64" THEN 64 ELSE 128]
SmallVars == {"t2m", "ws"}
SmallJobs == {"a", "b"}
SmallVarOf == [j \in SmallJobs |-> IF j = "a" THEN "t2m" ELSE "ws"]
=============================================================================
