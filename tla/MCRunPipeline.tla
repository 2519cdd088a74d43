---------------------------- MODULE MCRunPipeline ----------------------------
(***************************************************************************)
(* Instances of RunPipeline for TLC.                                       *)
(***************************************************************************)
EXTENDS RunPipeline, TLC

Symmetry == Permutations(Traces)

LiveRun == [mode |-> "live", baseline |-> "full"]
DegradedRun == [mode |-> "live", baseline |-> "degraded"]

LiveOnly == {LiveRun}
LiveOrDegraded == {LiveRun, DegradedRun}

=============================================================================
