--------------------------- MODULE SystemSamples ---------------------------
(***************************************************************************)
(* What CollectOnce adds to the samples of one system before the guard     *)
(* sees them (internal/nsr/collector.go:119-137): two samples about the    *)
(* collection itself, and the system label.                                *)
(***************************************************************************)
EXTENDS Guard

upName == "nsr_up"
durationName == "nsr_collection_duration_seconds"
upHelp == "up help"
durationHelp == "duration help"

CycleMetric == {upName, durationName, guardMetric}

upSample(healthy) ==
  [name |-> upName, help |-> upHelp, type |-> "Gauge", labels |-> <<>>,
   value |-> IF healthy THEN 1 ELSE 0]

(* The duration is wall-clock time, which is not modelled. *)
durationSample ==
  [name |-> durationName, help |-> durationHelp, type |-> "Gauge",
   labels |-> <<>>, value |-> 0]

(* withSystem over a system's samples (collector.go:134-136). *)
Tagged(seq, sys) == [i \in 1..Len(seq) |-> withSystem(seq[i], sys)]
=============================================================================
