---------------------------- MODULE MCCollector ----------------------------
(* A few systems, not all of which can be polled at a time, and resource   *)
(* collectors that disagree on the help text of a metric: what the guard   *)
(* makes of it depends on which of them answered and on the order of the   *)
(* systems.                                                                *)
EXTENDS Collector

CONSTANTS NumSystems, Kinds, MaxHung

MCSystems == SubSeq(<<"a", "b", "c">>, 1, NumSystems)
MCName == {"m", "n", upName, durationName, guardMetric}
MCHelp == {"h1", "h2", upHelp, durationHelp, guardHelp}
MCGoodKey == {systemLabel, reasonLabel, "k"}
MCGoodValue == {"a", "b", "c", "v", "w"} \cup Reason

Raw(n, t, h, v) ==
  [name |-> n, help |-> h, type |-> t, labels |-> << [key |-> "k", value |-> v] >>,
   value |-> 0]

(* System "a" words the help of "m" differently from the others; the       *)
(* second collector emits one more series of "m", under that other help,   *)
(* twice.                                                                  *)
MCEmitsOf(sys, c) ==
  IF c = 1 THEN << Raw("m", "Gauge", IF sys = "a" THEN "h1" ELSE "h2", "v") >>
  ELSE << Raw("m", "Gauge", "h2", "w"), Raw("m", "Gauge", "h2", "w") >>

MCEmits == [sys \in {MCSystems[i] : i \in 1..NumSystems} |->
              [c \in 1..NumCollectors |-> MCEmitsOf(sys, c)]]

(* Every behaviour of the servers in which at most MaxHung of them hang.   *)
(* Where the deadline may pass at any moment a server that is "up" does    *)
(* nothing a "faulty" one may not do, and Kinds leaves it out.             *)
MCBackends ==
  {b \in [System -> Kinds] : Cardinality({s \in System : b[s] = "hung"}) <= MaxHung}
=============================================================================
