------------------------------- MODULE Cycle -------------------------------
(***************************************************************************)
(* What one collection cycle is made of: the resource collectors and the   *)
(* samples they contribute for each system (internal/nsr/collector.go,     *)
(* metrics.go).                                                            *)
(*                                                                         *)
(* Cycles are stamped 1, 2, ..., Stamps, 1, 2, ... and every fetched       *)
(* sample carries the stamp of its cycle as its value: two stamps are      *)
(* enough to tell a sample of this cycle from one of the cycle before, and *)
(* no counter has to be bounded.  Stamp 0 is the seeded empty snapshot     *)
(* (its Collected time is zero).                                           *)
(***************************************************************************)
EXTENDS SystemSamples, SequencesExt

CONSTANTS
  NumCollectors,  \* the resource collectors, run in the order 1, 2, ...
  Emits,          \* Emits[sys][c]: the untagged samples c maps from sys
  Stamps          \* the number of distinct cycle stamps

Collector == 1..NumCollectors
Slot == 1..Len(Systems)
Stamp == 1..Stamps

ASSUME CycleAssumption ==
  /\ NumCollectors \in Nat \ {0}
  /\ Stamps \in Nat \ {0, 1}
  /\ Emits \in [System -> [Collector -> Seq(Sample)]]
  /\ {upName, durationName} \subseteq Name
  /\ {upHelp, durationHelp} \subseteq Help

(* No collector emits the metrics the cycle and the guard add, nor the     *)
(* system label (ResourceCollector's contract, metrics.go:23-24).          *)
ASSUME EmitsAssumption ==
  \A sys \in System, c \in Collector : \A i \in 1..Len(Emits[sys][c]) :
    /\ Emits[sys][c][i].name \notin CycleMetric
    /\ \A l \in 1..Len(Emits[sys][c][i].labels) :
         Emits[sys][c][i].labels[l].key # systemLabel

NextStamp(n) == (n % Stamps) + 1

Stamped(seq, n) == [i \in 1..Len(seq) |-> [seq[i] EXCEPT !.value = n]]

EmptySnapshot == [samples |-> {}, collected |-> 0]

(* What a cycle publishes, as a function of its answers alone.  One        *)
(* system's contribution to the cycle stamped n:                           *)
Contribution(sys, got, n) ==
  LET part(c) == IF c \in got THEN Stamped(Emits[sys][c], n) ELSE <<>>
      fetched == FlattenSeq([c \in Collector |-> part(c)])
  IN  Tagged(fetched \o <<upSample(got = Collector), durationSample>>, sys)

SnapshotOf(answers, n) ==
  [samples |-> Guarded(FlattenSeq([i \in Slot |->
                 Contribution(Systems[i], answers[Systems[i]], n)])),
   collected |-> n]
=============================================================================
